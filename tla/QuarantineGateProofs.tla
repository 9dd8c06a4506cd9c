------------------------ MODULE QuarantineGateProofs ------------------------
(***************************************************************************)
(* What rests on the times and the overrides of Quarantine: a quarantined   *)
(* tag is allowed for its age, an override or at first sight and for no     *)
(* other reason, and refused only for a reason too; what happens to the     *)
(* table of observations; and that Quarantine implements PullGate.          *)
(***************************************************************************)
EXTENDS QuarantineProofs, QuarantineRefinement

USE DEF Becomes, At

-----------------------------------------------------------------------------
(* What a step may do to the times and the overrides that calls rest on.    *)
Onward ==
    /\ clock <= clock'
    /\ approvals \subseteq approvals' /\ bypasses \subseteq bypasses'
    /\ \A k \in Tags \X Digests :
          /\ resolvedAt[k] # Never => resolvedAt'[k] = resolvedAt[k]
          /\ insertedAt'[k] = insertedAt[k] \/ insertedAt'[k] = clock

(* The steps that leave rows and times of observations alone.               *)
Idle == UNCHANGED <<clock, observations, approvals, bypasses, resolvedAt, insertedAt>>

LEMMA IdleSteps ==
    ASSUME NEW r \in Requests,
           \/ (BeginAny(r) \/ Die(r) \/ ResolveFails(r))
           \/ ReadFreeze(r) \/ ReadApproval(r) \/ ReadBypass(r)
           \/ ReadObservation(r) \/ ReadCreated(r)
           \/ ReadCosignCache(r) \/ RecordCosign(r)
           \/ (\E s \in BOOLEAN : CosignAnswers(r, s))
           \/ RecordDecision(r) \/ WriteAudit(r)
           \/ CallFails(r) \/ VerificationFails(r)
    PROVE  Idle
<1>1. CASE BeginAny(r) \/ Die(r) \/ ResolveFails(r)
  BY <1>1 DEF BeginAny, Begin, BeginMalformed, Die, ResolveFails, Idle, tables, history
<1>2. CASE \/ ReadFreeze(r) \/ ReadApproval(r) \/ ReadBypass(r)
           \/ ReadObservation(r) \/ ReadCreated(r) \/ ReadCosignCache(r)
  BY <1>2 DEF ReadFreeze, ReadApproval, ReadBypass, ReadObservation, ReadCreated,
              ReadCosignCache, Idle, tables, history
<1>3. CASE RecordCosign(r) \/ \E s \in BOOLEAN : CosignAnswers(r, s)
  BY <1>3 DEF RecordCosign, CosignAnswers, Idle, tables, history
<1>4. CASE \/ RecordDecision(r) \/ WriteAudit(r) \/ CallFails(r)
           \/ VerificationFails(r)
  BY <1>4 DEF RecordDecision, WriteAudit, CallFails, VerificationFails, Idle, tables,
              history
<1> QED BY <1>1, <1>2, <1>3, <1>4

LEMMA OnwardNext ==
    ASSUME TypeOK, [Next]_vars
    PROVE  Onward
<1>1. ASSUME Idle
      PROVE  Onward
  BY <1>1 DEF Idle, Onward, TypeOK
<1>2. ASSUME NEW r \in Requests, ResolveDigest(r)
      PROVE  Onward
  <2> DEFINE k == <<job[r].tag, registry[job[r].tag]>>
  <2>1. /\ resolvedAt' = IF resolvedAt[k] = Never
                         THEN [resolvedAt EXCEPT ![k] = clock] ELSE resolvedAt
        /\ UNCHANGED <<clock, approvals, bypasses, insertedAt>>
    BY <1>2, Zenon DEF ResolveDigest, tables
  <2>2. resolvedAt \in [Tags \X Digests -> Time] /\ clock \in Nat
    BY DEF TypeOK
  <2> HIDE DEF k
  <2> QED BY <2>1, <2>2 DEF Onward
<1>3. ASSUME NEW r \in Requests, CreateObservation(r)
      PROVE  Onward
  <2> DEFINE k == <<job[r].tag, job[r].digest>>
  <2>1. /\ \/ insertedAt' = insertedAt
           \/ insertedAt' = [insertedAt EXCEPT ![k] = clock]
        /\ UNCHANGED <<clock, approvals, bypasses, resolvedAt>>
    BY <1>3 DEF CreateObservation
  <2>2. insertedAt \in [Tags \X Digests -> Time] /\ clock \in Nat
    BY DEF TypeOK
  <2> HIDE DEF k
  <2> QED BY <2>1, <2>2 DEF Onward
<1>4. ASSUME NEW r \in Requests, TouchObservation(r) \/ MarkAllowed(r)
      PROVE  Onward
  BY <1>4 DEF TouchObservation, MarkAllowed, Onward, history, TypeOK
<1>5. CASE Operator \/ Environment \/ UNCHANGED vars
  BY <1>5 DEF Operator, Environment, ApproveDigest, FreezeTag, BypassTag, Tick, MoveTag,
              vars, tables, history, Onward, TypeOK
<1>6. CASE \E r \in Requests : BeginAny(r) \/ Progress(r) \/ Die(r)
  BY <1>1, <1>2, <1>3, <1>4, <1>6, IdleSteps DEF Progress
<1> QED BY <1>5, <1>6 DEF Next

-----------------------------------------------------------------------------
(* The rows.                                                                *)

(* An update by id changes neither what a row is of nor when it is from.    *)
Refreshed(new, old) ==
    /\ \A n \in new : \E o \in old :
          n.tag = o.tag /\ n.digest = o.digest /\ n.firstSeenAt = o.firstSeenAt
    /\ \A o \in old : \E n \in new : n.tag = o.tag /\ n.digest = o.digest

LEMMA UpdateRefreshes ==
    ASSUME NEW rows \in SUBSET ObservationRow, NEW id, NEW now
    PROVE  /\ Refreshed(Touched(rows, id, now), rows)
           /\ Refreshed(MarkedAllowed(rows, id, now), rows)
<1> DEFINE T(o) == IF o.id = id THEN [o EXCEPT !.lastSeenAt = Unix(now)] ELSE o
           M(o) == IF o.id = id
                   THEN [o EXCEPT !.lastSeenAt = Unix(now), !.lastAllowedAt = Unix(now)]
                   ELSE o
<1>1. \A o \in rows : /\ T(o).tag = o.tag /\ T(o).digest = o.digest
                      /\ T(o).firstSeenAt = o.firstSeenAt
  BY DEF ObservationRow
<1>2. \A o \in rows : /\ M(o).tag = o.tag /\ M(o).digest = o.digest
                      /\ M(o).firstSeenAt = o.firstSeenAt
  BY DEF ObservationRow
<1>3. /\ Touched(rows, id, now) = {T(o) : o \in rows}
      /\ MarkedAllowed(rows, id, now) = {M(o) : o \in rows}
  BY DEF Touched, MarkedAllowed
<1> HIDE DEF T, M
<1> QED BY <1>1, <1>2, <1>3 DEF Refreshed

Rows == RowsDated /\ InsertedWithRow /\ ResolvedBefore

LEMMA RowsRefreshed ==
    ASSUME Rows, Refreshed(observations', observations),
           UNCHANGED <<clock, resolvedAt, insertedAt>>
    PROVE  Rows'
<1>1. RowsDated'
  BY DEF Rows, RowsDated, Refreshed
<1>2. InsertedWithRow'
  <2>1. ASSUME NEW t \in Tags, NEW d \in Digests
        PROVE  ObservationsOf(observations', t, d) # {}
               <=> ObservationsOf(observations, t, d) # {}
    BY DEF ObservationsOf, Refreshed
  <2> QED BY <2>1 DEF Rows, InsertedWithRow
<1>3. ResolvedBefore'
  BY DEF Rows, ResolvedBefore
<1> QED BY <1>1, <1>2, <1>3 DEF Rows

LEMMA RowsResolved ==
    ASSUME TypeOK, TypeOK', Rows, NEW r \in Requests, ResolveDigest(r)
    PROVE  Rows'
<1> DEFINE k == <<job[r].tag, registry[job[r].tag]>>
<1>1. resolvedAt' = IF resolvedAt[k] = Never
                    THEN [resolvedAt EXCEPT ![k] = clock] ELSE resolvedAt
  BY Zenon DEF ResolveDigest
<1>2. UNCHANGED <<clock, observations, insertedAt>>
  BY DEF ResolveDigest, tables
<1>3. /\ observations \subseteq ObservationRow /\ clock \in Nat
      /\ resolvedAt \in [Tags \X Digests -> Time]
  BY DEF TypeOK
<1> HIDE DEF k
<1>4. \A q \in Tags \X Digests :
         /\ resolvedAt[q] # Never => resolvedAt'[q] = resolvedAt[q]
         /\ resolvedAt[q] <= clock => resolvedAt'[q] <= clock
  BY <1>1, <1>3
<1>5. RowsDated'
  <2>1. \A o \in observations : <<o.tag, o.digest>> \in Tags \X Digests
    BY <1>3 DEF ObservationRow
  <2> QED BY <1>2, <1>4, <2>1 DEF Rows, RowsDated
<1>6. InsertedWithRow'
  BY <1>2 DEF Rows, InsertedWithRow
<1>7. ResolvedBefore'
  BY <1>2, <1>4 DEF Rows, ResolvedBefore
<1> QED BY <1>5, <1>6, <1>7 DEF Rows

(* The row a call inserts dates from the second it began in, which is less  *)
(* than Slack before the registry's answer.                                 *)
LEMMA RowsCreated ==
    ASSUME TypeOK, TypeOK', AllShaped, AllDated, NEW r \in Requests,
           CreateObservation(r)
    PROVE  Rows'
<1> DEFINE j == job[r]
           k == <<j.tag, j.digest>>
           row == FreshObservation(seq.observations + 1, j.tag, j.digest, j.now)
<1>1. /\ j \in Job /\ j.pc = "create" /\ j.tag \in Tags /\ j.digest \in Digests
      /\ j.pin = NoDigest /\ j.now \in Nat
  BY DEF AllShaped, CallShape, CreateObservation, DigestSteps, ObservationSteps, TypeOK, Job
<1>2. /\ k \in Tags \X Digests
      /\ resolvedAt[k] # Never /\ resolvedAt[k] <= j.now + MaxResolve
  BY <1>1 DEF AllDated, CallDated, DigestSteps
<1>3. /\ UNCHANGED <<clock, resolvedAt>>
      /\ observations' = InsertOrIgnore(observations, row)
      /\ IF ObservationsOf(observations, j.tag, j.digest) = {}
         THEN insertedAt' = [insertedAt EXCEPT ![k] = clock]
         ELSE insertedAt' = insertedAt
  BY DEF CreateObservation, Row
<1>4. row.tag = j.tag /\ row.digest = j.digest /\ row.firstSeenAt = Unix(j.now)
  BY DEF FreshObservation
<1>5. /\ resolvedAt \in [Tags \X Digests -> Time]
      /\ insertedAt \in [Tags \X Digests -> Time]
      /\ clock \in Nat
  BY DEF TypeOK
<1>6. Rows
  BY DEF AllDated, Rows
<1>7. Unix(j.now) >= resolvedAt[k] - Slack
  <2>1. resolvedAt[k] \in Nat
    BY <1>2, <1>5 DEF Time
  <2>2. /\ Unix(j.now) \in Nat
        /\ j.now - Unix(j.now) <= TicksPerSecond - 1
    BY <1>1, UnixBounds
  <2> HIDE DEF j, k
  <2> QED BY <1>1, <1>2, <2>1, <2>2, TicksAssumption, BoundsAssumption DEF Slack
<1> HIDE DEF j, row
<1>8. RowsDated'
  BY <1>2, <1>3, <1>4, <1>6, <1>7 DEF Rows, RowsDated, InsertOrIgnore
<1>9. InsertedWithRow'
  <2>1. CASE ObservationsOf(observations, j.tag, j.digest) # {}
    <3>1. observations' = observations /\ insertedAt' = insertedAt
      BY <1>3, <1>4, <2>1 DEF InsertOrIgnore
    <3> QED BY <1>6, <3>1 DEF Rows, InsertedWithRow
  <2>2. CASE ObservationsOf(observations, j.tag, j.digest) = {}
    <3>1. /\ observations' = observations \cup {row}
          /\ insertedAt' = [insertedAt EXCEPT ![k] = clock]
      BY <1>3, <1>4, <2>2 DEF InsertOrIgnore
    <3>2. ASSUME NEW t \in Tags, NEW d \in Digests
          PROVE  insertedAt'[<<t, d>>] # Never
                 <=> ObservationsOf(observations', t, d) # {}
      <4>1. CASE t = j.tag /\ d = j.digest
        <5>1. row \in ObservationsOf(observations', t, d)
          BY <1>4, <3>1, <4>1 DEF ObservationsOf
        <5>2. insertedAt'[<<t, d>>] = clock
          BY <1>5, <3>1, <4>1
        <5> QED BY <1>5, <5>1, <5>2 DEF Never
      <4>2. CASE ~(t = j.tag /\ d = j.digest)
        <5>1. ObservationsOf(observations', t, d) = ObservationsOf(observations, t, d)
          BY <1>4, <3>1, <4>2 DEF ObservationsOf
        <5>2. insertedAt'[<<t, d>>] = insertedAt[<<t, d>>]
          BY <1>5, <3>1, <4>2
        <5> QED BY <1>6, <5>1, <5>2 DEF Rows, InsertedWithRow
      <4> QED BY <4>1, <4>2
    <3> QED BY <3>2 DEF InsertedWithRow
  <2> QED BY <2>1, <2>2
<1>10. ResolvedBefore'
  BY <1>3, <1>6 DEF Rows, ResolvedBefore
<1> QED BY <1>8, <1>9, <1>10 DEF Rows

LEMMA RowsNext ==
    ASSUME TypeOK, TypeOK', AllShaped, AllDated, [Next]_vars
    PROVE  Rows'
<1>0. Rows
  BY DEF AllDated, Rows
<1>1. ASSUME Idle
      PROVE  Rows'
  BY <1>0, <1>1 DEF Idle, Rows, RowsDated, InsertedWithRow, ResolvedBefore
<1>2. ASSUME NEW r \in Requests, TouchObservation(r) \/ MarkAllowed(r)
      PROVE  Rows'
  <2>1. /\ \/ observations' = Touched(observations, job[r].obs.id, job[r].now)
           \/ observations' = MarkedAllowed(observations, job[r].obs.id, job[r].now)
        /\ UNCHANGED <<clock, resolvedAt, insertedAt>>
    BY <1>2 DEF TouchObservation, MarkAllowed, history
  <2>2. observations \in SUBSET ObservationRow
    BY DEF TypeOK
  <2> QED BY <1>0, <2>1, <2>2, UpdateRefreshes, RowsRefreshed
<1>3. CASE Operator \/ Environment \/ UNCHANGED vars
  <2>1. UNCHANGED <<observations, resolvedAt, insertedAt>> /\ clock <= clock'
    BY <1>3 DEF Operator, Environment, ApproveDigest, FreezeTag, BypassTag, Tick,
                MoveTag, vars, tables, history, TypeOK
  <2>2. ResolvedBefore'
    BY <1>0, <2>1 DEF Rows, ResolvedBefore, TypeOK, Time, Never
  <2> QED BY <1>0, <2>1, <2>2 DEF Rows, RowsDated, InsertedWithRow
<1>4. CASE \E r \in Requests : BeginAny(r) \/ Progress(r) \/ Die(r)
  BY <1>0, <1>1, <1>2, <1>4, IdleSteps, RowsResolved, RowsCreated DEF Progress
<1> QED BY <1>3, <1>4 DEF Next

-----------------------------------------------------------------------------
(* The times a call rests on.                                               *)

(* What was true of a call's times stays true while others move.            *)
LEMMA DatedOnward ==
    ASSUME TypeOK, TypeOK', Onward, NEW r \in Requests, CallShape(job[r]),
           CallDated(job[r], clock, resolvedAt, insertedAt),
           job[r].pc = "resolve" => clock' <= job[r].now + MaxResolve
    PROVE  CallDated(job[r], clock', resolvedAt', insertedAt')
<1> DEFINE j == job[r]
           k == <<j.tag, j.digest>>
<1>1. j \in Job /\ j.now \in Nat
  BY DEF TypeOK, Job
<1>2. /\ clock \in Nat /\ clock' \in Nat
      /\ resolvedAt \in [Tags \X Digests -> Time]
      /\ insertedAt \in [Tags \X Digests -> Time]
  BY DEF TypeOK
<1>3. j.pc \in DigestSteps /\ j.pin = NoDigest => k \in Tags \X Digests
  BY DEF CallShape
<1>4. j.pc \in {"create", "reget", "touch"} => j.pc \in DigestSteps /\ j.pin = NoDigest
  BY DEF CallShape, DigestSteps, ReadSteps, ObservationSteps
<1>5. j.now <= clock'
  BY <1>1, <1>2 DEF CallDated, Onward
<1>6. j.pc \in DigestSteps /\ j.pin = NoDigest =>
         resolvedAt'[k] # Never /\ resolvedAt'[k] <= j.now + MaxResolve
  BY <1>3 DEF CallDated, Onward
<1>7. j.pc = "create" => insertedAt'[k] = Never \/ insertedAt'[k] >= j.now
  BY <1>1, <1>2, <1>3, <1>4 DEF CallDated, Onward
<1>8. j.pc = "reget" => insertedAt'[k] >= j.now
  BY <1>1, <1>2, <1>3, <1>4 DEF CallDated, Onward
<1>9. j.pc = "touch" => j.obs.firstSeenAt >= resolvedAt'[k] - Slack
  BY <1>3, <1>4 DEF CallDated, Onward
<1> QED BY <1>5, <1>6, <1>7, <1>8, <1>9 DEF CallDated

(* A call that goes on with its digest rests on no new time.                *)
LEMMA DatedLater ==
    ASSUME NEW j, NEW n, NEW time, NEW resolved, NEW inserted,
           CallDated(j, time, resolved, inserted),
           Same(n, j), n.digest = j.digest,
           n.pc \notin {"resolve", "create", "reget", "touch"},
           n.pc \in DigestSteps => j.pc \in DigestSteps
    PROVE  CallDated(n, time, resolved, inserted)
BY DEF CallDated, Same

LEMMA DatedStops ==
    ASSUME NEW j, NEW n, NEW v, NEW time, NEW resolved, NEW inserted,
           CallDated(j, time, resolved, inserted), Stops(n, j, v)
    PROVE  CallDated(n, time, resolved, inserted)
BY DEF CallDated, Stops, DigestSteps, ReadSteps, VerifySteps

LEMMA DatedBegin ==
    ASSUME TypeOK, NEW r \in Requests, NEW tag \in AnyTag,
           NEW pin \in AnyDigest, NEW p \in Policies, Begin(r, tag, pin, p)
    PROVE  CallDated(job'[r], clock, resolvedAt, insertedAt)
<1>1. clock \in Nat /\ clock <= clock + MaxResolve
  BY BoundsAssumption DEF TypeOK
<1> QED BY <1>1, BeginForms DEF CallDated, DigestSteps, ReadSteps, VerifySteps

(* The steps that learn a time: the registry's answer, the row read, the    *)
(* row inserted.                                                            *)
LEMMA DatedLearns ==
    ASSUME TypeOK, TypeOK', AllShaped, AllDated, Rows', NEW r \in Requests,
           ResolveDigest(r) \/ ReadObservation(r) \/ CreateObservation(r),
           CallDated(job[r], clock', resolvedAt', insertedAt')
    PROVE  CallDated(job'[r], clock', resolvedAt', insertedAt')
<1> DEFINE j == job[r]
           n == job'[r]
           k == <<j.tag, j.digest>>
<1>0. /\ j \in Job /\ CallShape(j) /\ Rows /\ j.now \in Nat
      /\ CallDated(j, clock, resolvedAt, insertedAt)
  BY DEF TypeOK, AllShaped, AllDated, Rows, Job
<1>1. CASE ResolveDigest(r)
  <2> DEFINE d == registry[j.tag]
             q == <<j.tag, d>>
  <2>1. /\ Same(n, j) /\ n.digest = d /\ n.pc = "freeze"
        /\ j.pc = "resolve" /\ clock' = clock
    BY <1>1, ResolveForms DEF ResolveDigest
  <2>2. q \in Tags \X Digests
    BY <1>0, <2>1 DEF CallShape, TypeOK
  <2>3. /\ resolvedAt' = IF resolvedAt[q] = Never
                         THEN [resolvedAt EXCEPT ![q] = clock] ELSE resolvedAt
    BY <1>1, Zenon DEF ResolveDigest
  <2>4. /\ clock \in Nat /\ resolvedAt \in [Tags \X Digests -> Time]
        /\ resolvedAt' \in [Tags \X Digests -> Time]
    BY DEF TypeOK
  <2>5. clock <= j.now + MaxResolve
    BY <1>0, <2>1 DEF CallDated
  <2> HIDE DEF d, q, j, n
  <2>6. resolvedAt'[q] # Never
    BY <2>2, <2>3, <2>4 DEF Never
  <2>7. resolvedAt'[q] <= clock
    BY <2>1, <2>2 DEF Rows, ResolvedBefore
  <2>8. resolvedAt'[q] <= j.now + MaxResolve
    BY <1>0, <2>2, <2>4, <2>5, <2>7, BoundsAssumption DEF Time, Never
  <2> QED BY <2>1, <2>6, <2>8 DEF CallDated, Same, q, j, n
<1>2. CASE ReadObservation(r)
  <2>1. /\ Same(n, j) /\ n.digest = j.digest /\ j.pc = "get"
        /\ UNCHANGED <<clock, resolvedAt, insertedAt>>
        /\ \/ n.pc = "create" /\ Row(r) = {}
           \/ n.pc = "touch" /\ \E o \in Row(r) : n.obs = Snap(o)
    BY <1>2, ObservationForms DEF ReadObservation, history
  <2>2. j.pin = NoDigest /\ j.tag \in Tags /\ j.digest \in Digests
    BY <1>0, <2>1 DEF CallShape, DigestSteps, ReadSteps, ObservationSteps
  <2>3. Row(r) = {} => insertedAt[k] = Never
    BY <1>0, <2>2 DEF Rows, InsertedWithRow, Row
  <2>4. \A o \in Row(r) : o.firstSeenAt >= resolvedAt[k] - Slack
    BY <1>0 DEF Rows, RowsDated, Row, ObservationsOf
  <2>5. resolvedAt[k] # Never /\ resolvedAt[k] <= j.now + MaxResolve /\ j.now <= clock
    BY <1>0, <2>1, <2>2 DEF CallDated, DigestSteps, ReadSteps
  <2>6. n.pc = "touch" => n.obs.firstSeenAt >= resolvedAt[k] - Slack
    <3>1. \A o \in Row(r) : Snap(o).firstSeenAt = o.firstSeenAt
      BY DEF Snap
    <3> QED BY <2>1, <2>4, <3>1
  <2> HIDE DEF j, n
  <2> QED BY <2>1, <2>3, <2>5, <2>6 DEF CallDated, Same, j, n
<1>3. CASE CreateObservation(r)
  <2>1. /\ Same(n, j) /\ n.digest = j.digest /\ j.pc = "create" /\ n.pc = "reget"
        /\ clock' = clock /\ resolvedAt' = resolvedAt
    BY <1>3, EndForms DEF CreateObservation, Keeps, Reads
  <2>2. j.pin = NoDigest /\ j.tag \in Tags /\ j.digest \in Digests
    BY <1>0, <2>1 DEF CallShape, DigestSteps, ObservationSteps
  <2>3. insertedAt'[k] >= j.now
    <3>1. CASE Row(r) = {}
      <4>1. insertedAt' = [insertedAt EXCEPT ![k] = clock]
        BY <1>3, <3>1 DEF CreateObservation
      <4> QED BY <1>0, <2>2, <4>1 DEF CallDated, TypeOK
    <3>2. CASE Row(r) # {}
      <4>1. insertedAt' = insertedAt
        BY <1>3, <3>2 DEF CreateObservation
      <4>2. insertedAt[k] # Never
        BY <1>0, <2>2, <3>2 DEF Rows, InsertedWithRow, Row
      <4> QED BY <1>0, <2>1, <4>1, <4>2 DEF CallDated
    <3> QED BY <3>1, <3>2
  <2>4. /\ resolvedAt'[k] # Never /\ resolvedAt'[k] <= j.now + MaxResolve
        /\ j.now <= clock'
    BY <2>1, <2>2 DEF CallDated, DigestSteps
  <2> HIDE DEF j, n
  <2> QED BY <2>1, <2>3, <2>4 DEF CallDated, Same, j, n
<1> QED BY <1>1, <1>2, <1>3

(* Every other step of a call ends it, or goes on with its digest.          *)
Later(n, j) ==
    /\ Same(n, j) /\ n.digest = j.digest
    /\ n.pc \notin {"resolve", "create", "reget", "touch"}
    /\ n.pc \in DigestSteps => j.pc \in DigestSteps

LEMMA LaterForms ==
    ASSUME TypeOK, NEW r \in Requests,
           \/ ResolveFails(r) \/ ReadFreeze(r) \/ ReadApproval(r) \/ ReadBypass(r)
           \/ ReadCreated(r) \/ TouchObservation(r) \/ ReadCosignCache(r)
           \/ (\E s \in BOOLEAN : CosignAnswers(r, s)) \/ RecordCosign(r)
           \/ MarkAllowed(r) \/ VerificationFails(r)
           \/ RecordDecision(r) \/ WriteAudit(r) \/ CallFails(r)
           \/ BeginMalformed(r) \/ Die(r)
    PROVE  Later(job'[r], job[r]) \/ \E v : Stops(job'[r], job[r], v)
<1> USE DEF DigestSteps, ReadSteps, VerifySteps
<1>1. CASE ReadFreeze(r) \/ ReadApproval(r)
  BY <1>1, FreezeForms, ApprovalForms DEF ReadFreeze, ReadApproval, Later
<1>2. CASE ReadBypass(r)
  <2>1. /\ Same(job'[r], job[r]) /\ job'[r].digest = job[r].digest
        /\ job'[r].pc \in {"record", "cache", "get"} /\ job[r].pc = "bypass"
    BY <1>2, BypassForms DEF ReadBypass
  <2> QED BY <2>1 DEF Later
<1>3. CASE ReadCreated(r)
  BY <1>3, CreatedForms DEF ReadCreated, Keeps, Reads, Later
<1>4. CASE TouchObservation(r) \/ ReadCosignCache(r) \/ RecordCosign(r)
  <2>1. \/ /\ Keeps(job'[r], job[r]) /\ job[r].pc \in DigestSteps
           /\ job'[r].pc \in {"record", "cache", "verify", "mark"}
        \/ Stops(job'[r], job[r], "error")
    BY <1>4, EndForms, PassedForms
    DEF TouchObservation, ReadCosignCache, RecordCosign, AfterCosign, AllowWithVerification
  <2> QED BY <2>1 DEF Keeps, Reads, Later
<1>5. CASE \E s \in BOOLEAN : CosignAnswers(r, s)
  BY <1>5, AnswerForms DEF CosignAnswers, Later
<1>6. CASE ResolveFails(r) \/ VerificationFails(r)
  BY <1>6, ResolveFailsForms, RefusedForms DEF Keeps, Reads, Later
<1>7. CASE MarkAllowed(r) \/ RecordDecision(r)
  BY <1>7, EndForms DEF MarkAllowed, RecordDecision, Keeps, Reads, Later
<1>8. CASE WriteAudit(r) \/ CallFails(r) \/ BeginMalformed(r) \/ Die(r)
  BY <1>8, EndForms DEF WriteAudit, CallFails, BeginMalformed, Die
<1> QED BY <1>1, <1>2, <1>3, <1>4, <1>5, <1>6, <1>7, <1>8

LEMMA DatedMoves ==
    ASSUME NEW j, NEW n, NEW time, NEW resolved, NEW inserted,
           CallDated(j, time, resolved, inserted),
           Later(n, j) \/ \E v : Stops(n, j, v)
    PROVE  CallDated(n, time, resolved, inserted)
BY DatedLater, DatedStops DEF Later

(* The registry client gives up on its own (Tick).                          *)
LEMMA ResolveWaits ==
    ASSUME TypeOK, [Next]_vars, NEW q \in Requests, job[q].pc = "resolve",
           clock <= job[q].now + MaxResolve
    PROVE  clock' <= job[q].now + MaxResolve
<1>1. CASE UNCHANGED clock
  BY <1>1
<1>2. CASE \E r \in Requests : BeginAny(r) \/ Progress(r) \/ Die(r)
  <2>1. UNCHANGED clock
    BY <1>2, IdleSteps
    DEF Idle, Progress, ResolveDigest, CreateObservation, TouchObservation, MarkAllowed
  <2> QED BY <1>1, <2>1
<1>3. CASE Operator \/ UNCHANGED vars \/ \E t \in Tags, d \in Digests : MoveTag(t, d)
  <2>1. UNCHANGED clock
    BY <1>3 DEF Operator, ApproveDigest, FreezeTag, BypassTag, MoveTag, vars
  <2> QED BY <1>1, <2>1
<1>4. CASE Tick
  BY <1>4, BoundsAssumption DEF Tick, TypeOK, Job
<1> QED BY <1>2, <1>3, <1>4 DEF Next, Environment

LEMMA DatedNext ==
    ASSUME TypeOK, TypeOK', AllShaped, AllDated, [Next]_vars
    PROVE  AllDated'
<1> DEFINE Kept(q) == CallDated(job[q], clock', resolvedAt', insertedAt')
<1>1. Onward /\ Rows'
  BY OnwardNext, RowsNext
<1>2. \A q \in Requests : job[q].pc = "resolve" => clock' <= job[q].now + MaxResolve
  BY ResolveWaits DEF AllDated, CallDated
<1>3. \A q \in Requests : Kept(q)
  BY <1>1, <1>2, DatedOnward DEF AllDated, AllShaped
<1>4. ASSUME NEW r \in Requests, BeginAny(r) \/ Progress(r) \/ Die(r)
      PROVE  CallDated(job'[r], clock', resolvedAt', insertedAt')
  <2>1. CASE \E tag \in AnyTag, pin \in AnyDigest, p \in Policies : Begin(r, tag, pin, p)
    <3>1. CallDated(job'[r], clock, resolvedAt, insertedAt)
      BY <2>1, DatedBegin
    <3>2. UNCHANGED <<clock, resolvedAt, insertedAt>>
      BY <2>1 DEF Begin, history
    <3> QED BY <3>1, <3>2
  <2>2. CASE ResolveDigest(r) \/ ReadObservation(r) \/ CreateObservation(r)
    BY <1>1, <1>3, <2>2, DatedLearns
  <2>3. CASE \/ ResolveFails(r) \/ ReadFreeze(r) \/ ReadApproval(r) \/ ReadBypass(r)
             \/ ReadCreated(r) \/ TouchObservation(r) \/ ReadCosignCache(r)
             \/ (\E s \in BOOLEAN : CosignAnswers(r, s)) \/ RecordCosign(r)
             \/ MarkAllowed(r) \/ VerificationFails(r)
             \/ RecordDecision(r) \/ WriteAudit(r) \/ CallFails(r)
             \/ BeginMalformed(r) \/ Die(r)
    BY <1>3, <2>3, LaterForms, DatedMoves
  <2> QED BY <1>4, <2>1, <2>2, <2>3 DEF BeginAny, Progress
<1>5. \A q \in Requests : CallDated(job'[q], clock', resolvedAt', insertedAt')
  <2>1. CASE \E r \in Requests : BeginAny(r) \/ Progress(r) \/ Die(r)
    <3>1. PICK r \in Requests : BeginAny(r) \/ Progress(r) \/ Die(r)
      BY <2>1
    <3>2. \A q \in Requests : q # r => job'[q] = job[q]
      BY <3>1, OneMoves
    <3> QED BY <1>3, <1>4, <3>1, <3>2
  <2>2. CASE Operator \/ Environment \/ UNCHANGED vars
    <3>1. UNCHANGED job
      BY <2>2 DEF Operator, Environment, ApproveDigest, FreezeTag, BypassTag, Tick,
                  MoveTag, vars
    <3> QED BY <1>3, <3>1
  <2> QED BY <2>1, <2>2 DEF Next
<1> QED BY <1>1, <1>5 DEF AllDated, Rows

(* Every row dates from a call that began at most Slack before some call    *)
(* learnt of its digest, and every call holds times no later than that      *)
(* (engine.go:131-172, CreateObservation and TouchObservation).             *)
THEOREM DatedInvariant == Spec => []AllDated
<1>1. Init => AllDated
  BY DEF Init, AllDated, RowsDated, InsertedWithRow, ResolvedBefore, CallDated, NewJob,
         ObservationsOf, DigestSteps, ReadSteps, VerifySteps, Never
<1>2. TypeOK /\ TypeOK' /\ AllShaped /\ AllDated /\ [Next]_vars => AllDated'
  BY DatedNext
<1> QED BY <1>1, <1>2, TypeCorrect, ShapeInvariant, PTL DEF Spec
-----------------------------------------------------------------------------
(* Why a call is allowed.                                                   *)

LEMMA ApprovalFound ==
    ASSUME NEW rows, NEW j, ActiveApprovals(rows, j.tag, j.digest, j.now) # {}
    PROVE  ApprovalFor(rows, j)
BY DEF ActiveApprovals, Unexpired, ApprovalFor, InForce

LEMMA BypassFound ==
    ASSUME NEW rows, NEW j, ActiveBypasses(rows, j.tag, j.now) # {}
    PROVE  BypassFor(rows, j)
BY DEF ActiveBypasses, Unexpired, BypassFor, InForce

(* A reason to allow is not lost while others move: overrides are never     *)
(* deleted, a time that is known stays, a row that was there stays.         *)
LEMMA JustifiedOnward ==
    ASSUME TypeOK, TypeOK', Onward, NEW r \in Requests, CallShape(job[r]),
           CallDated(job[r], clock, resolvedAt, insertedAt),
           CallJustified(job[r], approvals, bypasses, resolvedAt, insertedAt)
    PROVE  CallJustified(job[r], approvals', bypasses', resolvedAt', insertedAt')
<1> DEFINE j == job[r]
           k == <<j.tag, j.digest>>
<1>1. /\ j \in Job /\ j.now \in Nat /\ clock \in Nat /\ j.now <= clock
      /\ insertedAt \in [Tags \X Digests -> Time]
      /\ insertedAt' \in [Tags \X Digests -> Time]
  BY DEF TypeOK, Job, CallDated
<1>2. /\ ApprovalFor(approvals, j) => ApprovalFor(approvals', j)
      /\ BypassFor(bypasses, j) => BypassFor(bypasses', j)
  BY DEF Onward, ApprovalFor, BypassFor
<1>3. ASSUME PastTheGate(j)
      PROVE  Justified(j, approvals', bypasses', resolvedAt', insertedAt')
  <2>1. k \in Tags \X Digests
    BY <1>1, <1>3 DEF PastTheGate, CallShape, DigestSteps, Gated, Job, AnyDigest
  <2>2. Justified(j, approvals, bypasses, resolvedAt, insertedAt)
    BY <1>3 DEF CallJustified
  <2>3. insertedAt[k] >= j.now => insertedAt'[k] >= j.now
    BY <1>1, <2>1 DEF Onward
  <2>4. resolvedAt[k] # Never => resolvedAt'[k] = resolvedAt[k]
    BY <2>1 DEF Onward
  <2> HIDE DEF j
  <2> QED BY <1>2, <2>2, <2>3, <2>4 DEF Justified
<1> QED BY <1>2, <1>3 DEF CallJustified

(* The same reason serves a call that goes on with its digest.              *)
LEMMA SameReason ==
    ASSUME NEW j, NEW n, NEW approved, NEW bypassed, NEW resolved, NEW inserted,
           n.tag = j.tag, n.policy = j.policy, n.now = j.now, n.digest = j.digest
    PROVE  /\ Justified(j, approved, bypassed, resolved, inserted)
              => Justified(n, approved, bypassed, resolved, inserted)
           /\ ApprovalFor(approved, j) => ApprovalFor(approved, n)
           /\ BypassFor(bypassed, j) => BypassFor(bypassed, n)
BY DEF Justified, ApprovalFor, BypassFor, InForce

LEMMA JustifiedLater ==
    ASSUME NEW j, NEW n, NEW approved, NEW bypassed, NEW resolved, NEW inserted,
           CallJustified(j, approved, bypassed, resolved, inserted),
           Same(n, j), n.digest = j.digest,
           n.pc \in {"bypass"} \cup OverrideSteps =>
              n.approval = j.approval /\ j.pc \in {"bypass"} \cup OverrideSteps,
           n.pc \in OverrideSteps => n.bypass = j.bypass /\ j.pc \in OverrideSteps,
           PastTheGate(n) => PastTheGate(j)
    PROVE  CallJustified(n, approved, bypassed, resolved, inserted)
BY SameReason DEF CallJustified, Same

LEMMA JustifiedStops ==
    ASSUME NEW j, NEW n, NEW v, NEW approved, NEW bypassed, NEW resolved, NEW inserted,
           CallJustified(j, approved, bypassed, resolved, inserted),
           Stops(n, j, v), v = "allow" => j.pc = "audit" /\ j.outcome = "allow"
    PROVE  CallJustified(n, approved, bypassed, resolved, inserted)
<1>1. /\ n.tag = j.tag /\ n.policy = j.policy /\ n.now = j.now /\ n.digest = j.digest
      /\ n.pc = "done"
  BY DEF Stops
<1>2. PastTheGate(n) => PastTheGate(j)
  BY DEF PastTheGate, VerifySteps, Allowing, Gated, Stops
<1> QED BY <1>1, <1>2, SameReason DEF CallJustified, OverrideSteps

(* Before the gate: the registry, the freeze, and the overrides read.       *)
LEMMA JustifiedEarly ==
    ASSUME TypeOK, AllShaped, NEW r \in Requests,
           NEW approved, NEW bypassed, NEW resolved, NEW inserted,
           approvals \subseteq approved, bypasses \subseteq bypassed,
           CallJustified(job[r], approved, bypassed, resolved, inserted),
           \/ ResolveDigest(r) \/ ResolveFails(r)
           \/ ReadFreeze(r) \/ ReadApproval(r) \/ ReadBypass(r) \/ ReadObservation(r)
    PROVE  CallJustified(job'[r], approved, bypassed, resolved, inserted)
<1> USE DEF OverrideSteps, VerifySteps
<1>0. job[r] \in Job /\ CallShape(job[r])
  BY DEF TypeOK, AllShaped
<1>1. CASE ResolveDigest(r) \/ ReadFreeze(r)
  <2>1. /\ job'[r].pc \in {"freeze", "approval"} /\ job'[r].answer = "none"
    BY <1>1, ResolveForms, FreezeForms, Unanswered DEF ResolveDigest, ReadFreeze, Same
  <2> QED BY <2>1 DEF CallJustified, PastTheGate, Allowing
<1>2. CASE ResolveFails(r)
  <2>1. job'[r].pc = "record" /\ job'[r].digest = NoDigest
    BY <1>0, <1>2, ResolveFailsForms DEF ResolveFails, Keeps, Reads, CallShape
  <2> QED BY <2>1 DEF CallJustified, PastTheGate, Gated
<1>3. CASE ReadApproval(r)
  <2> DEFINE n == job'[r]
  <2>1. /\ n.pc = "bypass" /\ n.answer = "none"
        /\ n.approval = ActiveApprovals(approvals, n.tag, n.digest, n.now)
    BY <1>3, ApprovalForms, Unanswered DEF ReadApproval, Same
  <2> HIDE DEF n
  <2>2. n.approval # {} => ApprovalFor(approved, n)
    BY <2>1, ApprovalFound DEF ApprovalFor
  <2>3. CallJustified(n, approved, bypassed, resolved, inserted)
    BY <2>1, <2>2 DEF CallJustified, PastTheGate, Allowing
  <2> QED BY <2>3 DEF n
<1>4. CASE ReadBypass(r)
  <2> DEFINE n == job'[r]
  <2>1. /\ Same(n, job[r]) /\ n.digest = job[r].digest /\ n.answer = "none"
        /\ n.approval = job[r].approval /\ job[r].pc = "bypass"
        /\ n.bypass = ActiveBypasses(bypasses, n.tag, n.now)
        /\ \/ n.pc = "record" /\ n.outcome = "deny"
           \/ n.pc \in {"cache", "record"} /\ n.pin # NoDigest
           \/ n.pc = "get"
    BY <1>4, BypassForms, Unanswered DEF ReadBypass, Same
  <2> HIDE DEF n
  <2>2. n.bypass # {} => BypassFor(bypassed, n)
    BY <2>1, BypassFound DEF BypassFor
  <2>3. n.approval # {} => ApprovalFor(approved, n)
    BY <2>1, SameReason DEF CallJustified, Same
  <2>4. ~PastTheGate(n)
    BY <2>1 DEF PastTheGate, Allowing
  <2>5. CallJustified(n, approved, bypassed, resolved, inserted)
    BY <2>2, <2>3, <2>4 DEF CallJustified
  <2> QED BY <2>5 DEF n
<1>5. CASE ReadObservation(r)
  <2>1. /\ job'[r].pc \in {"create", "touch"} /\ job[r].pc = "get"
        /\ job'[r].answer = "none"
    BY <1>5, ObservationForms, Unanswered DEF ReadObservation, Same
  <2>2. ~PastTheGate(job'[r])
    BY <2>1 DEF PastTheGate, Allowing
  <2> QED BY <1>5, <2>1, <2>2, ObservationForms, JustifiedLater
<1> QED BY <1>1, <1>2, <1>3, <1>4, <1>5

(* The gate: the row just created, or the age of the row that was there.    *)
LEMMA JustifiedGate ==
    ASSUME TypeOK, AllShaped, NEW r \in Requests, NEW approved, NEW bypassed,
           NEW resolved \in [Tags \X Digests -> Time], NEW inserted,
           ReadCreated(r) => inserted[<<job[r].tag, job[r].digest>>] >= job[r].now,
           TouchObservation(r) =>
              /\ resolved[<<job[r].tag, job[r].digest>>] # Never
              /\ job[r].obs.firstSeenAt
                    >= resolved[<<job[r].tag, job[r].digest>>] - Slack,
           CallJustified(job[r], approved, bypassed, resolved, inserted),
           ReadCreated(r) \/ TouchObservation(r)
    PROVE  CallJustified(job'[r], approved, bypassed, resolved, inserted)
<1> USE DEF OverrideSteps, VerifySteps
<1> DEFINE j == job[r]
           n == job'[r]
           k == <<j.tag, j.digest>>
<1>0. /\ j \in Job /\ j.answer = "none" /\ j.pc \in {"reget", "touch"}
      /\ j.pin = NoDigest /\ k \in Tags \X Digests
  BY Unanswered DEF TypeOK, AllShaped, CallShape, ReadCreated, TouchObservation,
                    DigestSteps, ReadSteps, ObservationSteps
<1>1. Overridden(r) => Justified(j, approved, bypassed, resolved, inserted)
  BY <1>0 DEF CallJustified, Overridden, Justified
<1>2. \/ Stops(n, j, "panic") \/ Stops(n, j, "error")
      \/ /\ Same(n, j) /\ n.digest = j.digest
         /\ n.pc \in {"record", "cache", "mark"}
         /\ \/ n.pc = "record" /\ n.outcome = "deny"
            \/ Justified(j, approved, bypassed, resolved, inserted)
  <2>1. CASE ReadCreated(r)
    <3>1. j.policy.allowFirstSeen
             => Justified(j, approved, bypassed, resolved, inserted)
      BY <2>1 DEF Justified
    <3> QED BY <1>1, <2>1, <3>1, CreatedForms DEF Keeps, Reads
  <2>2. CASE TouchObservation(r)
    <3>1. ~TooYoung(r) => Justified(j, approved, bypassed, resolved, inserted)
      <4>1. /\ j.obs.firstSeenAt >= resolved[k] - Slack
            /\ resolved[k] # Never
        BY <2>2
      <4>2. /\ j.now \in Nat /\ j.obs.firstSeenAt \in Nat /\ j.policy.minAge \in Nat
            /\ resolved[k] \in Nat /\ Slack \in Nat
        <5>1. j.now \in Nat /\ j.obs \in Snapshot /\ j.policy \in Policy
          BY <1>0, PoliciesAssumption DEF Job
        <5>2. resolved[k] \in Nat
          BY <1>0, <4>1 DEF Time
        <5>3. Slack \in Nat
          BY TicksAssumption, BoundsAssumption DEF Slack
        <5> HIDE DEF j, k
        <5> QED BY <5>1, <5>2, <5>3 DEF Snapshot, Policy
      <4>3. ~TooYoung(r) => j.now - j.obs.firstSeenAt >= j.policy.minAge
        BY <4>2 DEF TooYoung
      <4>4. ~TooYoung(r) => j.now - resolved[k] >= j.policy.minAge - Slack
        <5> HIDE DEF j, k
        <5> QED BY <4>1, <4>2, <4>3
      <4> QED BY <4>1, <4>4 DEF Justified
    <3>2. \/ Stops(n, j, "error")
          \/ /\ Keeps(n, j) /\ n.pc = "record" /\ n.outcome = "deny"
          \/ /\ Keeps(n, j) /\ n.pc \in {"cache", "mark"}
             /\ Overridden(r) \/ ~TooYoung(r)
      BY <1>0, <2>2, EndForms, PassedForms DEF TouchObservation, AllowWithVerification
    <3> QED BY <1>1, <3>1, <3>2 DEF Keeps, Reads
  <2> QED BY <2>1, <2>2
<1>3. CASE Stops(n, j, "panic") \/ Stops(n, j, "error")
  BY <1>3, JustifiedStops
<1>4. CASE /\ Same(n, j) /\ n.digest = j.digest
           /\ n.pc \in {"record", "cache", "mark"}
           /\ \/ n.pc = "record" /\ n.outcome = "deny"
              \/ Justified(j, approved, bypassed, resolved, inserted)
  <2>1. CASE n.pc = "record" /\ n.outcome = "deny"
    BY <1>0, <1>4, <2>1 DEF CallJustified, PastTheGate, Allowing, Same
  <2>2. CASE Justified(j, approved, bypassed, resolved, inserted)
    <3>1. Justified(n, approved, bypassed, resolved, inserted)
      BY <1>4, <2>2, SameReason DEF Same
    <3> QED BY <1>4, <3>1 DEF CallJustified
  <2> QED BY <1>4, <2>1, <2>2
<1> QED BY <1>2, <1>3, <1>4

(* Past the gate, and the end.                                              *)
LEMMA JustifiedAfter ==
    ASSUME TypeOK, AllShaped, NEW r \in Requests,
           NEW approved, NEW bypassed, NEW resolved, NEW inserted,
           CallJustified(job[r], approved, bypassed, resolved, inserted),
           \/ CreateObservation(r) \/ ReadCosignCache(r) \/ RecordCosign(r)
           \/ (\E s \in BOOLEAN : CosignAnswers(r, s))
           \/ MarkAllowed(r) \/ VerificationFails(r)
           \/ RecordDecision(r) \/ WriteAudit(r) \/ CallFails(r)
           \/ BeginMalformed(r) \/ Die(r)
    PROVE  CallJustified(job'[r], approved, bypassed, resolved, inserted)
<1> USE DEF OverrideSteps, VerifySteps
<1>1. CASE CreateObservation(r)
  <2>1. /\ Keeps(job'[r], job[r]) /\ job[r].pc = "create" /\ job'[r].pc = "reget"
        /\ job'[r].answer = "none"
    BY <1>1, EndForms, Unanswered DEF CreateObservation, Keeps, Same
  <2>2. ~PastTheGate(job'[r])
    BY <2>1 DEF PastTheGate, Allowing
  <2> QED BY <2>1, <2>2, JustifiedLater DEF Keeps, Reads
<1>2. CASE \/ ReadCosignCache(r) \/ RecordCosign(r) \/ MarkAllowed(r)
           \/ VerificationFails(r) \/ \E s \in BOOLEAN : CosignAnswers(r, s)
  <2>1. /\ Same(job'[r], job[r]) /\ job'[r].digest = job[r].digest
        /\ job[r].pc \in VerifySteps /\ job'[r].pc \in {"record"} \cup VerifySteps
    BY <1>2, EndForms, PassedForms, RefusedForms, AnswerForms
    DEF ReadCosignCache, RecordCosign, AfterCosign, MarkAllowed, VerificationFails,
        CosignAnswers, Keeps, Reads
  <2>2. PastTheGate(job'[r]) => PastTheGate(job[r])
    BY <2>1 DEF PastTheGate, Same
  <2> QED BY <2>1, <2>2, JustifiedLater
<1>3. CASE RecordDecision(r)
  <2>1. /\ Keeps(job'[r], job[r]) /\ job[r].pc = "record" /\ job'[r].pc = "audit"
        /\ job'[r].outcome = job[r].outcome
    BY <1>3, EndForms DEF RecordDecision
  <2>2. PastTheGate(job'[r]) => PastTheGate(job[r])
    BY <2>1 DEF PastTheGate, Allowing, Gated, Keeps, Same, Reads
  <2> QED BY <2>1, <2>2, JustifiedLater DEF Keeps, Reads
<1>4. CASE WriteAudit(r) \/ CallFails(r) \/ BeginMalformed(r) \/ Die(r)
  <2>1. \E v : /\ Stops(job'[r], job[r], v)
               /\ v = "allow" => job[r].pc = "audit" /\ job[r].outcome = "allow"
    BY <1>4, EndForms DEF WriteAudit, CallFails, BeginMalformed, Die
  <2> QED BY <2>1, JustifiedStops
<1> QED BY <1>1, <1>2, <1>3, <1>4

LEMMA JustifiedNext ==
    ASSUME TypeOK, TypeOK', AllShaped, AllDated, AllJustified, [Next]_vars
    PROVE  AllJustified'
<1> DEFINE Kept(j) == CallJustified(j, approvals', bypasses', resolvedAt', insertedAt')
<1>1. Onward
  BY OnwardNext
<1>2. \A q \in Requests : Kept(job[q])
  BY <1>1, JustifiedOnward DEF AllShaped, AllDated, AllJustified
<1>3. ASSUME NEW r \in Requests, BeginAny(r) \/ Progress(r) \/ Die(r)
      PROVE  Kept(job'[r])
  <2>0. UNCHANGED <<approvals, bypasses>>
    BY <1>3, IdleSteps
    DEF Idle, Progress, ResolveDigest, CreateObservation, TouchObservation, MarkAllowed,
        tables
  <2>1. CASE \E tag \in AnyTag, pin \in AnyDigest, p \in Policies : Begin(r, tag, pin, p)
    <3>1. /\ job'[r].answer = "none"
          /\ \/ job'[r].pc \in {"freeze", "resolve"}
             \/ job'[r].pc = "record" /\ job'[r].digest = NoDigest
      BY <2>1, BeginForms
    <3> QED BY <3>1 DEF CallJustified, PastTheGate, Allowing, Gated, OverrideSteps,
                        VerifySteps
  <2>2. CASE \/ ResolveDigest(r) \/ ResolveFails(r)
             \/ ReadFreeze(r) \/ ReadApproval(r) \/ ReadBypass(r) \/ ReadObservation(r)
    BY <1>2, <2>0, <2>2, JustifiedEarly
  <2>3. CASE ReadCreated(r) \/ TouchObservation(r)
    <3>1. UNCHANGED <<approvals, bypasses, resolvedAt, insertedAt>>
      BY <2>3 DEF ReadCreated, TouchObservation, tables, history
    <3>2. CallDated(job[r], clock, resolvedAt, insertedAt)
      BY DEF AllDated
    <3>3. ReadCreated(r) => insertedAt[<<job[r].tag, job[r].digest>>] >= job[r].now
      BY <3>2 DEF ReadCreated, CallDated
    <3>4. TouchObservation(r) =>
             /\ resolvedAt[<<job[r].tag, job[r].digest>>] # Never
             /\ job[r].obs.firstSeenAt
                   >= resolvedAt[<<job[r].tag, job[r].digest>>] - Slack
      BY <3>2 DEF TouchObservation, CallDated, AllShaped, CallShape, DigestSteps,
                  ObservationSteps
    <3>5. resolvedAt \in [Tags \X Digests -> Time]
      BY DEF TypeOK
    <3> QED BY <2>3, <3>1, <3>3, <3>4, <3>5, JustifiedGate DEF AllJustified
  <2>4. CASE \/ CreateObservation(r) \/ ReadCosignCache(r) \/ RecordCosign(r)
             \/ (\E s \in BOOLEAN : CosignAnswers(r, s))
             \/ MarkAllowed(r) \/ VerificationFails(r)
             \/ RecordDecision(r) \/ WriteAudit(r) \/ CallFails(r)
             \/ BeginMalformed(r) \/ Die(r)
    BY <1>2, <2>4, JustifiedAfter
  <2> QED BY <1>3, <2>1, <2>2, <2>3, <2>4 DEF BeginAny, Progress
<1>4. \A q \in Requests : Kept(job'[q])
  <2>1. CASE \E r \in Requests : BeginAny(r) \/ Progress(r) \/ Die(r)
    <3>1. PICK r \in Requests : BeginAny(r) \/ Progress(r) \/ Die(r)
      BY <2>1
    <3>2. \A q \in Requests : q # r => job'[q] = job[q]
      BY <3>1, OneMoves
    <3> QED BY <1>2, <1>3, <3>1, <3>2
  <2>2. CASE Operator \/ Environment \/ UNCHANGED vars
    <3>1. UNCHANGED job
      BY <2>2 DEF Operator, Environment, ApproveDigest, FreezeTag, BypassTag, Tick,
                  MoveTag, vars
    <3> QED BY <1>2, <3>1
  <2> QED BY <2>1, <2>2 DEF Next
<1> QED BY <1>4 DEF AllJustified

(* Past the age test of engine.go:154-172 every call of Decide has one of   *)
(* the four reasons to go on, and keeps it.                                 *)
THEOREM JustifiedInvariant == Spec => []AllJustified
<1>1. Init => AllJustified
  BY DEF Init, AllJustified, CallJustified, PastTheGate, Allowing, OverrideSteps,
         VerifySteps, NewJob
<1>2. /\ TypeOK /\ TypeOK' /\ AllShaped /\ AllDated /\ AllJustified /\ [Next]_vars
      => AllJustified'
  BY JustifiedNext
<1> QED BY <1>1, <1>2, TypeCorrect, ShapeInvariant, DatedInvariant, PTL DEF Spec

(* The gate.  A quarantined tag is allowed only for the digest that is      *)
(* approved, under a bypass of the tag, at its first sight where policy     *)
(* says so, or minAge after some call learnt of it, up to Slack             *)
(* (engine.go:99-193), whichever of any number of calls created, touched    *)
(* and re-read the row, and however they interleave.                        *)
THEOREM OnlyReasonsAdmit == Spec => []AdmittedForAReason
<1>1. TypeOK /\ AllShaped /\ AllJustified => AdmittedForAReason
  BY DEF AllJustified, CallJustified, PastTheGate, Justified, Allowing, Gated, Pinned,
         Quarantined, Admitted, Key, AdmittedForAReason
<1> QED BY <1>1, JustifiedInvariant, TypeCorrect, ShapeInvariant, PTL

-----------------------------------------------------------------------------
(* The table of observations.                                               *)

(* What a statement of Decide may do to it.                                 *)
LEMMA RowsChange ==
    ASSUME [Next]_vars
    PROVE  \/ observations' = observations
           \/ \E row : observations' = InsertOrIgnore(observations, row)
           \/ \E id, now : \/ observations' = Touched(observations, id, now)
                           \/ observations' = MarkedAllowed(observations, id, now)
<1>1. ASSUME NEW r \in Requests, CreateObservation(r)
      PROVE  \E row : observations' = InsertOrIgnore(observations, row)
  BY <1>1 DEF CreateObservation
<1>2. ASSUME NEW r \in Requests, TouchObservation(r) \/ MarkAllowed(r)
      PROVE  \E id, now : \/ observations' = Touched(observations, id, now)
                         \/ observations' = MarkedAllowed(observations, id, now)
  BY <1>2 DEF TouchObservation, MarkAllowed
<1>3. ASSUME NEW r \in Requests, ResolveDigest(r)
      PROVE  observations' = observations
  BY <1>3 DEF ResolveDigest, tables
<1>4. CASE Operator \/ Environment \/ UNCHANGED vars
  BY <1>4 DEF Operator, Environment, ApproveDigest, FreezeTag, BypassTag, Tick,
              MoveTag, vars, tables
<1>5. CASE \E r \in Requests : BeginAny(r) \/ Progress(r) \/ Die(r)
  BY <1>1, <1>2, <1>3, <1>5, IdleSteps DEF Progress, Idle
<1> QED BY <1>4, <1>5 DEF Next

Unique(rows) ==
    \A o, p \in rows : (o.tag = p.tag /\ o.digest = p.digest) => o = p

(* o is there, perhaps touched.                                             *)
Kept(o, rows) ==
    \E p \in rows : /\ p.id = o.id /\ p.tag = o.tag /\ p.digest = o.digest
                    /\ p.firstSeenAt = o.firstSeenAt

(* An update by id makes of each row a row of the same id, tuple and date,  *)
(* and of no two rows of one tuple two.                                     *)
LEMMA UpdateKeeps ==
    ASSUME NEW rows \in SUBSET ObservationRow, NEW id, NEW now, NEW new,
           new = Touched(rows, id, now) \/ new = MarkedAllowed(rows, id, now)
    PROVE  /\ \A o \in rows : Kept(o, new)
           /\ Unique(rows) => Unique(new)
<1> DEFINE T(o) == IF o.id = id THEN [o EXCEPT !.lastSeenAt = Unix(now)] ELSE o
           M(o) == IF o.id = id
                   THEN [o EXCEPT !.lastSeenAt = Unix(now), !.lastAllowedAt = Unix(now)]
                   ELSE o
<1>1. \A o \in rows : /\ T(o).id = o.id /\ T(o).tag = o.tag /\ T(o).digest = o.digest
                      /\ T(o).firstSeenAt = o.firstSeenAt
  BY DEF ObservationRow
<1>2. \A o \in rows : /\ M(o).id = o.id /\ M(o).tag = o.tag /\ M(o).digest = o.digest
                      /\ M(o).firstSeenAt = o.firstSeenAt
  BY DEF ObservationRow
<1>3. new = {T(o) : o \in rows} \/ new = {M(o) : o \in rows}
  BY DEF Touched, MarkedAllowed
<1> HIDE DEF T, M
<1>4. CASE new = {T(o) : o \in rows}
  BY <1>1, <1>4 DEF Unique, Kept
<1>5. CASE new = {M(o) : o \in rows}
  BY <1>2, <1>5 DEF Unique, Kept
<1> QED BY <1>3, <1>4, <1>5

LEMMA RowsKept ==
    ASSUME TypeOK, [Next]_vars
    PROVE  \A o \in observations : Kept(o, observations')
<1>1. observations \in SUBSET ObservationRow
  BY DEF TypeOK
<1>2. CASE observations' = observations
  BY <1>2 DEF Kept
<1>3. CASE \E row : observations' = InsertOrIgnore(observations, row)
  BY <1>3 DEF InsertOrIgnore, Kept
<1>4. CASE \E id, now : \/ observations' = Touched(observations, id, now)
                       \/ observations' = MarkedAllowed(observations, id, now)
  <2>1. PICK id, now : \/ observations' = Touched(observations, id, now)
                       \/ observations' = MarkedAllowed(observations, id, now)
    BY <1>4
  <2> QED BY <1>1, <2>1, UpdateKeeps
<1> QED BY <1>2, <1>3, <1>4, RowsChange

(* No statement loses an observation or moves its date                      *)
(* (TouchObservation, MarkObservationAllowed, CreateObservation).           *)
THEOREM FirstSeenIsKept == Spec => FirstSeenKept
<1>1. TypeOK /\ [Next]_vars => [\A o \in observations : \E p \in observations' :
          /\ p.id = o.id /\ p.tag = o.tag /\ p.digest = o.digest
          /\ p.firstSeenAt = o.firstSeenAt]_vars
  BY RowsKept DEF Kept
<1> QED BY <1>1, TypeCorrect, PTL DEF Spec, FirstSeenKept

LEMMA UniqueNext ==
    ASSUME TypeOK, OneRowPerTuple, [Next]_vars
    PROVE  OneRowPerTuple'
<1>1. observations \in SUBSET ObservationRow
  BY DEF TypeOK
<1>2. CASE observations' = observations
  BY <1>2 DEF OneRowPerTuple
<1>3. CASE \E row : observations' = InsertOrIgnore(observations, row)
  BY <1>3 DEF OneRowPerTuple, InsertOrIgnore, ObservationsOf
<1>4. CASE \E id, now : \/ observations' = Touched(observations, id, now)
                       \/ observations' = MarkedAllowed(observations, id, now)
  <2>1. PICK id, now : \/ observations' = Touched(observations, id, now)
                       \/ observations' = MarkedAllowed(observations, id, now)
    BY <1>4
  <2>2. Unique(observations) => Unique(observations')
    BY <1>1, <2>1, UpdateKeeps
  <2> QED BY <2>2 DEF OneRowPerTuple, Unique
<1> QED BY <1>2, <1>3, <1>4, RowsChange

(* Calls that race to observe a tuple for the first time leave one row, for *)
(* any number of them (CreateObservation, sqlite.go).                       *)
THEOREM TuplesStayUnique == Spec => []OneRowPerTuple
<1>1. Init => OneRowPerTuple
  BY DEF Init, OneRowPerTuple
<1> QED BY <1>1, UniqueNext, TypeCorrect, PTL DEF Spec

(* Nothing the operator, cosign, the registry or the clock said is taken    *)
(* back.                                                                    *)
GroundsGrow ==
    /\ clock <= clock'
    /\ approvals \subseteq approvals' /\ freezes \subseteq freezes'
    /\ bypasses \subseteq bypasses' /\ verified \subseteq verified'
    /\ \A k \in Tags \X Digests :
          /\ resolvedAt[k] # Never => resolvedAt'[k] = resolvedAt[k]
          /\ insertedAt[k] # Never => insertedAt'[k] = insertedAt[k]

LEMMA GroundsGrowNext ==
    ASSUME TypeOK, AllShaped, InsertedWithRow, [Next]_vars
    PROVE  GroundsGrow
<1>1. Onward
  BY OnwardNext
<1>2. \A k \in Tags \X Digests : insertedAt[k] # Never => insertedAt'[k] = insertedAt[k]
  <2>1. ASSUME NEW r \in Requests, CreateObservation(r)
        PROVE  \A k \in Tags \X Digests :
                   insertedAt[k] # Never => insertedAt'[k] = insertedAt[k]
    <3> DEFINE t == job[r].tag
               d == job[r].digest
    <3>1. t \in Tags /\ d \in Digests
      BY <2>1 DEF CreateObservation, AllShaped, CallShape, DigestSteps, ObservationSteps
    <3>2. \/ insertedAt' = insertedAt
          \/ /\ ObservationsOf(observations, t, d) = {}
             /\ insertedAt' = [insertedAt EXCEPT ![<<t, d>>] = clock]
      BY <2>1 DEF CreateObservation, Row
    <3>3. ObservationsOf(observations, t, d) = {} => insertedAt[<<t, d>>] = Never
      BY <3>1 DEF InsertedWithRow
    <3>4. insertedAt \in [Tags \X Digests -> Time]
      BY DEF TypeOK
    <3> HIDE DEF t, d
    <3> QED BY <3>2, <3>3, <3>4
  <2>2. ASSUME NEW r \in Requests,
               \/ ResolveDigest(r) \/ TouchObservation(r) \/ MarkAllowed(r)
        PROVE  UNCHANGED insertedAt
    BY <2>2 DEF ResolveDigest, TouchObservation, MarkAllowed, history
  <2>3. CASE Operator \/ Environment \/ UNCHANGED vars
    BY <2>3 DEF Operator, Environment, ApproveDigest, FreezeTag, BypassTag, Tick,
                MoveTag, vars, tables, history
  <2>4. CASE \E r \in Requests : BeginAny(r) \/ Progress(r) \/ Die(r)
    BY <2>1, <2>2, <2>4, IdleSteps DEF Progress, Idle
  <2> QED BY <2>3, <2>4 DEF Next
<1>3. freezes \subseteq freezes' /\ verified \subseteq verified'
  <2>1. ASSUME NEW r \in Requests, BeginAny(r) \/ Die(r)
        PROVE  UNCHANGED <<freezes, verified>>
    BY <2>1 DEF BeginAny, Begin, BeginMalformed, Die, tables, history
  <2>2. ASSUME NEW r \in Requests,
               \/ ResolveDigest(r) \/ ResolveFails(r)
               \/ ReadFreeze(r) \/ ReadApproval(r) \/ ReadBypass(r)
               \/ ReadObservation(r) \/ CreateObservation(r) \/ ReadCreated(r)
        PROVE  UNCHANGED <<freezes, verified>>
    BY <2>2 DEF ResolveDigest, ResolveFails, ReadFreeze, ReadApproval, ReadBypass,
                ReadObservation, CreateObservation, ReadCreated, tables, history
  <2>3. ASSUME NEW r \in Requests,
               \/ TouchObservation(r) \/ ReadCosignCache(r) \/ RecordCosign(r)
               \/ MarkAllowed(r) \/ RecordDecision(r) \/ WriteAudit(r)
               \/ CallFails(r) \/ VerificationFails(r)
        PROVE  UNCHANGED <<freezes, verified>>
    BY <2>3 DEF TouchObservation, ReadCosignCache, RecordCosign, MarkAllowed,
                RecordDecision, WriteAudit, CallFails, VerificationFails, tables, history
  <2>4. ASSUME NEW r \in Requests, NEW s \in BOOLEAN, CosignAnswers(r, s)
        PROVE  UNCHANGED freezes /\ verified \subseteq verified'
    BY <2>4 DEF CosignAnswers, tables
  <2>5. CASE Operator \/ Environment \/ UNCHANGED vars
    BY <2>5 DEF Operator, Environment, ApproveDigest, FreezeTag, BypassTag, Tick,
                MoveTag, vars, tables, history
  <2>6. CASE \E r \in Requests : BeginAny(r) \/ Progress(r) \/ Die(r)
    BY <2>1, <2>2, <2>3, <2>4, <2>6 DEF Progress
  <2> QED BY <2>5, <2>6 DEF Next
<1> QED BY <1>1, <1>2, <1>3 DEF GroundsGrow, Onward

-----------------------------------------------------------------------------
(* Why a call is refused.                                                   *)

LEMMA FreezeFound ==
    ASSUME NEW rows, NEW j, ActiveFreezes(rows, j.tag, j.digest, j.now) # {}
    PROVE  FreezeFor(rows, j)
BY DEF ActiveFreezes, FreezeCovers, Unexpired, FreezeFor, InForce

LEMMA NoApprovalFound ==
    ASSUME NEW rows, NEW stored, NEW j, rows \subseteq stored,
           ActiveApprovals(stored, j.tag, j.digest, j.now) = {}
    PROVE  ~ApprovalFor(rows, j)
BY DEF ActiveApprovals, Unexpired, ApprovalFor, InForce

LEMMA NoBypassFound ==
    ASSUME NEW rows, NEW stored, NEW j, rows \subseteq stored,
           ActiveBypasses(stored, j.tag, j.now) = {}
    PROVE  ~BypassFor(rows, j)
BY DEF ActiveBypasses, Unexpired, BypassFor, InForce

LEMMA RowsInsertedNext ==
    ASSUME TypeOK, TypeOK', AllShaped, AllDated, RowsInserted, [Next]_vars
    PROVE  RowsInserted'
<1>0. /\ observations \in SUBSET ObservationRow /\ clock \in Nat
      /\ insertedAt \in [Tags \X Digests -> Time]
  BY DEF TypeOK
<1>1. CASE \E r \in Requests : CreateObservation(r)
  <2>1. PICK r \in Requests : CreateObservation(r)
    BY <1>1
  <2> DEFINE j == job[r]
             k == <<j.tag, j.digest>>
             row == FreshObservation(seq.observations + 1, j.tag, j.digest, j.now)
  <2>2. /\ j \in Job /\ j.now \in Nat /\ j.tag \in Tags /\ j.digest \in Digests
        /\ j.now <= clock
    BY <2>1 DEF AllShaped, AllDated, CallDated, CallShape, CreateObservation,
                DigestSteps, ObservationSteps, TypeOK, Job
  <2>3. row.tag = j.tag /\ row.digest = j.digest /\ row.firstSeenAt = Unix(j.now)
    BY DEF FreshObservation
  <2>4. Unix(j.now) \in Nat /\ Unix(j.now) <= j.now
    BY <2>2, UnixBounds
  <2>5. \/ UNCHANGED <<observations, insertedAt>>
        \/ /\ observations' = observations \cup {row}
           /\ ObservationsOf(observations, j.tag, j.digest) = {}
           /\ insertedAt' = [insertedAt EXCEPT ![k] = clock]
    BY <2>1, <2>3 DEF CreateObservation, InsertOrIgnore, Row
  <2> HIDE DEF j, row
  <2>6. \A o \in observations :
           o.tag \in Tags /\ o.digest \in Digests /\ o \in ObservationRow
    BY <1>0 DEF ObservationRow
  <2>7. CASE UNCHANGED <<observations, insertedAt>>
    BY <2>7 DEF RowsInserted
  <2>8. CASE /\ observations' = observations \cup {row}
             /\ ObservationsOf(observations, j.tag, j.digest) = {}
             /\ insertedAt' = [insertedAt EXCEPT ![k] = clock]
    <3>1. insertedAt'[k] = clock /\ k \in Tags \X Digests
      BY <1>0, <2>2, <2>8
    <3>2. row.firstSeenAt <= insertedAt'[<<row.tag, row.digest>>]
      BY <1>0, <2>2, <2>3, <2>4, <3>1
    <3>3. ASSUME NEW o \in observations
          PROVE  insertedAt'[<<o.tag, o.digest>>] = insertedAt[<<o.tag, o.digest>>]
      <4>1. o.tag # j.tag \/ o.digest # j.digest
        BY <2>8 DEF ObservationsOf
      <4> QED BY <1>0, <2>6, <2>8, <4>1
    <3> QED BY <2>8, <3>2, <3>3 DEF RowsInserted
  <2> QED BY <2>5, <2>7, <2>8
<1>2. CASE \E r \in Requests : TouchObservation(r) \/ MarkAllowed(r)
  <2>1. PICK r \in Requests : TouchObservation(r) \/ MarkAllowed(r)
    BY <1>2
  <2>2. /\ \/ observations' = Touched(observations, job[r].obs.id, job[r].now)
           \/ observations' = MarkedAllowed(observations, job[r].obs.id, job[r].now)
        /\ UNCHANGED insertedAt
    BY <2>1 DEF TouchObservation, MarkAllowed, history
  <2>3. Refreshed(observations', observations)
    BY <1>0, <2>2, UpdateRefreshes
  <2> QED BY <2>2, <2>3 DEF RowsInserted, Refreshed
<1>3. CASE UNCHANGED <<observations, insertedAt>>
  BY <1>3 DEF RowsInserted
<1>4. CASE Operator \/ Environment \/ UNCHANGED vars
  BY <1>3, <1>4 DEF Operator, Environment, ApproveDigest, FreezeTag, BypassTag, Tick,
                    MoveTag, vars, tables, history
<1>5. ASSUME NEW r \in Requests, ResolveDigest(r)
      PROVE  UNCHANGED <<observations, insertedAt>>
  BY <1>5 DEF ResolveDigest, tables
<1>6. CASE \E r \in Requests : BeginAny(r) \/ Progress(r) \/ Die(r)
  BY <1>1, <1>2, <1>3, <1>5, <1>6, IdleSteps DEF Progress, Idle
<1> QED BY <1>4, <1>6 DEF Next

(* What was true of a call stays true while others move: no override is     *)
(* deleted, no row goes, a row that comes was not there when the call began.*)
LEMMA RefusedOnward ==
    ASSUME TypeOK, TypeOK', Onward, GroundsGrow, NEW r \in Requests, CallShape(job[r]),
           CallDated(job[r], clock, resolvedAt, insertedAt),
           \A o \in observations : Kept(o, observations'),
           CallRefused(job[r], approvals, bypasses, freezes, observations, insertedAt)
    PROVE  CallRefused(job[r], approvals', bypasses', freezes', observations',
                       insertedAt')
<1> DEFINE j == job[r]
           k == <<j.tag, j.digest>>
<1>1. /\ j \in Job /\ j.now \in Nat /\ clock \in Nat /\ j.now <= clock
      /\ insertedAt \in [Tags \X Digests -> Time]
      /\ insertedAt' \in [Tags \X Digests -> Time]
      /\ j.obs.firstSeenAt \in Nat /\ j.policy.minAge \in Nat
  <2>1. j \in Job /\ j.obs \in Snapshot /\ j.policy \in Policy
    BY PoliciesAssumption DEF TypeOK, Job
  <2> QED BY <2>1 DEF TypeOK, Job, CallDated, Snapshot, Policy
<1>2. FreezeFor(freezes, j) => FreezeFor(freezes', j)
  BY DEF GroundsGrow, FreezeFor
<1>3. /\ j.held.approvals \subseteq approvals' /\ j.held.bypasses \subseteq bypasses'
  BY DEF CallRefused, Onward
<1>4. RowsWithId(observations, j.obs.id) # {} => RowsWithId(observations', j.obs.id) # {}
  BY DEF RowsWithId, Kept
<1>5. ASSUME j.pc = "touch"
      PROVE  j.obs.firstSeenAt <= insertedAt'[k]
  <2>1. k \in Tags \X Digests
    BY <1>5 DEF CallShape, DigestSteps, ObservationSteps
  <2>2. j.obs.firstSeenAt <= insertedAt[k] /\ insertedAt[k] # Never
    BY <1>1, <1>5 DEF CallRefused, Never
  <2> QED BY <2>1, <2>2 DEF GroundsGrow
<1>6. ASSUME Gated(j), j.pin = NoDigest, RefusedFor(j, freezes, insertedAt)
      PROVE  RefusedFor(j, freezes', insertedAt')
  <2>1. k \in Tags \X Digests
    BY <1>1, <1>6 DEF CallShape, Gated, Job, AnyDigest
  <2>2. insertedAt'[k] = insertedAt[k] \/ insertedAt'[k] >= j.now
    BY <1>1, <2>1 DEF Onward
  <2> HIDE DEF j
  <2> QED BY <1>2, <1>6, <2>2 DEF RefusedFor
<1> QED BY <1>2, <1>3, <1>4, <1>5, <1>6 DEF CallRefused

(* The same reason serves a call that goes on with its digest.              *)
LEMMA SameRefusal ==
    ASSUME NEW j, NEW n, NEW frozen, NEW inserted,
           n.tag = j.tag, n.policy = j.policy, n.now = j.now, n.digest = j.digest,
           n.held = j.held
    PROVE  /\ RefusedFor(j, frozen, inserted) => RefusedFor(n, frozen, inserted)
           /\ FreezeFor(frozen, j) => FreezeFor(frozen, n)
           /\ ApprovalFor(j.held.approvals, j) <=> ApprovalFor(n.held.approvals, n)
           /\ BypassFor(j.held.bypasses, j) <=> BypassFor(n.held.bypasses, n)
BY DEF RefusedFor, FreezeFor, ApprovalFor, BypassFor, InForce

(* A call that is not about to refuse owes what it has read and no more.    *)
LEMMA RefusedStops ==
    ASSUME NEW j, NEW n, NEW v, NEW approved, NEW bypassed, NEW frozen, NEW rows,
           NEW inserted,
           CallRefused(j, approved, bypassed, frozen, rows, inserted), Stops(n, j, v),
           v = "deny" =>
              j.pc = "audit" /\ j.outcome = "deny" /\ n.disturbed = j.disturbed
    PROVE  CallRefused(n, approved, bypassed, frozen, rows, inserted)
<1>1. /\ n.tag = j.tag /\ n.policy = j.policy /\ n.now = j.now /\ n.digest = j.digest
      /\ n.held = j.held /\ n.pin = j.pin /\ n.pc = "done" /\ n.answer = v
  BY DEF Stops
<1>2. Refusing(n) /\ Gated(n) /\ n.pin = NoDigest /\ ~n.disturbed
      => RefusedFor(n, frozen, inserted)
  BY <1>1, SameRefusal DEF CallRefused, Refusing, Gated
<1> QED BY <1>1, <1>2 DEF CallRefused, OverrideSteps, VerifySteps

(* Up to the overrides: what a query did not find, no row the call began    *)
(* with says.                                                               *)
LEMMA RefusedEarly ==
    ASSUME TypeOK, AllShaped, NEW r \in Requests, NEW rows, NEW inserted,
           CallRefused(job[r], approvals, bypasses, freezes, rows, inserted),
           \/ ResolveDigest(r) \/ ResolveFails(r)
           \/ ReadFreeze(r) \/ ReadApproval(r) \/ ReadBypass(r)
    PROVE  CallRefused(job'[r], approvals, bypasses, freezes, rows, inserted)
<1> USE DEF OverrideSteps, VerifySteps
<1> DEFINE j == job[r]
           n == job'[r]
<1>0. /\ j \in Job /\ CallShape(j) /\ j.answer = "none"
      /\ j.held.approvals \subseteq approvals /\ j.held.bypasses \subseteq bypasses
  BY Unanswered DEF TypeOK, AllShaped, CallRefused, ResolveDigest, ResolveFails,
                    ReadFreeze, ReadApproval, ReadBypass
<1>1. CASE ResolveDigest(r)
  <2>1. Same(n, j) /\ n.pc = "freeze"
    BY <1>1, ResolveForms
  <2> QED BY <1>0, <2>1 DEF CallRefused, Refusing, Same
<1>2. CASE ResolveFails(r)
  <2>1. Keeps(n, j) /\ n.pc = "record" /\ n.disturbed
    BY <1>2, ResolveFailsForms
  <2> QED BY <1>0, <2>1 DEF CallRefused, Keeps, Same
<1>3. CASE ReadFreeze(r)
  <2>1. /\ Same(n, j) /\ n.pc = "approval"
        /\ n.freeze = ActiveFreezes(freezes, n.tag, n.digest, n.now)
    BY <1>3, FreezeForms DEF Same
  <2> HIDE DEF n
  <2>2. n.freeze # {} => FreezeFor(freezes, n)
    BY <2>1, FreezeFound
  <2>3. CallRefused(n, approvals, bypasses, freezes, rows, inserted)
    BY <1>0, <2>1, <2>2 DEF CallRefused, Refusing, Same
  <2> QED BY <2>3 DEF n
<1>4. CASE ReadApproval(r)
  <2>1. /\ Same(n, j) /\ n.digest = j.digest /\ n.pc = "bypass" /\ j.pc = "approval"
        /\ n.freeze = j.freeze
        /\ n.approval = ActiveApprovals(approvals, n.tag, n.digest, n.now)
    BY <1>4, ApprovalForms DEF ReadApproval, Same
  <2> HIDE DEF n
  <2>2. n.held.approvals \subseteq approvals
    BY <1>0, <2>1 DEF Same
  <2>3. n.approval = {} => ~ApprovalFor(n.held.approvals, n)
    BY <2>1, <2>2, NoApprovalFound
  <2>4. n.freeze # {} => FreezeFor(freezes, n)
    BY <2>1, SameRefusal DEF CallRefused, Same
  <2>5. CallRefused(n, approvals, bypasses, freezes, rows, inserted)
    BY <1>0, <2>1, <2>3, <2>4 DEF CallRefused, Refusing, Same
  <2> QED BY <2>5 DEF n
<1>5. CASE ReadBypass(r)
  <2>1. /\ Same(n, j) /\ n.digest = j.digest /\ j.pc = "bypass"
        /\ n.approval = j.approval
        /\ n.bypass = ActiveBypasses(bypasses, n.tag, n.now)
        /\ \/ /\ n.pc = "record" /\ n.outcome = "deny"
              /\ j.freeze # {} \/ n.pin # NoDigest
           \/ n.pc \in {"cache", "record"} /\ n.pin # NoDigest
           \/ n.pc = "get"
    BY <1>5, BypassForms DEF ReadBypass, Same
  <2> HIDE DEF n
  <2>2. n.held.bypasses \subseteq bypasses
    BY <1>0, <2>1 DEF Same
  <2>3. n.bypass = {} => ~BypassFor(n.held.bypasses, n)
    BY <2>1, <2>2, NoBypassFound
  <2>4. n.approval = {} => ~ApprovalFor(n.held.approvals, n)
    BY <2>1, SameRefusal DEF CallRefused, Same
  <2>5. j.freeze # {} => RefusedFor(n, freezes, inserted)
    BY <2>1, SameRefusal DEF CallRefused, RefusedFor, Same
  <2>6. CallRefused(n, approvals, bypasses, freezes, rows, inserted)
    BY <1>0, <2>1, <2>3, <2>4, <2>5 DEF CallRefused, Refusing, Same
  <2> QED BY <2>6 DEF n
<1> QED BY <1>1, <1>2, <1>3, <1>4, <1>5

(* The row: read, or inserted and read back, or found too young.            *)
LEMMA RefusedReads ==
    ASSUME TypeOK, AllShaped, RowsInserted, NEW r \in Requests, ReadObservation(r),
           CallRefused(job[r], approvals, bypasses, freezes, observations, insertedAt)
    PROVE  CallRefused(job'[r], approvals, bypasses, freezes, observations, insertedAt)
<1> DEFINE j == job[r]
           n == job'[r]
<1>1. /\ Same(n, j) /\ n.digest = j.digest /\ n.answer = "none" /\ j.pc = "get"
      /\ n.approval = j.approval /\ n.bypass = j.bypass
      /\ n.pc = "create" \/ (n.pc = "touch" /\ \E o \in Row(r) : n.obs = Snap(o))
  BY ObservationForms, Unanswered DEF ReadObservation, Same
<1>2. n.pc = "touch" => /\ RowsWithId(observations, n.obs.id) # {}
                        /\ n.obs.firstSeenAt <= insertedAt[<<n.tag, n.digest>>]
  <2>1. \A o : Snap(o).id = o.id /\ Snap(o).firstSeenAt = o.firstSeenAt
    BY DEF Snap
  <2>2. \A o \in Row(r) : /\ o \in observations
                          /\ o.firstSeenAt <= insertedAt[<<j.tag, j.digest>>]
    BY DEF Row, ObservationsOf, RowsInserted
  <2> HIDE DEF j, n
  <2> QED BY <1>1, <2>1, <2>2 DEF RowsWithId, Same
<1>3. /\ n.approval = {} => ~ApprovalFor(n.held.approvals, n)
      /\ n.bypass = {} => ~BypassFor(n.held.bypasses, n)
  BY <1>1, SameRefusal DEF CallRefused, OverrideSteps, Same
<1>4. n.held.approvals \subseteq approvals /\ n.held.bypasses \subseteq bypasses
  BY <1>1 DEF CallRefused, Same
<1> HIDE DEF j, n
<1>5. CallRefused(n, approvals, bypasses, freezes, observations, insertedAt)
  BY <1>1, <1>2, <1>3, <1>4 DEF CallRefused, Refusing, VerifySteps
<1> QED BY <1>5 DEF n

LEMMA RefusedCreated ==
    ASSUME TypeOK, AllShaped, NEW r \in Requests, ReadCreated(r),
           CallDated(job[r], clock, resolvedAt, insertedAt),
           CallRefused(job[r], approvals, bypasses, freezes, observations, insertedAt)
    PROVE  CallRefused(job'[r], approvals, bypasses, freezes, observations, insertedAt)
<1> DEFINE j == job[r]
           n == job'[r]
<1>0. /\ j.answer = "none" /\ j.pc = "reget"
      /\ j.held.approvals \subseteq approvals /\ j.held.bypasses \subseteq bypasses
  BY Unanswered DEF ReadCreated, CallRefused
<1>1. CASE Stops(n, j, "panic")
  BY <1>1, RefusedStops
<1>2. CASE Keeps(n, j) /\ n.pc = "record" /\ n.outcome = "deny" /\ ~Overridden(r)
  <2>1. RefusedFor(j, freezes, insertedAt)
    BY <1>0, <1>2 DEF Overridden, CallRefused, OverrideSteps, CallDated, RefusedFor
  <2>2. RefusedFor(n, freezes, insertedAt)
    BY <1>2, <2>1, SameRefusal DEF Keeps, Same, Reads
  <2> QED BY <1>0, <1>2, <2>2 DEF CallRefused, OverrideSteps, VerifySteps, Keeps, Same
<1>3. CASE /\ Same(n, j) /\ n.pc \in {"cache", "mark"}
           /\ \E o \in Row(r) : n.obs = Snap(o)
  <2>1. RowsWithId(observations, n.obs.id) # {}
    <3>1. \A o : Snap(o).id = o.id
      BY DEF Snap
    <3>2. Row(r) \subseteq observations
      BY DEF Row, ObservationsOf
    <3> HIDE DEF n
    <3> QED BY <1>3, <3>1, <3>2 DEF RowsWithId
  <2>2. /\ n.held.approvals \subseteq approvals /\ n.held.bypasses \subseteq bypasses
        /\ n.answer = "none" /\ n.pc \in {"cache", "mark"}
    BY <1>0, <1>3 DEF Same
  <2> HIDE DEF n
  <2>3. CallRefused(n, approvals, bypasses, freezes, observations, insertedAt)
    BY <2>1, <2>2 DEF CallRefused, Refusing, OverrideSteps
  <2> QED BY <2>3 DEF n
<1> QED BY <1>1, <1>2, <1>3, CreatedForms

LEMMA RefusedTouch ==
    ASSUME TypeOK, AllShaped, NEW r \in Requests, TouchObservation(r), NEW rows,
           CallRefused(job[r], approvals, bypasses, freezes, rows, insertedAt)
    PROVE  CallRefused(job'[r], approvals, bypasses, freezes, rows, insertedAt)
<1> DEFINE j == job[r]
           n == job'[r]
           k == <<j.tag, j.digest>>
<1>0. /\ j.answer = "none" /\ j.pc = "touch" /\ j.pin = NoDigest
      /\ k \in Tags \X Digests
      /\ j.now \in Nat /\ j.obs.firstSeenAt \in Nat /\ j.policy.minAge \in Nat
      /\ insertedAt \in [Tags \X Digests -> Time]
      /\ j.held.approvals \subseteq approvals /\ j.held.bypasses \subseteq bypasses
  <2>1. j \in Job /\ j.obs \in Snapshot /\ j.policy \in Policy
    BY PoliciesAssumption DEF TypeOK, Job
  <2>2. /\ j.answer = "none" /\ j.pc = "touch" /\ j.pin = NoDigest
        /\ j.tag \in Tags /\ j.digest \in Digests
    BY Unanswered DEF TouchObservation, AllShaped, CallShape, DigestSteps,
                      ObservationSteps
  <2> QED BY <2>1, <2>2 DEF TypeOK, Job, Snapshot, Policy, CallRefused
<1>1. \/ Stops(n, j, "error")
      \/ /\ Keeps(n, j) /\ n.pc = "record" /\ n.outcome = "deny"
         /\ ~Overridden(r) /\ TooYoung(r)
      \/ Keeps(n, j) /\ n.pc \in {"cache", "mark"}
  BY <1>0, EndForms, PassedForms DEF TouchObservation, AllowWithVerification
<1>2. CASE Stops(n, j, "error")
  BY <1>2, RefusedStops
<1>3. CASE /\ Keeps(n, j) /\ n.pc = "record" /\ n.outcome = "deny"
           /\ ~Overridden(r) /\ TooYoung(r)
  <2>1. ~ApprovalFor(j.held.approvals, j) /\ ~BypassFor(j.held.bypasses, j)
    BY <1>0, <1>3 DEF Overridden, CallRefused, OverrideSteps
  <2>2. j.now - insertedAt[k] < j.policy.minAge
    <3>1. /\ j.obs.firstSeenAt <= insertedAt[k] /\ insertedAt[k] \in Int
          /\ j.now - j.obs.firstSeenAt < j.policy.minAge
      BY <1>0, <1>3 DEF CallRefused, TooYoung, Time, Never
    <3> HIDE DEF j, k
    <3> QED BY <1>0, <3>1
  <2>3. RefusedFor(n, freezes, insertedAt)
    <3>1. RefusedFor(j, freezes, insertedAt)
      BY <2>1, <2>2 DEF RefusedFor
    <3> QED BY <1>3, <3>1, SameRefusal DEF Keeps, Same, Reads
  <2> QED BY <1>0, <1>3, <2>3 DEF CallRefused, OverrideSteps, VerifySteps, Keeps, Same
<1>4. CASE Keeps(n, j) /\ n.pc \in {"cache", "mark"}
  <2>1. /\ n.held.approvals \subseteq approvals /\ n.held.bypasses \subseteq bypasses
        /\ n.answer = "none" /\ n.pc \in {"cache", "mark"}
        /\ RowsWithId(rows, n.obs.id) # {}
    BY <1>0, <1>4 DEF Keeps, Same, Reads, CallRefused
  <2> HIDE DEF n
  <2>2. CallRefused(n, approvals, bypasses, freezes, rows, insertedAt)
    BY <2>1 DEF CallRefused, Refusing, OverrideSteps
  <2> QED BY <2>2 DEF n
<1> QED BY <1>1, <1>2, <1>3, <1>4

(* Past the gate a deny means that cosign, or a call, failed; and the end.  *)
LEMMA RefusedAfter ==
    ASSUME TypeOK, AllShaped, AllRefused, NEW r \in Requests,
           NEW approved, NEW bypassed, NEW frozen, NEW rows, NEW inserted,
           CallRefused(job[r], approved, bypassed, frozen, rows, inserted),
           \/ CreateObservation(r) \/ ReadCosignCache(r) \/ RecordCosign(r)
           \/ (\E s \in BOOLEAN : CosignAnswers(r, s))
           \/ MarkAllowed(r) \/ VerificationFails(r)
           \/ RecordDecision(r) \/ WriteAudit(r) \/ CallFails(r)
           \/ BeginMalformed(r) \/ Die(r)
    PROVE  CallRefused(job'[r], approved, bypassed, frozen, rows, inserted)
<1> USE DEF OverrideSteps, VerifySteps
<1> DEFINE j == job[r]
           n == job'[r]
<1>0. /\ j.held.approvals \subseteq approved /\ j.held.bypasses \subseteq bypassed
      /\ CallShape(j)
  BY DEF CallRefused, AllShaped
<1>1. CASE CreateObservation(r)
  <2>1. /\ Keeps(n, j) /\ j.pc = "create" /\ n.pc = "reget" /\ n.answer = "none"
    BY <1>1, EndForms, Unanswered DEF CreateObservation, Keeps, Same
  <2>2. /\ n.approval = {} => ~ApprovalFor(n.held.approvals, n)
        /\ n.bypass = {} => ~BypassFor(n.held.bypasses, n)
    BY <2>1, SameRefusal DEF CallRefused, Keeps, Same, Reads
  <2> QED BY <1>0, <2>1, <2>2 DEF CallRefused, Refusing, Keeps, Same
<1>2. CASE ReadCosignCache(r) \/ RecordCosign(r) \/ MarkAllowed(r) \/ VerificationFails(r)
  <2>1. /\ Keeps(n, j) /\ n.answer = "none" /\ j.pc \in VerifySteps
        /\ \/ n.pc \in {"verify", "mark"}
           \/ n.pc = "record" /\ (n.outcome = "allow" \/ n.disturbed)
    <3>1. CASE ReadCosignCache(r)
      BY <3>1, EndForms, PassedForms, Unanswered DEF ReadCosignCache, Keeps, Same
    <3>2. CASE RecordCosign(r)
      <4>1. j.success \/ j.disturbed
        BY <3>2 DEF RecordCosign, CallRefused
      <4> QED BY <3>2, <4>1, EndForms, PassedForms, Unanswered
              DEF RecordCosign, AfterCosign, Keeps, Same
    <3>3. CASE MarkAllowed(r)
      <4>1. RowsWithId(observations, j.obs.id) # {}
        BY <1>0, <3>3 DEF MarkAllowed, AllRefused, CallRefused, CallShape,
                          ObservationSteps
      <4> QED BY <3>3, <4>1, EndForms, Unanswered DEF MarkAllowed, Keeps, Same
    <3>4. CASE VerificationFails(r)
      <4>1. j.pc \in VerifySteps /\ j.answer = "none"
        BY <3>4, Unanswered DEF VerificationFails
      <4>2. Keeps(n, j) /\ n.pc = "record" /\ n.disturbed
        BY <3>4, RefusedForms
      <4> QED BY <4>1, <4>2 DEF Keeps, Same
    <3> QED BY <1>2, <3>1, <3>2, <3>3, <3>4
  <2>2. n.pin = NoDigest => RowsWithId(rows, n.obs.id) # {}
    BY <2>1 DEF CallRefused, Keeps, Same, Reads
  <2> QED BY <1>0, <2>1, <2>2 DEF CallRefused, Refusing, Keeps, Same
<1>3. CASE \E s \in BOOLEAN : CosignAnswers(r, s)
  <2>1. /\ Same(n, j) /\ n.answer = "none" /\ j.pc = "verify" /\ n.pc = "save"
        /\ n.success \/ n.disturbed
        /\ n.obs = j.obs
    BY <1>3, AnswerForms, Unanswered DEF CosignAnswers, Same
  <2>2. n.pin = NoDigest => RowsWithId(rows, n.obs.id) # {}
    BY <2>1 DEF CallRefused, Same
  <2> QED BY <1>0, <2>1, <2>2 DEF CallRefused, Refusing, Same
<1>4. CASE RecordDecision(r)
  <2>1. /\ Keeps(n, j) /\ j.pc = "record" /\ n.pc = "audit"
        /\ n.outcome = j.outcome /\ n.disturbed = j.disturbed /\ j.answer = "none"
    BY <1>4, EndForms, Unanswered DEF RecordDecision
  <2>2. Refusing(n) /\ Gated(n) /\ n.pin = NoDigest /\ ~n.disturbed
        => RefusedFor(n, frozen, inserted)
    BY <2>1, SameRefusal DEF CallRefused, Refusing, Gated, Keeps, Same, Reads
  <2> QED BY <1>0, <2>1, <2>2 DEF CallRefused, Keeps, Same
<1>5. CASE WriteAudit(r)
  <2>1. Stops(n, j, j.outcome) /\ j.pc = "audit" /\ n.disturbed = j.disturbed
    BY <1>5, EndForms DEF WriteAudit
  <2> QED BY <2>1, RefusedStops
<1>6. CASE CallFails(r) \/ BeginMalformed(r) \/ Die(r)
  BY <1>6, EndForms, RefusedStops DEF CallFails, BeginMalformed, Die
<1> QED BY <1>1, <1>2, <1>3, <1>4, <1>5, <1>6

LEMMA RefusedNext ==
    ASSUME TypeOK, TypeOK', AllShaped, AllDated, AllRefused, [Next]_vars
    PROVE  AllRefused'
<1> DEFINE Held(j) == CallRefused(j, approvals', bypasses', freezes', observations',
                                  insertedAt')
<1>1. /\ Onward /\ GroundsGrow /\ RowsInserted'
      /\ \A o \in observations : Kept(o, observations')
  BY OnwardNext, GroundsGrowNext, RowsInsertedNext, RowsKept DEF AllDated, AllRefused
<1>2. \A q \in Requests : Held(job[q])
  BY <1>1, RefusedOnward DEF AllShaped, AllDated, AllRefused
<1>3. ASSUME NEW r \in Requests, BeginAny(r) \/ Progress(r) \/ Die(r)
      PROVE  Held(job'[r])
  <2>1. CASE \E tag \in AnyTag, pin \in AnyDigest, p \in Policies : Begin(r, tag, pin, p)
    <3>1. /\ job'[r].answer = "none" /\ job'[r].held.approvals = approvals
          /\ job'[r].held.bypasses = bypasses
          /\ \/ job'[r].pc = "freeze"
             \/ job'[r].pc = "resolve"
             \/ job'[r].pc = "record" /\ job'[r].digest = NoDigest
      BY <2>1, BeginForms
    <3>2. UNCHANGED <<approvals, bypasses>>
      BY <2>1 DEF Begin, tables
    <3> QED BY <3>1, <3>2 DEF CallRefused, Refusing, Gated, OverrideSteps, VerifySteps
  <2>2. CASE \/ ResolveDigest(r) \/ ResolveFails(r)
             \/ ReadFreeze(r) \/ ReadApproval(r) \/ ReadBypass(r)
    <3>1. UNCHANGED <<approvals, bypasses, freezes>>
      BY <2>2 DEF ResolveDigest, ResolveFails, ReadFreeze, ReadApproval, ReadBypass,
                  tables
    <3> QED BY <1>2, <2>2, <3>1, RefusedEarly
  <2>3. CASE ReadObservation(r) \/ ReadCreated(r)
    <3>1. UNCHANGED <<approvals, bypasses, freezes, observations, insertedAt>>
      BY <2>3 DEF ReadObservation, ReadCreated, tables, history
    <3>2. CallRefused(job[r], approvals, bypasses, freezes, observations, insertedAt)
      BY DEF AllRefused
    <3> QED BY <2>3, <3>1, <3>2, RefusedReads, RefusedCreated DEF AllRefused, AllDated
  <2>4. CASE TouchObservation(r)
    <3>1. UNCHANGED <<approvals, bypasses, freezes, insertedAt>>
      BY <2>4 DEF TouchObservation, history
    <3> QED BY <1>2, <2>4, <3>1, RefusedTouch
  <2>5. CASE \/ CreateObservation(r) \/ ReadCosignCache(r) \/ RecordCosign(r)
             \/ (\E s \in BOOLEAN : CosignAnswers(r, s))
             \/ MarkAllowed(r) \/ VerificationFails(r)
             \/ RecordDecision(r) \/ WriteAudit(r) \/ CallFails(r)
             \/ BeginMalformed(r) \/ Die(r)
    BY <1>2, <2>5, RefusedAfter
  <2> QED BY <1>3, <2>1, <2>2, <2>3, <2>4, <2>5 DEF BeginAny, Progress
<1>4. \A q \in Requests : Held(job'[q])
  <2>1. CASE \E r \in Requests : BeginAny(r) \/ Progress(r) \/ Die(r)
    <3>1. PICK r \in Requests : BeginAny(r) \/ Progress(r) \/ Die(r)
      BY <2>1
    <3>2. \A q \in Requests : q # r => job'[q] = job[q]
      BY <3>1, OneMoves
    <3> QED BY <1>2, <1>3, <3>1, <3>2
  <2>2. CASE Operator \/ Environment \/ UNCHANGED vars
    <3>1. UNCHANGED job
      BY <2>2 DEF Operator, Environment, ApproveDigest, FreezeTag, BypassTag, Tick,
                  MoveTag, vars
    <3> QED BY <1>2, <3>1
  <2> QED BY <2>1, <2>2 DEF Next
<1> QED BY <1>1, <1>4 DEF AllRefused

(* At every step of Decide a refusal in the making has its reason, and the  *)
(* row a call has read is still in the table (engine.go:121-172).           *)
THEOREM RefusedInvariant == Spec => []AllRefused
<1>1. Init => AllRefused
  BY DEF Init, AllRefused, RowsInserted, CallRefused, Refusing, OverrideSteps,
         VerifySteps, NewJob
<1>2. /\ TypeOK /\ TypeOK' /\ AllShaped /\ AllDated /\ AllRefused /\ [Next]_vars
      => AllRefused'
  BY RefusedNext
<1> QED BY <1>1, <1>2, TypeCorrect, ShapeInvariant, DatedInvariant, PTL DEF Spec

(* No false refusal: for any number of calls, in any order, a call that     *)
(* nothing disturbed denies a quarantined tag only under a freeze, or       *)
(* without an override that was stored when it began and with a row younger *)
(* than minAge (engine.go:121-172).                                         *)
THEOREM RefusalsAreJustified == Spec => []DenialJustified
<1>1. TypeOK /\ AllShaped /\ AllRefused => DenialJustified
  BY DEF AllRefused, CallRefused, RefusedFor, Refusing, Gated, Pinned, Quarantined,
         Key, DenialJustified
<1> QED BY <1>1, RefusedInvariant, TypeCorrect, ShapeInvariant, PTL

(* The whole inductive invariant of Decide holds, for every value of the    *)
(* constants, in every state that calls, operators, the registry and the    *)
(* clock can reach.                                                         *)
THEOREM GateHolds == Spec => []GateInvariant
<1>1. /\ TypeOK /\ AllShaped /\ AllVerified /\ AllUnfrozen /\ AllDated /\ AllJustified
      /\ AllRefused
      => GateInvariant
  BY DEF GateInvariant
<1> QED BY <1>1, TypeCorrect, ShapeInvariant, VerifiedInvariant, UnfrozenInvariant,
           DatedInvariant, JustifiedInvariant, RefusedInvariant, PTL

-----------------------------------------------------------------------------
(* The refinement: every step of Decide, of the operator, of the registry  *)
(* and of the clock is a step of the gate or changes nothing a caller sees. *)

(* What a call that answers without an override or an age to rest on has    *)
(* from its policy: the verdict itself where no digest is known, and leave  *)
(* to allow where the digest was given.                                     *)
CallGrounded(j) ==
    /\ j.pin = NoDigest /\ j.digest # NoDigest => j.policy.mutable = "quarantine"
    /\ j.pc \in {"record", "audit"} /\ j.digest = NoDigest =>
          \/ j.policy.mutable = j.outcome
          \/ /\ j.policy.mutable = "quarantine"
             /\ j.policy.failedResolution = j.outcome
    /\ /\ j.pin # NoDigest
       /\ \/ j.pc \in VerifySteps
          \/ j.pc \in {"record", "audit"} /\ j.outcome = "allow"
       => j.policy.pinned = "allow"
    /\ j.answer = "allow" /\ j.digest = NoDigest =>
          \/ j.policy.mutable = "allow"
          \/ j.policy.mutable = "quarantine" /\ j.policy.failedResolution = "allow"

AllGrounded == \A r \in Requests : CallGrounded(job[r])

LEMMA GroundedStops ==
    ASSUME NEW j, NEW n, NEW v, CallGrounded(j), Stops(n, j, v),
           v = "allow" => j.pc = "audit" /\ j.outcome = v
    PROVE  CallGrounded(n)
BY DEF CallGrounded, Stops, VerifySteps

(* A call that goes on without an allow.                                    *)
LEMMA GroundedOnward ==
    ASSUME NEW j, NEW n, CallGrounded(j), Same(n, j), n.digest = j.digest,
           n.pc \in {"record", "audit"} =>
               n.digest # NoDigest /\ n.outcome = "deny",
           n.pc \in VerifySteps => j.pc \in VerifySteps \/ j.pin = NoDigest
    PROVE  CallGrounded(n)
BY DEF CallGrounded, Same, VerifySteps

LEMMA GroundedEarly ==
    ASSUME TypeOK, AllShaped, AllGrounded, NEW r \in Requests,
           \/ ResolveDigest(r) \/ ResolveFails(r)
           \/ ReadFreeze(r) \/ ReadApproval(r) \/ ReadBypass(r)
    PROVE  CallGrounded(job'[r])
<1>0. /\ job[r] \in Job /\ CallShape(job[r]) /\ CallGrounded(job[r])
  BY DEF TypeOK, AllShaped, AllGrounded
<1>1. CASE ResolveDigest(r)
  BY <1>0, <1>1, ResolveForms
  DEF ResolveDigest, Same, CallShape, CallGrounded, VerifySteps
<1>2. CASE ResolveFails(r)
  <2>1. /\ job[r].pin = NoDigest /\ job[r].digest = NoDigest
        /\ job[r].policy.mutable = "quarantine" /\ job[r].answer = "none"
    BY <1>0, <1>2, Unanswered DEF ResolveFails, CallShape
  <2>2. /\ job'[r].pin = job[r].pin /\ job'[r].digest = job[r].digest
        /\ job'[r].policy = job[r].policy /\ job'[r].pc = "record"
        /\ job'[r].outcome = job[r].policy.failedResolution
        /\ job'[r].answer = job[r].answer
    BY <1>2, ResolveFailsForms DEF Keeps, Same, Reads
  <2> QED BY <2>1, <2>2 DEF CallGrounded, VerifySteps
<1>3. CASE ReadFreeze(r)
  BY <1>0, <1>3, FreezeForms, GroundedOnward DEF VerifySteps
<1>4. CASE ReadApproval(r)
  BY <1>0, <1>4, ApprovalForms, GroundedOnward DEF VerifySteps
<1>5. CASE ReadBypass(r)
  <2>1. job[r].digest # NoDigest
    BY <1>0, <1>5, DigestsAssumption DEF ReadBypass, CallShape, DigestSteps, ReadSteps
  <2> QED BY <1>0, <1>5, <2>1, BypassForms DEF Same, CallGrounded, VerifySteps
<1> QED BY <1>1, <1>2, <1>3, <1>4, <1>5

LEMMA GroundedMiddle ==
    ASSUME TypeOK, AllShaped, AllGrounded, NEW r \in Requests,
           \/ ReadObservation(r) \/ CreateObservation(r) \/ ReadCreated(r)
           \/ TouchObservation(r) \/ ReadCosignCache(r) \/ RecordCosign(r)
           \/ (\E s \in BOOLEAN : CosignAnswers(r, s))
           \/ MarkAllowed(r) \/ VerificationFails(r)
    PROVE  CallGrounded(job'[r])
<1>0. /\ CallGrounded(job[r]) /\ job[r].digest # NoDigest
      /\ job[r].pc \in VerifySteps \/ job[r].pin = NoDigest
  BY DigestsAssumption
  DEF AllGrounded, AllShaped, CallShape, DigestSteps, ReadSteps, VerifySteps,
      ObservationSteps, ReadObservation, CreateObservation, ReadCreated,
      TouchObservation, ReadCosignCache, RecordCosign, CosignAnswers, MarkAllowed,
      VerificationFails
<1>1. \/ Same(job'[r], job[r]) /\ job'[r].digest = job[r].digest
      \/ Stops(job'[r], job[r], "panic")
      \/ Stops(job'[r], job[r], "error")
  <2>1. CASE ReadObservation(r)
    BY <2>1, ObservationForms
  <2>2. CASE ReadCreated(r)
    BY <2>2, CreatedForms DEF Keeps, Reads
  <2>3. CASE CreateObservation(r) \/ MarkAllowed(r)
    BY <2>3, EndForms DEF CreateObservation, MarkAllowed, Keeps, Reads
  <2>4. CASE TouchObservation(r) \/ ReadCosignCache(r) \/ RecordCosign(r)
    BY <2>4, EndForms, PassedForms
    DEF TouchObservation, ReadCosignCache, RecordCosign, AfterCosign,
        AllowWithVerification, Keeps, Reads
  <2>5. CASE \E s \in BOOLEAN : CosignAnswers(r, s)
    BY <2>5, AnswerForms
  <2>6. CASE VerificationFails(r)
    BY <2>6, RefusedForms DEF Keeps, Reads
  <2> QED BY <2>1, <2>2, <2>3, <2>4, <2>5, <2>6
<1>2. CASE Same(job'[r], job[r]) /\ job'[r].digest = job[r].digest
  BY <1>0, <1>2 DEF CallGrounded, Same
<1> QED BY <1>0, <1>1, <1>2, GroundedStops

LEMMA GroundedEnd ==
    ASSUME TypeOK, AllShaped, AllGrounded, NEW r \in Requests,
           \/ RecordDecision(r) \/ WriteAudit(r) \/ CallFails(r)
           \/ BeginMalformed(r) \/ Die(r)
    PROVE  CallGrounded(job'[r])
<1>0. CallGrounded(job[r])
  BY DEF AllGrounded
<1>1. CASE RecordDecision(r)
  BY <1>0, <1>1, EndForms
  DEF RecordDecision, Keeps, Same, Reads, CallGrounded, VerifySteps
<1>2. CASE WriteAudit(r)
  BY <1>0, <1>2, EndForms, GroundedStops DEF WriteAudit
<1>3. CASE CallFails(r) \/ BeginMalformed(r) \/ Die(r)
  BY <1>0, <1>3, GroundedStops, EndForms DEF CallFails, BeginMalformed, Die
<1> QED BY <1>1, <1>2, <1>3

LEMMA GroundedNext ==
    ASSUME TypeOK, TypeOK', AllShaped, AllGrounded, [Next]_vars
    PROVE  AllGrounded'
<1>1. ASSUME NEW r \in Requests, BeginAny(r) \/ Progress(r) \/ Die(r)
      PROVE  AllGrounded'
  <2>1. ASSUME NEW tag \in AnyTag, NEW pin \in AnyDigest, NEW p \in Policies,
               Begin(r, tag, pin, p)
        PROVE  CallGrounded(job'[r])
    BY <2>1, BeginForms DEF CallGrounded, VerifySteps
  <2>2. CallGrounded(job'[r])
    BY <1>1, <2>1, GroundedEarly, GroundedMiddle, GroundedEnd DEF BeginAny, Progress
  <2> QED BY <1>1, <2>2, OneMoves DEF AllGrounded
<1>2. CASE Operator \/ Environment \/ UNCHANGED vars
  <2>1. UNCHANGED job
    BY <1>2 DEF Operator, Environment, ApproveDigest, FreezeTag, BypassTag, Tick,
                MoveTag, vars
  <2> QED BY <2>1 DEF AllGrounded
<1> QED BY <1>1, <1>2 DEF Next

LEMMA GroundedInvariant == Spec => []AllGrounded
<1>1. Init => AllGrounded
  BY DEF Init, AllGrounded, CallGrounded, VerifySteps, NewJob
<1>2. TypeOK /\ TypeOK' /\ AllShaped /\ AllGrounded /\ [Next]_vars => AllGrounded'
  BY GroundedNext
<1> QED BY <1>1, <1>2, TypeCorrect, ShapeInvariant, PTL DEF Spec

(* Where Cosign is required nothing is allowed that cosign has not accepted *)
(* under that very policy key, except by the two branches of Decide that    *)
(* allow outright (engine.go:95 and :111), for any number of calls,         *)
(* policies, digests and keys, with any failure and any crash               *)
(* (allowWithVerification and verifyCosign, engine.go:201-283).             *)
THEOREM OnlyVerifiedAdmitted == Spec => []VerifiedBeforeAdmission
<1>1. ASSUME AllShaped, AllVerified, AllGrounded, NEW r \in Requests,
             Admitted(r), job[r].policy.cosign
      PROVE  \/ <<job[r].digest, job[r].policy.key>> \in verified
             \/ AllowedOutright(r)
  <2>1. /\ CallShape(job[r]) /\ CallVerified(job[r], verified)
        /\ CallGrounded(job[r]) /\ job[r].answer = "allow"
    BY <1>1 DEF AllShaped, AllVerified, AllGrounded, Admitted
  <2>2. CASE job[r].digest # NoDigest
    <3>1. Gated(job[r])
      BY <2>1, <2>2 DEF CallGrounded, Gated
    <3> QED BY <1>1, <2>1, <3>1 DEF CallVerified, RestsOnCosign, Allowing
  <2>3. CASE job[r].digest = NoDigest
    BY <2>1, <2>3 DEF CallShape, CallGrounded, AllowedOutright, Pinned
  <2> QED BY <2>2, <2>3
<1>2. AllShaped /\ AllVerified /\ AllGrounded => VerifiedBeforeAdmission
  BY <1>1 DEF VerifiedBeforeAdmission
<1> QED BY <1>2, ShapeInvariant, VerifiedInvariant, GroundedInvariant, PTL

-----------------------------------------------------------------------------
(* The abstract variables.                                                  *)
Calls == [r \in Requests |-> CallOf(job[r])]

LEMMA CallMoves ==
    ASSUME NEW r \in Requests, NEW c, CallOf(job'[r]) = c,
           \A q \in Requests : q # r => job'[q] = job[q]
    PROVE  Calls' = [Calls EXCEPT ![r] = c]
<1>1. Calls' = [q \in Requests |-> CallOf(job'[q])]
  BY DEF Calls, CallOf, StateOf
<1>2. ASSUME NEW q \in Requests
      PROVE  CallOf(job'[q]) = IF q = r THEN c ELSE CallOf(job[q])
  <2>1. CASE q = r
    BY <2>1
  <2>2. CASE q # r
    <3>1. job'[q] = job[q]
      BY <2>2
    <3> QED BY <2>2, <3>1
  <2> QED BY <2>1, <2>2
<1> QED BY <1>1, <1>2 DEF Calls

(* Steps inside Decide do not show.                                         *)
LEMMA CallHidden ==
    ASSUME NEW j, NEW n, Same(n, j), j.answer = "none",
           j.pc \notin {"new", "done"}, n.pc \notin {"new", "done"}
    PROVE  CallOf(n) = CallOf(j)
BY DEF CallOf, StateOf, Same

(* What the answer v for digest d makes of call j.                          *)
Answered(j, d, v) ==
    [state |-> "answered", tag |-> j.tag, pin |-> j.pin, policy |-> j.policy,
     now |-> j.now, frozen |-> j.held.freezes, answer |-> v, digest |-> d]

LEMMA CallStops ==
    ASSUME NEW j, NEW n, NEW v, NEW d, Stops(n, j, v),
           d = IF v \in {"allow", "deny"} THEN j.digest ELSE NoDigest
    PROVE  CallOf(n) = Answered(j, d, v)
<1>1. StateOf(n) = "answered"
  BY DEF StateOf, Stops
<1>2. d = IF n.answer \in {"allow", "deny"} THEN n.digest ELSE NoDigest
  BY DEF Stops
<1> QED BY <1>1, <1>2 DEF CallOf, Stops, Answered

LEMMA CallCloses ==
    ASSUME NEW r \in Requests, NEW d, NEW v, CallOf(job'[r]) = Answered(job[r], d, v),
           \A q \in Requests : q # r => job'[q] = job[q]
    PROVE  Gate!Close(r, d, v)
<1> DEFINE before == CallOf(job[r])
           after == Answered(job[r], d, v)
<1>1. Calls' = [Calls EXCEPT ![r] = after]
  BY CallMoves
<1>2. after = [[[before EXCEPT !.state = "answered"] EXCEPT !.digest = d]
                  EXCEPT !.answer = v]
  <2> DEFINE s == StateOf(job[r])
             shown == IF job[r].answer \in {"allow", "deny"} THEN job[r].digest
                      ELSE NoDigest
             frozen == job[r].held.freezes
  <2>1. before = [state |-> s, tag |-> job[r].tag, pin |-> job[r].pin,
                  policy |-> job[r].policy, now |-> job[r].now, frozen |-> frozen,
                  answer |-> job[r].answer, digest |-> shown]
    BY DEF CallOf
  <2>2. after = [state |-> "answered", tag |-> job[r].tag, pin |-> job[r].pin,
                 policy |-> job[r].policy, now |-> job[r].now, frozen |-> frozen,
                 answer |-> v, digest |-> d]
    BY DEF Answered
  <2> HIDE DEF before, after, s, shown, frozen
  <2> DEFINE one == [before EXCEPT !.state = "answered"]
             two == [one EXCEPT !.digest = d]
  <2>3. one = [state |-> "answered", tag |-> job[r].tag, pin |-> job[r].pin,
               policy |-> job[r].policy, now |-> job[r].now, frozen |-> frozen,
               answer |-> job[r].answer, digest |-> shown]
    BY <2>1
  <2> HIDE DEF one
  <2>4. two = [state |-> "answered", tag |-> job[r].tag, pin |-> job[r].pin,
               policy |-> job[r].policy, now |-> job[r].now, frozen |-> frozen,
               answer |-> job[r].answer, digest |-> d]
    BY <2>3
  <2> HIDE DEF two
  <2>5. after = [two EXCEPT !.answer = v]
    BY <2>2, <2>4
  <2> QED BY <2>5 DEF one, two
<1>3. Calls[r] = before
  BY DEF Calls
<1> HIDE DEF before, after
<1>4. Calls' = [Calls EXCEPT ![r].state = "answered", ![r].digest = d,
                             ![r].answer = v]
  BY <1>1, <1>2, <1>3 DEF Calls
<1> QED BY <1>4 DEF Calls, Gate!Close

(* A step that only adds grounds.                                           *)
LEMMA WorldStep ==
    ASSUME GroundsGrow, Calls' = Calls, auditLog' = auditLog
    PROVE  Gate!World
BY DEF GroundsGrow, Calls, Gate!World, Gate!Never, Never

LEMMA AskStep ==
    ASSUME TypeOK, TypeOK', NEW r \in Requests, NEW tag \in AnyTag,
           NEW pin \in AnyDigest, NEW p \in Policies, Begin(r, tag, pin, p)
    PROVE  Gate!Ask(r)
<1> DEFINE c == [state |-> "asked", tag |-> tag, pin |-> pin, policy |-> p,
                 now |-> clock, frozen |-> freezes, digest |-> NoDigest,
                 answer |-> "none"]
<1>1. CallOf(job'[r]) = c
  BY BeginForms DEF CallOf, StateOf
<1>2. \A q \in Requests : q # r => job'[q] = job[q]
  BY OneMoves DEF BeginAny
<1>3. Calls' = [Calls EXCEPT ![r] = c]
  BY <1>1, <1>2, CallMoves
<1>4. Calls[r].state = "idle" /\ (pin = NoDigest => tag # NoTag)
  BY DEF Begin, Calls, CallOf, StateOf
<1>5. UNCHANGED <<auditLog, clock, approvals, freezes, bypasses, verified,
                  resolvedAt, insertedAt>>
  BY DEF Begin, tables, history
<1> QED BY <1>3, <1>4, <1>5
        DEF Calls, Gate!Ask, Gate!grounds, Gate!AnyTag, Gate!AnyDigest, AnyTag, AnyDigest

LEMMA GiveUpStep ==
    ASSUME TypeOK, TypeOK', NEW r \in Requests, job[r].pc # "done",
           BeginAny(r) \/ Progress(r) \/ Die(r),
           NEW v \in {"error", "panic", "killed"}, Stops(job'[r], job[r], v),
           UNCHANGED <<auditLog, clock, approvals, freezes, bypasses, verified,
                       resolvedAt, insertedAt>>
    PROVE  Gate!GiveUp(r)
<1>1. \A q \in Requests : q # r => job'[q] = job[q]
  BY OneMoves
<1>2. CallOf(job'[r]) = Answered(job[r], NoDigest, v)
  <2>1. NoDigest = IF v \in {"allow", "deny"} THEN job[r].digest ELSE NoDigest
    OBVIOUS
  <2> QED BY <2>1, CallStops
<1>3. Gate!Close(r, NoDigest, v)
  BY <1>1, <1>2, CallCloses
<1>4. Calls[r].state \in {"idle", "asked"}
  BY DEF Calls, CallOf, StateOf
<1> QED BY <1>3, <1>4 DEF Calls, Gate!GiveUp, Gate!grounds

(* The grounds of an answer, at the step that gives it.                     *)
LEMMA AdmitGrounds ==
    ASSUME GateInvariant, AllGrounded, NEW r \in Requests, WriteAudit(r),
           job[r].outcome = "allow", job[r].digest # NoDigest
    PROVE  job[r].digest \in Digests /\ Gate!MayAdmit(Calls[r], job[r].digest)
<1> DEFINE j == job[r]
<1>0. /\ j \in Job /\ CallShape(j) /\ CallGrounded(j) /\ CallVerified(j, verified)
      /\ CallUnfrozen(j, freezes, {}) /\ j.pc = "audit"
      /\ CallJustified(j, approvals, bypasses, resolvedAt, insertedAt)
  BY DEF GateInvariant, AllGrounded, TypeOK, AllShaped, AllVerified, AllUnfrozen,
         AllJustified, WriteAudit
<1>1. /\ Calls[r].tag = j.tag /\ Calls[r].pin = j.pin /\ Calls[r].policy = j.policy
      /\ Calls[r].now = j.now /\ Calls[r].frozen = j.held.freezes
  BY DEF Calls, CallOf
<1>2. j.digest \in Digests /\ Gated(j) /\ Allowing(j)
  BY <1>0, JobFields DEF Gated, Allowing, CallGrounded, AnyDigest
<1> HIDE DEF j
<1>3. ~Gate!Frozen(Calls[r], j.digest)
  <2>1. ~FreezeFor(j.held.freezes, j)
    BY <1>0, <1>2 DEF CallUnfrozen, RestsOnNoFreeze, FreezeFor
  <2> QED BY <1>1, <2>1
          DEF FreezeFor, InForce, Gate!Frozen, Gate!FreezeCovers, Gate!InForce,
              Gate!Never, Gate!Unix, Never, Unix
<1>4. Gate!Verified(Calls[r], j.digest)
  BY <1>0, <1>1, <1>2 DEF CallVerified, RestsOnCosign, Gate!Verified
<1>5. CASE j.pin # NoDigest
  <2>1. j.digest = j.pin /\ j.policy.pinned = "allow"
    BY <1>0, <1>5, <1>2 DEF CallShape, CallGrounded, Allowing
  <2> QED BY <1>1, <1>2, <1>3, <1>4, <2>1 DEF Gate!MayAdmit, j
<1>6. CASE j.pin = NoDigest
  <2>1. j.policy.mutable = "quarantine"
    BY <1>2, <1>6 DEF Gated
  <2>2. Justified(j, approvals, bypasses, resolvedAt, insertedAt)
    BY <1>0, <1>2, <1>6 DEF CallJustified, PastTheGate
  <2>3. \/ Gate!Approved(Calls[r], j.digest) \/ Gate!Bypassed(Calls[r])
        \/ Gate!FirstSight(Calls[r], j.digest) \/ Gate!Aged(Calls[r], j.digest)
    BY <1>1, <2>2
    DEF Justified, ApprovalFor, BypassFor, InForce, Gate!Approved, Gate!Bypassed,
        Gate!FirstSight, Gate!Aged, Gate!InForce, Gate!Never, Gate!Unix, Never, Unix
  <2>4. ~Gate!Pinned(Calls[r])
    BY <1>1, <1>6 DEF Gate!Pinned
  <2> QED BY <1>1, <1>2, <1>3, <1>4, <2>1, <2>3, <2>4 DEF Gate!MayAdmit, j
<1> QED BY <1>5, <1>6

LEMMA DecidedStep ==
    ASSUME GateInvariant, TypeOK', AllGrounded, NEW r \in Requests, WriteAudit(r)
    PROVE  Gate!Admit(r) \/ Gate!Refuse(r)
<1>0. /\ job[r].pc = "audit" /\ CallShape(job[r]) /\ CallGrounded(job[r])
      /\ job[r].outcome \in {"allow", "deny"} /\ job[r].digest \in AnyDigest
      /\ TypeOK /\ job[r] \in Job
  BY JobFields DEF WriteAudit, GateInvariant, AllShaped, AllGrounded, CallShape, TypeOK
<1>1. Stops(job'[r], job[r], job[r].outcome)
  BY <1>0, EndForms DEF WriteAudit
<1>2. \A q \in Requests : q # r => job'[q] = job[q]
  BY <1>0, OneMoves DEF Progress
<1>3. CallOf(job'[r]) = Answered(job[r], job[r].digest, job[r].outcome)
  BY <1>0, <1>1, CallStops
<1>4. Gate!Close(r, job[r].digest, job[r].outcome)
  BY <1>2, <1>3, CallCloses
<1>5. /\ auditLog' = IF Calls[r].policy.audit
                     THEN auditLog \cup {[req |-> r, digest |-> job[r].digest,
                                         decision |-> job[r].outcome]}
                     ELSE auditLog
      /\ UNCHANGED <<clock, approvals, freezes, bypasses, verified, resolvedAt,
                     insertedAt>>
  BY DEF WriteAudit, tables, history, Calls, CallOf
<1>6. Gate!Decided(r, job[r].digest, job[r].outcome)
  BY <1>4, <1>5 DEF Gate!Decided, Gate!grounds, Calls
<1>7. /\ Calls[r].state = "asked" /\ Calls[r].pin = job[r].pin
      /\ Calls[r].policy = job[r].policy
  BY <1>0 DEF Calls, CallOf, StateOf
<1>8. CASE job[r].digest = NoDigest
  <2>1. job[r].pin = NoDigest
    BY <1>0, <1>8 DEF CallShape
  <2>2. Gate!Outright(Calls[r], job[r].outcome)
    BY <1>0, <1>7, <1>8, <2>1 DEF CallGrounded, Gate!Outright, Gate!Pinned
  <2> QED BY <1>0, <1>6, <1>7, <1>8, <2>2 DEF Calls, Gate!Admit, Gate!Refuse
<1>9. CASE job[r].digest # NoDigest /\ job[r].outcome = "allow"
  BY <1>6, <1>7, <1>9, AdmitGrounds DEF Calls, Gate!Admit
<1>10. CASE job[r].digest # NoDigest /\ job[r].outcome = "deny"
  <2>1. job[r].digest \in Digests
    BY <1>0, <1>10 DEF AnyDigest
  <2>2. Gate!MayRefuse(Calls[r], job[r].digest)
    BY <1>0, <1>7, <1>10 DEF CallShape, CallGrounded, Gate!MayRefuse, Gate!Pinned
  <2> QED BY <1>6, <1>7, <1>10, <2>1, <2>2 DEF Calls, Gate!Refuse
<1> QED BY <1>0, <1>8, <1>9, <1>10

(* The steps of Decide between its beginning and its end.                   *)
LEMMA HiddenStep ==
    ASSUME TypeOK, TypeOK', AllShaped, GroundsGrow, NEW r \in Requests,
           Progress(r), auditLog' = auditLog,
           Same(job'[r], job[r]), job[r].pc \in Running, job'[r].pc # "done",
           job'[r].pc # "new"
    PROVE  Gate!World
<1>1. job[r].pc \notin {"new", "done"}
  BY DEF Running, ReadSteps, WriteSteps, VerifySteps
<1>2. job[r].answer = "none"
  BY <1>1, Unanswered
<1>3. CallOf(job'[r]) = CallOf(job[r])
  BY <1>1, <1>2, CallHidden
<1>4. \A q \in Requests : job'[q] = job[q] \/ q = r
  BY OneMoves
<1>5. Calls' = Calls
  BY <1>3, <1>4 DEF Calls
<1> QED BY <1>5, WorldStep

LEMMA HiddenEarly ==
    ASSUME TypeOK, TypeOK', AllShaped, GroundsGrow, NEW r \in Requests,
           \/ ResolveDigest(r) \/ ResolveFails(r)
           \/ ReadFreeze(r) \/ ReadApproval(r) \/ ReadBypass(r)
           \/ ReadObservation(r) \/ CreateObservation(r)
    PROVE  Gate!World
<1>1. job[r].pc \in Running /\ auditLog' = auditLog /\ Progress(r)
  BY DEF Progress, ResolveDigest, ResolveFails, ReadFreeze, ReadApproval, ReadBypass,
         ReadObservation, CreateObservation, Running, ReadSteps, WriteSteps
<1>2. /\ Same(job'[r], job[r])
      /\ job'[r].pc \in {"freeze", "record", "approval", "bypass", "cache", "get",
                         "create", "touch", "reget"}
  <2>1. CASE ResolveDigest(r)
    BY <2>1, ResolveForms
  <2>2. CASE ResolveFails(r)
    BY <2>2, ResolveFailsForms DEF Keeps
  <2>3. CASE ReadFreeze(r) \/ ReadApproval(r)
    BY <2>3, FreezeForms, ApprovalForms
  <2>4. CASE ReadBypass(r)
    BY <2>4, BypassForms
  <2>5. CASE ReadObservation(r)
    BY <2>5, ObservationForms
  <2>6. CASE CreateObservation(r)
    BY <2>6, EndForms DEF CreateObservation, Keeps
  <2> QED BY <2>1, <2>2, <2>3, <2>4, <2>5, <2>6
<1> QED BY <1>1, <1>2, HiddenStep

LEMMA HiddenLate ==
    ASSUME TypeOK, TypeOK', AllShaped, GroundsGrow, NEW r \in Requests,
           \/ ReadCosignCache(r) \/ RecordCosign(r)
           \/ (\E s \in BOOLEAN : CosignAnswers(r, s))
           \/ MarkAllowed(r) \/ VerificationFails(r) \/ RecordDecision(r)
    PROVE  Gate!World
<1>1. job[r].pc \in Running /\ auditLog' = auditLog /\ Progress(r)
  BY DEF Progress, ReadCosignCache, RecordCosign, CosignAnswers, MarkAllowed,
         VerificationFails, RecordDecision, Running, WriteSteps, VerifySteps
<1>2. /\ Same(job'[r], job[r])
      /\ job'[r].pc \in {"verify", "save", "mark", "record", "audit"}
  <2>1. CASE ReadCosignCache(r) \/ RecordCosign(r)
    BY <2>1, EndForms, PassedForms DEF ReadCosignCache, RecordCosign, AfterCosign, Keeps
  <2>2. CASE \E s \in BOOLEAN : CosignAnswers(r, s)
    BY <2>2, AnswerForms
  <2>3. CASE MarkAllowed(r) \/ RecordDecision(r)
    BY <2>3, EndForms DEF MarkAllowed, RecordDecision, Keeps
  <2>4. CASE VerificationFails(r)
    BY <2>4, RefusedForms DEF Keeps
  <2> QED BY <2>1, <2>2, <2>3, <2>4
<1> QED BY <1>1, <1>2, HiddenStep

(* The two steps that go on or give the call up.                            *)
LEMMA CreatedStep ==
    ASSUME TypeOK, TypeOK', AllShaped, GroundsGrow, NEW r \in Requests, ReadCreated(r)
    PROVE  Gate!World \/ Gate!GiveUp(r)
<1>1. /\ job[r].pc = "reget" /\ job[r].pc \in Running /\ Progress(r)
      /\ UNCHANGED <<auditLog, clock, approvals, freezes, bypasses, verified,
                     resolvedAt, insertedAt>>
  BY DEF ReadCreated, Progress, Running, ReadSteps, tables, history
<1>2. CASE Stops(job'[r], job[r], "panic")
  BY <1>1, <1>2, GiveUpStep
<1>3. CASE ~Stops(job'[r], job[r], "panic")
  <2>1. Same(job'[r], job[r]) /\ job'[r].pc \in {"record", "cache", "mark"}
    BY <1>3, CreatedForms DEF Keeps
  <2> QED BY <1>1, <2>1, HiddenStep
<1> QED BY <1>2, <1>3

LEMMA TouchStep ==
    ASSUME TypeOK, TypeOK', AllShaped, GroundsGrow, NEW r \in Requests,
           TouchObservation(r)
    PROVE  Gate!World \/ Gate!GiveUp(r)
<1>1. /\ job[r].pc = "touch" /\ job[r].pc \in Running /\ Progress(r)
      /\ UNCHANGED <<auditLog, clock, approvals, freezes, bypasses, verified,
                     resolvedAt, insertedAt>>
  BY DEF TouchObservation, Progress, Running, WriteSteps, history
<1>2. CASE Return(r, "error")
  BY <1>1, <1>2, EndForms, GiveUpStep
<1>3. CASE ~Return(r, "error")
  <2>1. Same(job'[r], job[r]) /\ job'[r].pc \in {"record", "cache", "mark"}
    BY <1>3, EndForms, PassedForms DEF TouchObservation, AllowWithVerification, Keeps
  <2> QED BY <1>1, <2>1, HiddenStep
<1> QED BY <1>2, <1>3

(* A call that fails or is killed.                                          *)
LEMMA FailedStep ==
    ASSUME TypeOK, TypeOK', NEW r \in Requests,
           BeginMalformed(r) \/ CallFails(r) \/ Die(r)
    PROVE  Gate!GiveUp(r)
<1>1. /\ job[r].pc # "done"
      /\ BeginAny(r) \/ Progress(r) \/ Die(r)
      /\ UNCHANGED <<auditLog, clock, approvals, freezes, bypasses, verified,
                     resolvedAt, insertedAt>>
  BY DEF BeginMalformed, CallFails, Die, BeginAny, Progress, Running, ReadSteps,
         WriteSteps, VerifySteps, tables, history
<1>2. \E v \in {"error", "killed"} : Stops(job'[r], job[r], v)
  BY EndForms DEF BeginMalformed, CallFails, Die
<1> QED BY <1>1, <1>2, GiveUpStep

LEMMA QuarantineStep ==
    ASSUME GateInvariant, TypeOK', AllGrounded, [Next]_vars
    PROVE  Gate!Next
<1>0. TypeOK /\ AllShaped /\ InsertedWithRow
  BY DEF GateInvariant, AllDated
<1>1. GroundsGrow
  BY <1>0, GroundsGrowNext
<1>2. ASSUME NEW r \in Requests, BeginAny(r) \/ Progress(r) \/ Die(r)
      PROVE  \/ Gate!World
             \/ Gate!Ask(r) \/ Gate!Admit(r) \/ Gate!Refuse(r) \/ Gate!GiveUp(r)
  <2>1. CASE BeginAny(r) \/ Die(r) \/ CallFails(r)
    BY <1>0, <2>1, AskStep, FailedStep DEF BeginAny
  <2>2. CASE WriteAudit(r)
    BY <2>2, DecidedStep
  <2>3. CASE ReadCreated(r) \/ TouchObservation(r)
    BY <1>0, <1>1, <2>3, CreatedStep, TouchStep
  <2> QED BY <1>0, <1>1, <1>2, <2>1, <2>2, <2>3, HiddenEarly, HiddenLate DEF Progress
<1>3. CASE Operator \/ Environment \/ UNCHANGED vars
  <2>1. UNCHANGED <<job, auditLog>>
    BY <1>3 DEF Operator, Environment, ApproveDigest, FreezeTag, BypassTag, Tick,
                MoveTag, vars
  <2> QED BY <1>1, <2>1, WorldStep DEF Calls, Gate!Next
<1> QED BY <1>2, <1>3 DEF Next, Gate!Next

(* Decide is the gate its callers see: whatever the other calls, the        *)
(* operator, failures and crashes do between its statements, it answers at  *)
(* most once, on grounds that hold at the step that answers, and leaves one *)
(* audit event for each answer and none for a call that failed.             *)
THEOREM DecideIsTheGate == Spec => GateImplemented
<1>1. Init => Gate!Init
  BY DEF Init, NewJob, CallOf, StateOf, Gate!Init
<1>2. GateInvariant /\ GateInvariant' /\ AllGrounded /\ [Next]_vars
          => [Gate!Next]_(Gate!vars)
  BY QuarantineStep DEF GateInvariant
<1> QED BY <1>1, <1>2, GateHolds, GroundedInvariant, PTL
        DEF Spec, GateImplemented, Gate!Spec
=============================================================================
