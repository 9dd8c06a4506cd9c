-------------------------- MODULE AuthzPluginProofs --------------------------
(***************************************************************************)
(* What the authorization plugin promises of any number of API requests, of *)
(* every kind, beside tags that move, recordings that fail and crashes.     *)
(***************************************************************************)
EXTENDS AuthzPlugin, TLAPS

Types ==
    /\ auditPath \in BOOLEAN
    /\ registry \in [Tags -> Digests]
    /\ call \in [Calls -> Call]

(* The verdict v on request c, as it is to be recorded in rows and in log.  *)
Told(c, v, rows, log) ==
    /\ <<c, v>> \in rows
    /\ auditPath => <<c, v>> \in log

(* How far the handling of call k of request c can have come with what is   *)
(* recorded in rows and in log.                                             *)
Recorded(c, k, rows, log) ==
    /\ k.pull => k.op = "build"
    /\ k.pc = "new" => k = NewCall
    /\ k.pc = "engine" => k.op \in DecidedOps
    /\ k.pc \in {"record", "audit"} =>
          /\ k.verdict \in Verdicts
          /\ k.pull => k.verdict = "deny"
    /\ k.pc \in Running => k.answer = "none"
    /\ k.pc = "audit" => <<c, k.verdict>> \in rows
    /\ k.pc = "ran" => k.answer = "allow"
    /\ k.answer = "deny" => Told(c, "deny", rows, log)
    /\ k.answer = "allow" =>
          /\ ~k.pull
          /\ k.op \in DecidedOps => Told(c, "allow", rows, log)

AllRecorded ==
    /\ \A c \in Calls : Recorded(c, call[c], decisions, auditLog)
    /\ auditLog \subseteq decisions

(* What a name stands for while the tags point as points says.              *)
Pointed(name, points) == IF name \in Digests THEN name ELSE points[name]

(* A decision on a digest is one on what the reference is about, which the  *)
(* plugin took from the request.                                            *)
SameImage(k, points) ==
    /\ k.pc # "new" => k.ref = CombineImageAndTag(k.from, k.param)
    /\ k.pc \in {"new", "engine"} => k.decided = None /\ ~k.moved
    /\ k.decided # None => Parses(k.ref)
    /\ k.decided # None /\ ~k.moved /\ k.pc # "ran" =>
          k.decided = Pointed(Subject(k.ref), points)
    /\ k.pc # "ran" => k.pulled = None

(* PulledAsDecided, of one call.                                            *)
PulledSo(k) ==
    /\ \E n \in Names(k) : Names(k) = {n}
    /\ k.pulled # None /\ k.decided # None /\ ~k.moved
    => k.pulled = k.decided

AllSameImage ==
    \A c \in Calls : SameImage(call[c], registry) /\ PulledSo(call[c])

(* The inductive invariant.                                                 *)
PluginInvariant == Types /\ AllRecorded /\ AllSameImage

-----------------------------------------------------------------------------
LEMMA NewCallTyped == NewCall \in Call
BY DEF NewCall, Call, Running, Ops, DecidedOps, PullOps, Images, Params, NoImage, Verdicts

LEMMA NewCallFields ==
    /\ NewCall.pc = "new" /\ NewCall.op = "other" /\ ~NewCall.pull
    /\ NewCall.from = NoImage /\ NewCall.param = None /\ NewCall.ref = NoImage
    /\ NewCall.decided = None /\ NewCall.verdict = "none"
    /\ NewCall.answer = "none" /\ NewCall.pulled = None /\ ~NewCall.moved
BY DEF NewCall

LEMMA PluginInitially == Init => PluginInvariant
<1> SUFFICES ASSUME Init PROVE PluginInvariant
    OBVIOUS
<1>1. Types BY NewCallTyped DEF Init, Types
<1>2. \A c \in Calls : Recorded(c, NewCall, decisions, auditLog)
    BY NewCallFields DEF Recorded, Running
<1>3. SameImage(NewCall, registry) /\ PulledSo(NewCall)
    BY NewCallFields DEF SameImage, PulledSo
<1> QED BY <1>1, <1>2, <1>3 DEF Init, PluginInvariant, AllRecorded, AllSameImage

(* A step of one call: what it leaves that call with is all there is to     *)
(* show, since rows and events are only added.                              *)
LEMMA OneCallMoves ==
    ASSUME PluginInvariant, NEW c \in Calls, NEW k \in Call, Becomes(c, k),
           decisions \subseteq decisions', auditLog \subseteq auditLog',
           auditLog' \subseteq decisions',
           Recorded(c, k, decisions', auditLog'),
           SameImage(k, registry), PulledSo(k)
    PROVE  PluginInvariant'
<1>1. /\ call' = [call EXCEPT ![c] = k]
      /\ auditPath' = auditPath /\ registry' = registry
    BY DEF Becomes
<1>2. Types' BY <1>1 DEF PluginInvariant, Types
<1>3. \A b \in Calls : call'[b] = IF b = c THEN k ELSE call[b]
    BY <1>1 DEF PluginInvariant, Types
<1>4. ASSUME NEW b \in Calls
      PROVE  Recorded(b, call'[b], decisions', auditLog')
    <2>1. CASE b = c BY <2>1, <1>3
    <2>2. CASE b # c
        <3>1. Recorded(b, call[b], decisions, auditLog)
            BY DEF PluginInvariant, AllRecorded
        <3> QED BY <3>1, <2>2, <1>3 DEF Recorded, Told
    <2> QED BY <2>1, <2>2
<1>5. ASSUME NEW b \in Calls
      PROVE  Recorded(b, call[b], decisions, auditLog)'
    BY <1>1, <1>4 DEF Recorded, Told
<1>6. ASSUME NEW b \in Calls
      PROVE  (SameImage(call[b], registry) /\ PulledSo(call[b]))'
    <2>1. SameImage(call'[b], registry) /\ PulledSo(call'[b])
        BY <1>3 DEF PluginInvariant, AllSameImage
    <2> QED BY <1>1, <2>1 DEF SameImage, PulledSo
<1> QED BY <1>2, <1>5, <1>6 DEF PluginInvariant, AllRecorded, AllSameImage

(* What is known of a call before its step.                                 *)
LEMMA Before ==
    ASSUME PluginInvariant, NEW c \in Calls
    PROVE  /\ call[c] \in Call /\ Recorded(c, call[c], decisions, auditLog)
           /\ SameImage(call[c], registry) /\ PulledSo(call[c])
           /\ auditLog \subseteq decisions
BY DEF PluginInvariant, Types, AllRecorded, AllSameImage

(* A call whose handler ends with an error or in a crash promises nothing.  *)
LEMMA Refused ==
    ASSUME PluginInvariant, NEW c \in Calls, call[c].pc \in Running,
           NEW value \in {"error", "lost"}, Answer(c, value),
           decisions' = decisions,
           auditLog' = auditLog \/ (At(c, "audit") /\ auditLog' = auditLog \cup Event(c))
    PROVE  PluginInvariant'
<1> DEFINE k == [call[c] EXCEPT !.pc = "answered", !.answer = value]
<1>1. k \in Call /\ Becomes(c, k) BY Before DEF Call, Answer, Running
<1>2. /\ k.pc = "answered" /\ k.answer = value
      /\ k.op = call[c].op /\ k.pull = call[c].pull /\ k.ref = call[c].ref
      /\ k.from = call[c].from /\ k.param = call[c].param
      /\ k.pulled = call[c].pulled /\ k.moved = call[c].moved
      /\ k.decided = call[c].decided
    BY Before DEF Call
<1> HIDE DEF k
<1>3. Recorded(c, k, decisions', auditLog')
    BY <1>2, Before DEF Recorded, Running
<1>4. SameImage(k, registry) /\ PulledSo(k)
    BY <1>2, Before DEF SameImage, PulledSo, Running
<1>5. auditLog \subseteq auditLog' /\ auditLog' \subseteq decisions'
    BY Before DEF Recorded, Event, At
<1> QED BY <1>1, <1>3, <1>4, <1>5, OneCallMoves

(* The first step of a request: nothing is decided or pulled yet.           *)
LEMMA FirstStep ==
    ASSUME PluginInvariant, NEW c \in Calls, NEW k \in Call, Becomes(c, k),
           RecordsNothing, Recorded(c, k, decisions, auditLog),
           k.pc \notin {"new", "ran"},
           k.ref = CombineImageAndTag(k.from, k.param),
           k.decided = None, ~k.moved, k.pulled = None
    PROVE  PluginInvariant'
<1>1. SameImage(k, registry) /\ PulledSo(k) BY DEF SameImage, PulledSo
<1>2. /\ decisions' = decisions /\ auditLog' = auditLog
      /\ auditLog' \subseteq decisions'
    BY Before DEF RecordsNothing
<1> QED BY <1>1, <1>2, OneCallMoves

LEMMA ReceiveDecidedKeeps ==
    ASSUME PluginInvariant, NEW c \in Calls, NEW op \in DecidedOps,
           NEW from \in Images, NEW param \in Params,
           ReceiveDecided(c, op, from, param)
    PROVE  PluginInvariant'
<1> DEFINE ref == CombineImageAndTag(from, param)
           k == [Received(op) EXCEPT !.pc = "engine", !.from = from,
                    !.param = param, !.ref = ref]
<1>1. ref \in [tag : Params, digest : Digests \cup {None}]
    BY DEF CombineImageAndTag, Images, Params
<1> HIDE DEF ref
<1>2. /\ k \in Call
      /\ k.pc = "engine" /\ k.op = op /\ ~k.pull /\ k.answer = "none"
      /\ ~k.moved /\ k.pulled = None /\ k.decided = None
      /\ k.from = from /\ k.param = param /\ k.ref = ref
    BY <1>1, NewCallTyped, NewCallFields DEF Call, Received, Running, Ops
<1>3. Recorded(c, k, decisions, auditLog) BY <1>2 DEF Recorded, Running
<1>4. Becomes(c, k) /\ RecordsNothing BY DEF ReceiveDecided, ref
<1> HIDE DEF k
<1> QED BY <1>2, <1>3, <1>4, FirstStep DEF ref

LEMMA NoImageAlone == NoImage = CombineImageAndTag(NoImage, None)
BY DEF CombineImageAndTag

LEMMA ReceiveMalformedKeeps ==
    ASSUME PluginInvariant, NEW c \in Calls, NEW op \in Ops,
           ReceiveMalformed(c, op)
    PROVE  PluginInvariant'
<1> DEFINE k == [Received(op) EXCEPT !.pc = "answered", !.answer = "error"]
<1>1. /\ k \in Call
      /\ k.pc = "answered" /\ k.op = op /\ ~k.pull /\ k.answer = "error"
      /\ ~k.moved /\ k.pulled = None /\ k.decided = None
      /\ k.from = NoImage /\ k.param = None /\ k.ref = NoImage
    BY NewCallTyped, NewCallFields DEF Call, Received
<1>2. Becomes(c, k) /\ RecordsNothing BY DEF ReceiveMalformed
<1> HIDE DEF k
<1>3. Recorded(c, k, decisions, auditLog) BY <1>1 DEF Recorded, Running
<1> QED BY <1>1, <1>2, <1>3, NoImageAlone, FirstStep

LEMMA ReceiveBuildKeeps ==
    ASSUME PluginInvariant, NEW c \in Calls, NEW pull \in BOOLEAN,
           ReceiveBuild(c, pull)
    PROVE  PluginInvariant'
<1>1. PICK k \in Call :
         /\ Becomes(c, k)
         /\ k.op = "build" /\ k.pull = pull
         /\ ~k.moved /\ k.pulled = None /\ k.decided = None
         /\ k.from = NoImage /\ k.param = None /\ k.ref = NoImage
         /\ k.pc = (IF pull THEN "record" ELSE "answered")
         /\ k.verdict = (IF pull THEN "deny" ELSE "none")
         /\ k.answer = (IF pull THEN "none" ELSE "allow")
    <2>1. CASE pull
        <3> DEFINE k == [[Received("build") EXCEPT !.pull = pull]
                            EXCEPT !.pc = "record", !.verdict = "deny"]
        <3>1. /\ k \in Call /\ k.op = "build" /\ k.pull = pull
              /\ ~k.moved /\ k.pulled = None /\ k.decided = None
              /\ k.from = NoImage /\ k.param = None /\ k.ref = NoImage
              /\ k.pc = "record" /\ k.verdict = "deny" /\ k.answer = "none"
            BY NewCallTyped, NewCallFields
               DEF Call, Received, Running, Ops, Verdicts
        <3>2. Becomes(c, k) BY <2>1 DEF ReceiveBuild
        <3> QED BY <2>1, <3>1, <3>2
    <2>2. CASE ~pull
        <3> DEFINE k == [[Received("build") EXCEPT !.pull = pull]
                            EXCEPT !.pc = "answered", !.answer = "allow"]
        <3>1. /\ k \in Call /\ k.op = "build" /\ k.pull = pull
              /\ ~k.moved /\ k.pulled = None /\ k.decided = None
              /\ k.from = NoImage /\ k.param = None /\ k.ref = NoImage
              /\ k.pc = "answered" /\ k.verdict = "none" /\ k.answer = "allow"
            BY NewCallTyped, NewCallFields DEF Call, Received, Ops, Verdicts
        <3>2. Becomes(c, k) BY <2>2 DEF ReceiveBuild
        <3> QED BY <2>2, <3>1, <3>2
    <2> QED BY <2>1, <2>2
<1>2. Recorded(c, k, decisions, auditLog)
    BY <1>1 DEF Recorded, DecidedOps, PullOps, Running, Verdicts
<1>3. RecordsNothing BY DEF ReceiveBuild
<1> QED BY <1>1, <1>2, <1>3, NoImageAlone, FirstStep

LEMMA ReceiveOtherKeeps ==
    ASSUME PluginInvariant, NEW c \in Calls, ReceiveOther(c)
    PROVE  PluginInvariant'
<1> DEFINE k == [call[c] EXCEPT !.pc = "answered", !.answer = "allow"]
<1>1. call[c] = NewCall /\ call[c] \in Call
    BY Before DEF Recorded, ReceiveOther, At
<1>2. /\ k \in Call /\ k.pc = "answered" /\ k.op = "other"
      /\ k.answer = "allow" /\ ~k.pull
      /\ ~k.moved /\ k.pulled = None /\ k.decided = None
      /\ k.from = NoImage /\ k.param = None /\ k.ref = NoImage
    BY <1>1, NewCallFields DEF Call, Verdicts
<1>3. Becomes(c, k) /\ RecordsNothing BY DEF ReceiveOther, Answer
<1> HIDE DEF k
<1>4. Recorded(c, k, decisions, auditLog)
    BY <1>2 DEF Recorded, DecidedOps, PullOps, Running
<1> QED BY <1>2, <1>3, <1>4, NoImageAlone, FirstStep

LEMMA EngineDecidesKeeps ==
    ASSUME PluginInvariant, NEW c \in Calls, EngineDecides(c)
    PROVE  PluginInvariant'
<1>0. /\ call[c].pc = "engine" /\ Parses(call[c].ref) /\ RecordsNothing
    BY DEF EngineDecides, At
<1>1. PICK v \in Verdicts, d \in {DigestOf(Subject(call[c].ref)), None} :
          Becomes(c, [call[c] EXCEPT !.pc = "record", !.decided = d, !.verdict = v])
    BY DEF EngineDecides
<1> DEFINE k == [call[c] EXCEPT !.pc = "record", !.decided = d, !.verdict = v]
<1>2. /\ call[c] \in Call /\ call[c].op \in DecidedOps /\ ~call[c].pull
      /\ call[c].answer = "none" /\ ~call[c].moved /\ call[c].pulled = None
      /\ call[c].ref = CombineImageAndTag(call[c].from, call[c].param)
    BY <1>0, Before DEF Recorded, SameImage, Running, DecidedOps, PullOps
<1>3. d \in Digests \cup {None}
    <2>1. Subject(call[c].ref) \in Tags \cup Digests
        <3>1. call[c].ref \in [tag : Params, digest : Digests \cup {None}]
            BY <1>2 DEF Call
        <3> QED BY <3>1, LatestAssumption DEF Subject, Params
    <2> QED BY <2>1, <1>1 DEF DigestOf, PluginInvariant, Types
<1>4. k \in Call BY <1>2, <1>3 DEF Call, Running
<1>5. /\ k.pc = "record" /\ k.verdict = v /\ k.decided = d
      /\ k.op = call[c].op /\ ~k.pull /\ k.ref = call[c].ref
      /\ k.pulled = None /\ ~k.moved /\ k.answer = "none"
      /\ k.from = call[c].from /\ k.param = call[c].param
    BY <1>2 DEF Call
<1> HIDE DEF k
<1>6. Recorded(c, k, decisions, auditLog) BY <1>5 DEF Recorded, Running
<1>7. SameImage(k, registry) /\ PulledSo(k)
    BY <1>0, <1>1, <1>2, <1>5 DEF SameImage, PulledSo, DigestOf, Pointed
<1>8. /\ decisions' = decisions /\ auditLog' = auditLog
      /\ auditLog' \subseteq decisions'
    BY <1>0, Before DEF RecordsNothing
<1>9. Becomes(c, k) BY <1>1 DEF k
<1> QED BY <1>4, <1>6, <1>7, <1>8, <1>9, OneCallMoves

LEMMA RecordDecisionKeeps ==
    ASSUME PluginInvariant, NEW c \in Calls, RecordDecision(c)
    PROVE  PluginInvariant'
<1> DEFINE k == [call[c] EXCEPT !.pc = "audit"]
<1>1. /\ call[c] \in Call /\ call[c].pc = "record"
      /\ call[c].answer = "none" /\ call[c].pulled = None
    BY Before DEF RecordDecision, At, Recorded, SameImage, Running
<1>2. /\ k \in Call /\ k.pc = "audit" /\ k.answer = "none"
      /\ k.op = call[c].op /\ k.pull = call[c].pull /\ k.ref = call[c].ref
      /\ k.from = call[c].from /\ k.param = call[c].param
      /\ k.pulled = None /\ k.moved = call[c].moved
      /\ k.decided = call[c].decided /\ k.verdict = call[c].verdict
    BY <1>1 DEF Call, Running
<1>3. /\ Becomes(c, k) /\ auditLog' = auditLog
      /\ decisions' = decisions \cup {<<c, call[c].verdict>>}
    BY DEF RecordDecision
<1> HIDE DEF k
<1>4. Recorded(c, k, decisions', auditLog')
    BY <1>1, <1>2, <1>3, Before DEF Recorded, Running
<1>5. SameImage(k, registry) /\ PulledSo(k)
    BY <1>1, <1>2, Before DEF SameImage, PulledSo
<1>6. auditLog' \subseteq decisions' BY <1>3, Before
<1> QED BY <1>2, <1>3, <1>4, <1>5, <1>6, OneCallMoves

LEMMA AuditDecisionKeeps ==
    ASSUME PluginInvariant, NEW c \in Calls, AuditDecision(c)
    PROVE  PluginInvariant'
<1> DEFINE v == call[c].verdict
           k == [call[c] EXCEPT !.pc = "answered", !.answer = v]
<1>1. /\ call[c] \in Call /\ call[c].pc = "audit" /\ v \in Verdicts
      /\ call[c].pull => v = "deny"
      /\ <<c, v>> \in decisions /\ call[c].pulled = None
      /\ call[c].pull => call[c].op = "build"
    BY Before DEF AuditDecision, At, Recorded, SameImage, Running
<1>2. /\ k \in Call /\ k.pc = "answered" /\ k.answer = v
      /\ k.op = call[c].op /\ k.pull = call[c].pull /\ k.ref = call[c].ref
      /\ k.from = call[c].from /\ k.param = call[c].param
      /\ k.pulled = None /\ k.moved = call[c].moved
      /\ k.decided = call[c].decided
    BY <1>1 DEF Call, Running
<1>3. /\ Becomes(c, k) /\ decisions' = decisions
      /\ auditLog' = auditLog \cup Event(c)
    BY DEF AuditDecision, Answer
<1> HIDE DEF k
<1>4. Told(c, v, decisions', auditLog') BY <1>1, <1>3 DEF Told, Event
<1>5. Recorded(c, k, decisions', auditLog')
    BY <1>1, <1>2, <1>4 DEF Recorded, Running, Verdicts
<1>6. SameImage(k, registry) /\ PulledSo(k)
    BY <1>1, <1>2, Before DEF SameImage, PulledSo
<1>7. auditLog \subseteq auditLog' /\ auditLog' \subseteq decisions'
    BY <1>1, <1>3, Before DEF Event
<1> QED BY <1>2, <1>3, <1>5, <1>6, <1>7, OneCallMoves

(* Of the one name in a request plugin and daemon make the same image.      *)
LEMMA OneName ==
    ASSUME NEW k \in Call, NEW n \in Names(k), Names(k) = {n},
           k.ref = CombineImageAndTag(k.from, k.param), Parses(k.ref)
    PROVE  Subject(k.ref) = n
<1>1. /\ k.from \in Images /\ k.param \in Params BY DEF Call
<1>2. CASE k.from.digest # None
    BY <1>1, <1>2 DEF Names, CombineImageAndTag, Subject
<1>3. CASE k.from.digest = None /\ k.from.tag # None
    BY <1>1, <1>3 DEF Names, CombineImageAndTag, Subject
<1>4. CASE k.from.digest = None /\ k.from.tag = None
    <2>1. k.param = n /\ n # None BY <1>4 DEF Names
    <2>2. k.ref = [k.from EXCEPT !.tag = n]
        BY <1>4, <2>1 DEF CombineImageAndTag
    <2>3. k.ref.digest = None /\ k.ref.tag = n
        BY <1>1, <1>4, <2>2 DEF Images
    <2> QED BY <2>1, <2>3 DEF Subject
<1> QED BY <1>2, <1>3, <1>4

LEMMA DaemonRunsKeeps ==
    ASSUME PluginInvariant, NEW c \in Calls, DaemonRuns(c)
    PROVE  PluginInvariant'
<1> DEFINE names == Names(call[c])
           pulls == {DigestOf(n) : n \in IF names = {} THEN Tags ELSE names}
<1>1. PICK d \in IF call[c].op \in PullOps THEN pulls ELSE {None} :
          Becomes(c, [call[c] EXCEPT !.pc = "ran", !.pulled = d])
    BY DEF DaemonRuns
<1> DEFINE k == [call[c] EXCEPT !.pc = "ran", !.pulled = d]
<1>2. /\ call[c] \in Call /\ call[c].pc = "answered" /\ call[c].answer = "allow"
      /\ RecordsNothing
    BY Before DEF DaemonRuns, At
<1>3. d \in Digests \cup {None}
    <2>1. names \subseteq Tags \cup Digests
        <3>1. call[c].from \in Images /\ call[c].param \in Params
            BY <1>2 DEF Call
        <3> QED BY <3>1 DEF Names, Images, Params
    <2> QED BY <1>1, <2>1 DEF DigestOf, PluginInvariant, Types
<1>4. k \in Call BY <1>2, <1>3 DEF Call
<1>5. /\ k.pc = "ran" /\ k.answer = "allow" /\ k.pulled = d
      /\ k.op = call[c].op /\ k.pull = call[c].pull /\ k.ref = call[c].ref
      /\ k.decided = call[c].decided /\ k.moved = call[c].moved
      /\ k.from = call[c].from /\ k.param = call[c].param
    BY <1>2 DEF Call
<1>6. Becomes(c, k) BY <1>1
<1> HIDE DEF k
<1>7. Recorded(c, k, decisions, auditLog)
    BY <1>2, <1>5, Before DEF Recorded, Running
<1>8. SameImage(k, registry) BY <1>2, <1>5, Before DEF SameImage
<1>9. PulledSo(k)
    <2> SUFFICES ASSUME NEW n \in Names(k), Names(k) = {n},
                        k.pulled # None, k.decided # None, ~k.moved
                 PROVE  k.pulled = k.decided
        BY DEF PulledSo
    <2>1. names = {n} BY <1>5 DEF Names
    <2>2. d = DigestOf(n)
        <3>1. d \in pulls BY <1>1, <1>5
        <3> QED BY <2>1, <3>1
    <2>3. /\ call[c].ref = CombineImageAndTag(call[c].from, call[c].param)
          /\ Parses(call[c].ref)
          /\ call[c].decided = Pointed(Subject(call[c].ref), registry)
        BY <1>2, <1>5, Before DEF SameImage
    <2>4. Subject(call[c].ref) = n BY <1>2, <2>1, <2>3, OneName
    <2> QED BY <1>5, <2>2, <2>3, <2>4 DEF DigestOf, Pointed
<1>10. /\ decisions' = decisions /\ auditLog' = auditLog
       /\ auditLog' \subseteq decisions'
    BY <1>2, Before DEF RecordsNothing
<1> QED BY <1>4, <1>6, <1>7, <1>8, <1>9, <1>10, OneCallMoves

(* The history field of a request says nothing of the others.               *)
LEMMA MovedAlone ==
    ASSUME NEW k \in Call, NEW m
    PROVE  LET k2 == [k EXCEPT !.moved = m]
           IN  /\ k2.pc = k.pc /\ k2.op = k.op /\ k2.pull = k.pull
               /\ k2.ref = k.ref /\ k2.from = k.from /\ k2.param = k.param
               /\ k2.decided = k.decided /\ k2.verdict = k.verdict
               /\ k2.pulled = k.pulled /\ k2.answer = k.answer
BY DEF Call

(* A tag that moves is noticed by the calls that were decided and not yet   *)
(* run.                                                                     *)
LEMMA MoveTagKeeps ==
    ASSUME PluginInvariant, NEW tag \in Tags, NEW digest \in Digests,
           MoveTag(tag, digest)
    PROVE  PluginInvariant'
<1>1. /\ registry' = [registry EXCEPT ![tag] = digest]
      /\ auditPath' = auditPath
      /\ decisions' = decisions /\ auditLog' = auditLog
    BY DEF MoveTag, RecordsNothing
<1>2. ASSUME NEW c \in Calls
      PROVE  /\ call'[c] \in Call
             /\ call'[c] = [call[c] EXCEPT !.moved = call'[c].moved]
             /\ call'[c].moved = (call[c].moved
                    \/ (/\ Subject(call[c].ref) = tag /\ call[c].decided # None
                        /\ call[c].pc # "ran"))
    BY Before DEF MoveTag, Call, At
<1>3. ASSUME NEW c \in Calls
      PROVE  /\ call'[c].pc = call[c].pc /\ call'[c].op = call[c].op
             /\ call'[c].pull = call[c].pull /\ call'[c].ref = call[c].ref
             /\ call'[c].from = call[c].from /\ call'[c].param = call[c].param
             /\ call'[c].decided = call[c].decided
             /\ call'[c].verdict = call[c].verdict
             /\ call'[c].pulled = call[c].pulled
             /\ call'[c].answer = call[c].answer
    <2>1. call[c] \in Call BY Before
    <2> DEFINE m == call'[c].moved
    <2>2. call'[c] = [call[c] EXCEPT !.moved = m] BY <1>2
    <2> HIDE DEF m
    <2> QED BY <2>1, <2>2, MovedAlone
<1>4. Types'
    <2>1. call' \in [Calls -> Call] BY <1>2 DEF MoveTag
    <2> QED BY <1>1, <2>1 DEF PluginInvariant, Types
<1>5. ASSUME NEW c \in Calls
      PROVE  Recorded(c, call[c], decisions, auditLog)'
    <2>1. ASSUME call[c] = NewCall
          PROVE  call'[c] = NewCall
        <3>1. call'[c].moved = FALSE BY <1>2, <2>1, NewCallFields
        <3>2. call'[c] = [NewCall EXCEPT !.moved = FALSE] BY <1>2, <2>1, <3>1
        <3> QED BY <3>2 DEF NewCall
    <2> QED BY <1>1, <1>3, <2>1, Before DEF Recorded, Told
<1>6. ASSUME NEW c \in Calls
      PROVE  (SameImage(call[c], registry) /\ PulledSo(call[c]))'
    <2>1. SameImage(call[c], registry) /\ PulledSo(call[c]) BY Before
    <2>2. Subject(call[c].ref) # tag =>
              Pointed(Subject(call[c].ref), registry') =
              Pointed(Subject(call[c].ref), registry)
        <3>1. call[c].ref \in [tag : Params, digest : Digests \cup {None}]
            BY Before DEF Call
        <3>2. Subject(call[c].ref) \in Tags \cup Digests
            BY <3>1, LatestAssumption DEF Subject, Params
        <3> QED BY <1>1, <3>2 DEF Pointed, PluginInvariant, Types
    <2>3. SameImage(call'[c], registry')
        BY <1>2, <1>3, <2>1, <2>2 DEF SameImage
    <2>4. PulledSo(call'[c])
        BY <1>2, <1>3, <2>1 DEF PulledSo, Names
    <2> QED BY <2>3, <2>4 DEF SameImage, PulledSo
<1>7. (auditLog \subseteq decisions)' BY <1>1 DEF PluginInvariant, AllRecorded
<1> QED BY <1>4, <1>5, <1>6, <1>7 DEF PluginInvariant, AllRecorded, AllSameImage

-----------------------------------------------------------------------------
LEMMA PluginInductive == PluginInvariant /\ [Next]_vars => PluginInvariant'
<1> SUFFICES ASSUME PluginInvariant, [Next]_vars
             PROVE  PluginInvariant'
    OBVIOUS
<1>1. ASSUME NEW c \in Calls, Handle(c)
      PROVE  PluginInvariant'
    <2>1. CASE \E op \in DecidedOps, from \in Images, param \in Params :
                  ReceiveDecided(c, op, from, param)
        BY <2>1, ReceiveDecidedKeeps
    <2>2. CASE \E op \in Ops : ReceiveMalformed(c, op)
        BY <2>2, ReceiveMalformedKeeps
    <2>3. CASE \E pull \in BOOLEAN : ReceiveBuild(c, pull)
        BY <2>3, ReceiveBuildKeeps
    <2>4. CASE ReceiveOther(c) BY <2>4, ReceiveOtherKeeps
    <2>5. CASE EngineDecides(c) BY <2>5, EngineDecidesKeeps
    <2>6. CASE EngineFails(c)
        BY <2>6, Refused DEF EngineFails, At, Running, RecordsNothing
    <2>7. CASE RecordDecision(c) BY <2>7, RecordDecisionKeeps
    <2>8. CASE AuditDecision(c) BY <2>8, AuditDecisionKeeps
    <2>9. CASE RecordingFails(c)
        BY <2>9, Refused DEF RecordingFails, At, Running, RecordsNothing
    <2>10. CASE Die(c) BY <2>10, Refused DEF Die
    <2> QED
        BY <1>1, <2>1, <2>2, <2>3, <2>4, <2>5, <2>6, <2>7, <2>8, <2>9, <2>10
           DEF Handle
<1>2. CASE \E c \in Calls : DaemonRuns(c) BY <1>2, DaemonRunsKeeps
<1>3. CASE \E t \in Tags, d \in Digests : MoveTag(t, d) BY <1>3, MoveTagKeeps
<1>4. CASE UNCHANGED vars
    BY <1>4 DEF vars, PluginInvariant, Types, AllRecorded, AllSameImage,
                Recorded, Told, SameImage, PulledSo
<1> QED BY <1>1, <1>2, <1>3, <1>4 DEF Next

LEMMA PluginInvariantHolds == Spec => []PluginInvariant
BY PluginInitially, PluginInductive, PTL DEF Spec

(* What the daemon runs was allowed and is in the table, and in the audit   *)
(* log if there is one; no build that pulls is among it                     *)
(* (handleAuthZReq, authz/server.go:100-145; record, engine.go:285-324;     *)
(* logger.go:37).                                                           *)
THEOREM EveryRunAccounted == Spec => []RunsAreAccounted
<1>1. PluginInvariant => RunsAreAccounted
    BY DEF PluginInvariant, AllRecorded, Recorded, Told, RunsAreAccounted, At
<1> QED BY <1>1, PluginInvariantHolds, PTL

(* A refusal with a reason is in the table, and in the audit log if there is*)
(* one; the log never runs ahead of the table (authz/server.go:116-139,     *)
(* 218-245; logger.go:37).                                                  *)
THEOREM RefusalsRecorded == Spec => []ReasonedRefusalsRecorded
<1>1. PluginInvariant => ReasonedRefusalsRecorded
    BY DEF PluginInvariant, AllRecorded, Recorded, Told, ReasonedRefusalsRecorded
<1> QED BY <1>1, PluginInvariantHolds, PTL

(* Whatever the daemon takes from a request that names the image once, it   *)
(* pulls the digest that was decided on, or the tag has moved since         *)
(* (combineImageAndTag, authz/server.go:329).                               *)
THEOREM PullsWhatWasDecided == Spec => []PulledAsDecided
<1>1. PluginInvariant => PulledAsDecided
    BY DEF PluginInvariant, AllSameImage, PulledSo, PulledAsDecided
<1> QED BY <1>1, PluginInvariantHolds, PTL
=============================================================================
