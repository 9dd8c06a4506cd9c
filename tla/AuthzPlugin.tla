----------------------------- MODULE AuthzPlugin -----------------------------
(***************************************************************************)
(* The Docker authorization plugin (internal/authz/server.go) between the   *)
(* Docker daemon and the decision engine.  The daemon asks before it runs   *)
(* an API request and runs it if the answer allows it.                      *)
(*                                                                         *)
(* The engine is seen from outside: it decides on the digest an image has   *)
(* when asked or on the image unresolved, records what it decided, and may  *)
(* fail at every step.  The daemon is no part of the repository and is      *)
(* assumed to do no more than to pull something the request names.          *)
(***************************************************************************)
EXTENDS Integers

CONSTANTS
    Tags,         \* tags of one repository
    Latest,       \* the tag of a reference that names none
    Digests,
    Calls,        \* API requests
    None          \* no tag, no digest

ASSUME LatestAssumption == Latest \in Tags
ASSUME NamesAssumption == Tags \cap Digests = {} /\ None \notin Tags \cup Digests

VARIABLES
    auditPath,    \* whether audit.path names a file
    registry,     \* the digest each tag points to
    call,         \* one API request: the handler's locals, then the daemon's
    decisions,    \* pull_decisions rows, <<call, verdict>>
    auditLog      \* audit events, <<call, verdict>>

vars == <<auditPath, registry, call, decisions, auditLog>>

(* What inspectRequest tells apart.  "other" is any other path or method.   *)
PullOps == {"images/create", "services/create", "services/update"}
DecidedOps == PullOps \cup {"containers/create"}
Ops == DecidedOps \cup {"build", "other"}

(* The image of fromImage or of the body, and what the tag parameter of     *)
(* images/create may hold.                                                  *)
Images == [tag : Tags \cup {None}, digest : Digests \cup {None}]
Params == Tags \cup Digests \cup {None}
NoImage == [tag |-> None, digest |-> None]

Verdicts == {"allow", "deny"}
Running == {"engine", "record", "audit"}
Call ==
    [pc : {"new", "answered", "ran"} \cup Running, op : Ops, pull : BOOLEAN,
     from : Images, param : Params,
     ref : [tag : Params, digest : Digests \cup {None}],  \* the engine is asked about
     decided : Digests \cup {None},     \* None: a decision on no digest
     verdict : Verdicts \cup {"none"},
     answer : Verdicts \cup {"none", "error", "lost"},
     pulled : Digests \cup {None},
     moved : BOOLEAN]             \* history: the tag moved since the decision

NewCall ==
    [pc |-> "new", op |-> "other", pull |-> FALSE, from |-> NoImage,
     param |-> None, ref |-> NoImage, decided |-> None, verdict |-> "none",
     answer |-> "none", pulled |-> None, moved |-> FALSE]

Init ==
    /\ auditPath \in BOOLEAN
    /\ registry \in [Tags -> Digests]
    /\ call = [c \in Calls |-> NewCall]
    /\ decisions = {} /\ auditLog = {}

At(c, step) == call[c].pc = step
Becomes(c, k) == call' = [call EXCEPT ![c] = k] /\ UNCHANGED <<auditPath, registry>>
Answer(c, value) ==
    Becomes(c, [call[c] EXCEPT !.pc = "answered", !.answer = value])
RecordsNothing == UNCHANGED <<decisions, auditLog>>

-----------------------------------------------------------------------------
(* handleAuthZReq, after inspectRequest.                                    *)
Received(op) == [NewCall EXCEPT !.op = op]

(* Faulty form of CombineImageAndTag: the tag parameter is not read.        *)
ImageAlone(from, param) == from

(* An image that has a tag or a digest is taken as it is; behind any other  *)
(* comes the tag parameter, be it a tag or not.                             *)
CombineImageAndTag(from, param) ==
    IF param = None \/ from.digest # None \/ from.tag # None THEN from
    ELSE [from EXCEPT !.tag = param]

ReceiveDecided(c, op, from, param) ==
    /\ At(c, "new")
    /\ op \in DecidedOps
    /\ param # None => op = "images/create"
    /\ Becomes(c, [Received(op) EXCEPT !.pc = "engine", !.from = from,
                      !.param = param, !.ref = CombineImageAndTag(from, param)])
    /\ RecordsNothing

(* The request, its URI or its body does not parse, or names no image.      *)
ReceiveMalformed(c, op) ==
    /\ At(c, "new")
    /\ Becomes(c, [Received(op) EXCEPT !.pc = "answered", !.answer = "error"])
    /\ RecordsNothing

(* Faulty form of ReceiveBuild: the refusal is not recorded.                *)
RefuseBuild(c, pull) ==
    /\ At(c, "new")
    /\ Becomes(c, [Received("build") EXCEPT !.pc = "answered", !.pull = pull,
                      !.answer = IF pull THEN "deny" ELSE "allow"])
    /\ RecordsNothing

(* docker build --pull is refused, and that is to be recorded.              *)
ReceiveBuild(c, pull) ==
    /\ At(c, "new")
    /\ LET k == [Received("build") EXCEPT !.pull = pull]
       IN  IF pull THEN Becomes(c, [k EXCEPT !.pc = "record", !.verdict = "deny"])
           ELSE Becomes(c, [k EXCEPT !.pc = "answered", !.answer = "allow"])
    /\ RecordsNothing

ReceiveOther(c) ==
    /\ At(c, "new")
    /\ Answer(c, "allow")
    /\ RecordsNothing

-----------------------------------------------------------------------------
(* What a reference is about.  ParseReference takes no digest for a tag; a  *)
(* digest in its place counts, and the tag beside it does not.              *)
Parses(ref) == ref.tag \notin Digests
Subject(ref) ==
    IF ref.digest # None THEN ref.digest
    ELSE IF ref.tag # None THEN ref.tag ELSE Latest
DigestOf(name) == IF name \in Digests THEN name ELSE registry[name]

(* Engine.Decide: a pinned digest is decided on as it is; a tag is resolved,*)
(* or decided on without, by policy or because the registry failed.         *)
EngineDecides(c) ==
    /\ At(c, "engine") /\ Parses(call[c].ref)
    /\ \E v \in Verdicts, d \in {DigestOf(Subject(call[c].ref)), None} :
          /\ d = None => call[c].ref.digest = None
          /\ Becomes(c, [call[c] EXCEPT !.pc = "record", !.decided = d, !.verdict = v])
    /\ RecordsNothing

(* The reference does not parse, or the database cannot be read.            *)
EngineFails(c) ==
    /\ At(c, "engine")
    /\ Answer(c, "error")
    /\ RecordsNothing

(* Engine.record and recordSyntheticDeny: the row, then the event, which is *)
(* written if there is a file for it; then the plugin answers.              *)
RecordDecision(c) ==
    /\ At(c, "record")
    /\ decisions' = decisions \cup {<<c, call[c].verdict>>}
    /\ Becomes(c, [call[c] EXCEPT !.pc = "audit"])
    /\ UNCHANGED auditLog

Event(c) == IF auditPath THEN {<<c, call[c].verdict>>} ELSE {}

(* Faulty form of AuditDecision: an error of the audit log is ignored.      *)
AuditDecisionOrNot(c) ==
    /\ At(c, "audit")
    /\ auditLog' \in {auditLog, auditLog \cup Event(c)}
    /\ Answer(c, call[c].verdict)
    /\ UNCHANGED decisions

AuditDecision(c) ==
    /\ At(c, "audit")
    /\ auditLog' = auditLog \cup Event(c)
    /\ Answer(c, call[c].verdict)
    /\ UNCHANGED decisions

RecordingFails(c) ==
    /\ At(c, "record") \/ (At(c, "audit") /\ auditPath)
    /\ Answer(c, "error")
    /\ RecordsNothing

(* The plugin dies, perhaps with the event written: the daemon gets no      *)
(* answer and refuses the request.                                          *)
Die(c) ==
    /\ call[c].pc \in Running
    /\ Answer(c, "lost")
    /\ \/ UNCHANGED auditLog
       \/ /\ At(c, "audit")
          /\ auditLog' = auditLog \cup Event(c)
    /\ UNCHANGED decisions

-----------------------------------------------------------------------------
(* The daemon runs what was allowed.  A pull takes any of the names in the  *)
(* request, any tag where there is none, and resolves it again.             *)
Names(k) == {k.from.tag, k.from.digest, k.param} \ {None}

DaemonRuns(c) ==
    /\ At(c, "answered") /\ call[c].answer = "allow"
    /\ LET names == Names(call[c])
           pulls == {DigestOf(n) : n \in IF names = {} THEN Tags ELSE names}
       IN  \E d \in IF call[c].op \in PullOps THEN pulls ELSE {None} :
              Becomes(c, [call[c] EXCEPT !.pc = "ran", !.pulled = d])
    /\ RecordsNothing

MoveTag(tag, digest) ==
    /\ registry[tag] # digest
    /\ registry' = [registry EXCEPT ![tag] = digest]
    /\ call' = [c \in Calls |->
                  IF Subject(call[c].ref) = tag /\ call[c].decided # None
                  THEN [call[c] EXCEPT !.moved = @ \/ ~At(c, "ran")] ELSE call[c]]
    /\ UNCHANGED auditPath /\ RecordsNothing

Handle(c) ==
    \/ \E op \in DecidedOps, from \in Images, param \in Params :
          ReceiveDecided(c, op, from, param)
    \/ \E op \in Ops : ReceiveMalformed(c, op)
    \/ \E pull \in BOOLEAN : ReceiveBuild(c, pull)
    \/ ReceiveOther(c)
    \/ EngineDecides(c) \/ EngineFails(c)
    \/ RecordDecision(c) \/ AuditDecision(c) \/ RecordingFails(c)
    \/ Die(c)

Next ==
    \/ \E c \in Calls : Handle(c) \/ DaemonRuns(c)
    \/ \E t \in Tags, d \in Digests : MoveTag(t, d)

Spec == Init /\ [][Next]_vars

-----------------------------------------------------------------------------
(* What the daemon ran of the gated operations, the engine allowed for that *)
(* request, in the table and, where audit.path names a file, in the audit   *)
(* log; a build that pulls is never run, whether or not its refusal could   *)
(* be recorded.                                                             *)
RunsAreAccounted ==
    \A c \in Calls : At(c, "ran") =>
        /\ call[c].op \in DecidedOps =>
              /\ <<c, "allow">> \in decisions
              /\ auditPath => <<c, "allow">> \in auditLog
        /\ ~call[c].pull

(* A refusal that gives a reason, not an error, is in the table and, where  *)
(* audit.path names a file, in the audit log; the audit log never tells of  *)
(* a decision the table lacks.                                              *)
ReasonedRefusalsRecorded ==
    /\ \A c \in Calls : call[c].answer = "deny" =>
          /\ <<c, "deny">> \in decisions
          /\ auditPath => <<c, "deny">> \in auditLog
    /\ auditLog \subseteq decisions

(* Where a request names the image once, in its name or beside it, by tag   *)
(* or by digest, what the daemon pulls is the digest the engine allowed,    *)
(* unless the tag moved after the decision or the engine allowed it without *)
(* looking at a digest.  A request that names the image twice, or not at    *)
(* all, is answered for one reading of it, and the daemon may have another. *)
PulledAsDecided ==
    \A c \in Calls :
        LET k == call[c]
        IN  /\ \E n \in Names(k) : Names(k) = {n}
            /\ k.pulled # None /\ k.decided # None /\ ~k.moved
            => k.pulled = k.decided
=============================================================================
