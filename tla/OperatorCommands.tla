-------------------------- MODULE OperatorCommands --------------------------
(***************************************************************************)
(* ribat approve, ribat bypass and ribat freeze as processes of their own   *)
(* beside running pull decisions (cmd/ribat/main.go): read the clock, write *)
(* the row, read it back, append an audit event, exit.  Each may fail or be *)
(* killed after any of these, and what it did stays.                        *)
(*                                                                         *)
(* The audit log is a file of lines here.  Decisions and commands append to *)
(* it; an append that fails may have written a part of its line, and what   *)
(* is appended next goes on in that line.  ribat audit reads the file.      *)
(* The registry stands still: module Quarantine moves tags.                 *)
(***************************************************************************)
EXTENDS Quarantine, Sequences
LOCAL INSTANCE FiniteSetsExt

CONSTANTS
    Commands,    \* runs of approve, bypass and freeze
    LastStart,   \* bound: no command starts later
    MaxFaults    \* bound: commands and calls that fail in the middle

(* Runs of commands and calls have names of their own.                      *)
ASSUME CommandsAssumption ==
    Commands \cap (Requests \cup {"none"}) = {} /\ Lifetimes # {}

VARIABLES
    cmd,     \* cmd[o]: the options and local variables of command o
    file,    \* the lines of the audit log
    told     \* history: told[r]: commands that exited 0 before call r began

commandVars == <<cmd, file, told>>
allVars == <<vars, commandVars>>

Kinds == {"approval", "bypass", "freeze"}

(* audit: whether the configuration it runs with sets audit.path.           *)
Command ==
    [pc : {"new", "write", "log", "done"}, kind : Kinds,
     tag : AnyTag, digest : AnyDigest, ttl : Lifetimes, now : Nat,
     audit : BOOLEAN, exit : {"none", "0", "1", "2"}]

NewCommand ==
    [pc |-> "new", kind |-> "freeze", tag |-> NoTag, digest |-> NoDigest,
     ttl |-> CHOOSE l \in Lifetimes : TRUE, now |-> 0, audit |-> FALSE,
     exit |-> "none"]

(* A line that was cut short has no end, so the next event lands behind it. *)
Line ==
    [text : {"event", "cut", "garbage"}, by : Requests \cup Commands \cup {"none"},
     kind : Kinds \cup {"decision", "none"}, tag : AnyTag, digest : AnyDigest,
     at : Nat]
Unreadable(how) ==
    [text |-> how, by |-> "none", kind |-> "none", tag |-> NoTag,
     digest |-> NoDigest, at |-> 0]

CutShort(lines) == lines # <<>> /\ lines[Len(lines)].text = "cut"

(* One write at the end of the file.                                        *)
Appended(lines, event) ==
    IF CutShort(lines)
    THEN [lines EXCEPT ![Len(lines)] = Unreadable("garbage")]
    ELSE Append(lines, event)

(* What a failed or interrupted one leaves: nothing, a part, or all.        *)
AppendFails(lines, event) ==
    {lines, IF CutShort(lines) THEN lines ELSE Append(lines, Unreadable("cut")),
     Appended(lines, event)}

(* Logger.Record does nothing where no path is configured, and succeeds.    *)
Recorded(audit, lines, event) ==
    IF audit THEN Appended(lines, event) ELSE lines
RecordFails(audit, lines, event) ==
    IF audit THEN AppendFails(lines, event) ELSE {lines}

DecisionEvent(r) ==
    [text |-> "event", by |-> r, kind |-> "decision", tag |-> job[r].tag,
     digest |-> job[r].digest, at |-> job[r].now]

(* logOperation: a bypass has no digest.                                    *)
OperationEvent(o) ==
    [text |-> "event", by |-> o, kind |-> cmd[o].kind, tag |-> cmd[o].tag,
     digest |-> cmd[o].digest, at |-> cmd[o].now]

CommandsInit ==
    /\ Init
    /\ cmd = [o \in Commands |-> NewCommand]
    /\ file = <<>>
    /\ told = [r \in Requests |-> {}]

-----------------------------------------------------------------------------
(* Faulty form of Accepts: an approval need not name a digest.              *)
AcceptsTagApproval(kind, tag, digest, ttl) ==
    /\ kind = "bypass" => digest = NoDigest /\ ttl # Never
    /\ kind # "bypass" => tag # NoTag

(* The rest of parseOperationArgs and of the checks before the store opens: *)
(* an approval names a tag and a digest, a bypass a tag and a lifetime but  *)
(* no digest, a freeze a tag.                                               *)
Accepts(kind, tag, digest, ttl) ==
    /\ kind = "approval" => tag # NoTag /\ digest # NoDigest
    /\ kind = "bypass" => digest = NoDigest /\ ttl # Never
    /\ kind = "freeze" => tag # NoTag

MayFail ==
    Cardinality({o \in Commands : cmd[o].exit = "1"})
    + Cardinality({r \in Requests : job[r].answer = "error"}) < MaxFaults

Becoming(o, c) == cmd' = [cmd EXCEPT ![o] = c]
Exit(o, code) == Becoming(o, [cmd[o] EXCEPT !.pc = "done", !.exit = code])
GiveUp(o, code) ==   \* it has done nothing
    Becoming(o, [NewCommand EXCEPT !.pc = "done", !.exit = code])
Continue(o, step) == Becoming(o, [cmd[o] EXCEPT !.pc = step])

StartCommand(o, kind, tag, digest, ttl, audit) ==
    /\ cmd[o].pc = "new" /\ clock <= LastStart
    /\ digest = NoDigest => tag # NoTag
    /\ IF Accepts(kind, tag, digest, ttl)
       THEN Becoming(o, [NewCommand EXCEPT !.pc = "write", !.kind = kind,
                            !.tag = tag, !.digest = digest, !.ttl = ttl,
                            !.audit = audit, !.now = clock])
       ELSE GiveUp(o, "2")
    /\ UNCHANGED <<vars, file, told>>

(* Another usage error: no reason, no reference, a bad flag.                *)
UsageError(o) ==
    /\ cmd[o].pc = "new"
    /\ GiveUp(o, "2")
    /\ UNCHANGED <<vars, file, told>>

(* openConfiguredState or the INSERT fails, or the process is killed.       *)
CommandFails(o) ==
    /\ cmd[o].pc \in {"new", "write"}
    /\ MayFail
    /\ GiveUp(o, "1")
    /\ UNCHANGED <<vars, file, told>>

InsertOverride(o) ==
    LET c == cmd[o]
    IN  \/ c.kind = "approval" /\ ApproveDigest(c.tag, c.digest, c.now, c.ttl)
        \/ c.kind = "freeze" /\ FreezeTag(c.tag, c.digest, c.now, c.ttl)
        \/ c.kind = "bypass" /\ BypassTag(c.tag, c.now, c.ttl)

(* Faulty form of WriteOverride: an INSERT that fails goes unnoticed.        *)
WriteOverrideUnchecked(o) ==
    /\ cmd[o].pc = "write"
    /\ InsertOverride(o) \/ UNCHANGED vars
    /\ Continue(o, "log")
    /\ UNCHANGED <<file, told>>

(* The INSERT commits; the row is then read back by its id.  If that fails, *)
(* or the process is killed, the row is in force all the same.              *)
WriteOverride(o) ==
    /\ cmd[o].pc = "write"
    /\ InsertOverride(o)
    /\ Continue(o, "log") \/ (MayFail /\ Exit(o, "1"))
    /\ UNCHANGED <<file, told>>

LogOperation(o) ==
    /\ cmd[o].pc = "log"
    /\ file' = Recorded(cmd[o].audit, file, OperationEvent(o))
    /\ Exit(o, "0")
    /\ UNCHANGED <<vars, told>>

(* The append fails, or the process is killed.                              *)
LogOperationFails(o) ==
    /\ cmd[o].pc = "log" /\ MayFail
    /\ file' \in RecordFails(cmd[o].audit, file, OperationEvent(o))
    /\ Exit(o, "1")
    /\ UNCHANGED <<vars, told>>

-----------------------------------------------------------------------------
Announced == {o \in Commands : cmd[o].exit = "0"}

BeginCall(r) ==
    /\ BeginAny(r)
    /\ told' = [told EXCEPT ![r] = Announced]
    /\ UNCHANGED <<cmd, file>>

(* The steps of a decision, with what they do to the file.  Nothing here    *)
(* tells a decision that is killed from one whose next call fails or, where *)
(* none can fail, from one that goes no further.                            *)
AuditDecision(r) ==
    /\ WriteAudit(r)
    /\ file' = Recorded(job[r].policy.audit, file, DecisionEvent(r))
    /\ UNCHANGED <<cmd, told>>

AuditDecisionFails(r) ==
    /\ At(r, "audit") /\ MayFail
    /\ CallFails(r)
    /\ file' \in RecordFails(job[r].policy.audit, file, DecisionEvent(r))
    /\ UNCHANGED <<cmd, told>>

DecideStep(r) ==
    /\ ~At(r, "audit")
    /\ Progress(r)
    /\ job'[r].answer = "error" => MayFail
    /\ UNCHANGED commandVars

RunCommand(o) ==
    \/ \E kind \in Kinds, tag \in AnyTag, digest \in AnyDigest, ttl \in Lifetimes,
          p \in Policies : StartCommand(o, kind, tag, digest, ttl, p.audit)
    \/ UsageError(o) \/ CommandFails(o)
    \/ WriteOverride(o) \/ LogOperation(o) \/ LogOperationFails(o)

CommandsNext ==
    \/ \E r \in Requests :
          BeginCall(r) \/ AuditDecision(r) \/ AuditDecisionFails(r) \/ DecideStep(r)
    \/ \E o \in Commands : RunCommand(o)
    \/ Tick /\ UNCHANGED commandVars

CommandsSpec == CommandsInit /\ [][CommandsNext]_allVars

-----------------------------------------------------------------------------
(* ribat audit --image tag@digest --since: the events of the tag, and of    *)
(* the digest if one is named, that are not older than the cutoff.          *)
Matches(event, tag, digest, cutoff) ==
    /\ event.tag = tag
    /\ digest # NoDigest => event.digest = digest
    /\ event.at >= cutoff

(* Faulty form of Audit: a line that cannot be parsed is passed over.       *)
AuditPassingOver(lines, tag, digest, cutoff) ==
    [exit |-> "0",
     printed |-> {lines[i] : i \in {i \in DOMAIN lines :
                      lines[i].text = "event" /\ Matches(lines[i], tag, digest, cutoff)}}]

(* runAudit prints matching events up to the first line it cannot parse.    *)
Audit(lines, tag, digest, cutoff) ==
    LET bad == {i \in DOMAIN lines : lines[i].text # "event"}
        end == IF bad = {} THEN Len(lines) ELSE Min(bad) - 1
    IN  [exit |-> IF bad = {} THEN "0" ELSE "1",
         printed |-> {lines[i] : i \in {i \in 1..end :
                         Matches(lines[i], tag, digest, cutoff)}}]

-----------------------------------------------------------------------------
(* The command's row, if it is one the decision j would honour.             *)
Covers(c, j) ==
    /\ c.tag = j.tag /\ c.digest \in {NoDigest, j.digest}
    /\ c.ttl = Never \/ Unix(c.now + c.ttl) > Unix(j.now)

(* Once ribat freeze has exited 0, no pull that begins before the freeze    *)
(* ends is allowed what it covers, whatever is approved or bypassed by then *)
(* or meanwhile.                                                            *)
AnnouncedFreezeRefuses ==
    \A r \in Requests : Admitted(r) /\ (Pinned(r) \/ Quarantined(r)) =>
        ~\E o \in told[r] : cmd[o].kind = "freeze" /\ Covers(cmd[o], job[r])

(* Once ribat approve or ribat bypass has exited 0, no undisturbed pull it  *)
(* covers is refused before it ends, unless a freeze is in force.           *)
AnnouncedOverrideAdmits ==
    \A r \in Requests :
        job[r].answer = "deny" /\ Quarantined(r) /\ ~job[r].disturbed =>
        \/ FreezeFor(freezes, job[r])
        \/ ~\E o \in told[r] :
              cmd[o].kind \in {"approval", "bypass"} /\ Covers(cmd[o], job[r])

(* The rows in force are those of commands that wrote them, and what a      *)
(* command says is so: exit 0, or an event of its own in the file, means    *)
(* its row is stored; exit 2 means it is not.                               *)
RowOf(c) ==
    [tag |-> c.tag, digest |-> c.digest, expiresAt |-> Expiry(c.now, c.ttl)]
StoredRows(kind) ==
    LET rows == [approval |-> approvals, freeze |-> freezes, bypass |-> bypasses]
    IN  {[tag |-> x.tag, expiresAt |-> x.expiresAt,
          digest |-> IF kind = "bypass" THEN NoDigest ELSE x.digest] :
            x \in rows[kind]}
Reported(o) == cmd[o].exit = "0" \/ \E i \in DOMAIN file : file[i].by = o

CommandsTruthful ==
    /\ \A o \in Commands :
          Reported(o) => RowOf(cmd[o]) \in StoredRows(cmd[o].kind)
    /\ \A kind \in Kinds : \A row \in StoredRows(kind) :
          \E o \in Commands :
              /\ cmd[o].kind = kind /\ RowOf(cmd[o]) = row
              /\ cmd[o].pc = "log" \/ cmd[o].exit \in {"0", "1"}

(* An audit that exits 0 told of every command that exited 0 and of every   *)
(* decision that was answered by a process that has the log configured,     *)
(* whatever was cut short or appended behind it, and in whatever order the  *)
(* events' times stand in the file.                                         *)
AuditTellsAll ==
    LET events == {OperationEvent(o) : o \in {o \in Announced : cmd[o].audit}} \cup
                 {DecisionEvent(r) : r \in {r \in Requests :
                      job[r].policy.audit /\ job[r].answer \in {"allow", "deny"}}}
    IN  \A e \in events, digest \in AnyDigest, cutoff \in 0..clock :
            LET audit == Audit(file, e.tag, digest, cutoff)
            IN  Matches(e, e.tag, digest, cutoff) /\ audit.exit = "0" =>
                    e \in audit.printed

CommandsTypeOK ==
    /\ TypeOK
    /\ cmd \in [Commands -> Command]
    /\ file \in Seq(Line)
    /\ told \in [Requests -> SUBSET Commands]
=============================================================================
