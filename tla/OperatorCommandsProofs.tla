----------------------- MODULE OperatorCommandsProofs -----------------------
(***************************************************************************)
(* Theorems about OperatorCommands: a command is a step of the operator of  *)
(* Quarantine, so what holds there holds beside commands; and what a        *)
(* command that exits 0 says is so, of the tables, of the decisions that    *)
(* follow and of the audit log.                                             *)
(***************************************************************************)
EXTENDS OperatorCommands, QuarantineGateProofs, SequenceTheorems

(* What a command has been checked for once it is past its options.         *)
Checked(c) ==
    /\ c.tag \in Tags
    /\ c.kind = "approval" => c.digest \in Digests
    /\ c.kind = "bypass" => c.digest = NoDigest /\ c.ttl # Never

CommandSound(c, time) ==
    /\ c.now <= time
    /\ c.exit # "none" <=> c.pc = "done"
    /\ c.pc \in {"write", "log"} \/ c.exit = "0" => Checked(c)

CommandsSound ==
    /\ cmd \in [Commands -> Command]
    /\ \A o \in Commands : CommandSound(cmd[o], clock)

USE DEF Becomes, At

-----------------------------------------------------------------------------
(* A step of a command.                                                     *)

LEMMA NewCommandType == NewCommand \in Command
<1>1. (CHOOSE l \in Lifetimes : TRUE) \in Lifetimes
  BY CommandsAssumption
<1> QED BY <1>1 DEF NewCommand, Command, Kinds, AnyTag, AnyDigest

(* A step of command o makes c of it and leaves the other commands alone.   *)
LEMMA BecomingOnly ==
    ASSUME CommandsSound, NEW o \in Commands, NEW c \in Command, Becoming(o, c)
    PROVE  /\ cmd' \in [Commands -> Command] /\ cmd'[o] = c
           /\ \A p \in Commands : p # o => cmd'[p] = cmd[p]
BY DEF CommandsSound, Becoming

(* n is the command c at step pc, with exit code code.                      *)
Further(n, c, pc, code) ==
    /\ n.pc = pc /\ n.exit = code /\ n.kind = c.kind /\ n.tag = c.tag
    /\ n.digest = c.digest /\ n.ttl = c.ttl /\ n.now = c.now /\ n.audit = c.audit

LEMMA ExitForms ==
    ASSUME CommandsSound, NEW o \in Commands, NEW code \in {"0", "1", "2"},
           Exit(o, code)
    PROVE  /\ cmd' \in [Commands -> Command]
           /\ Further(cmd'[o], cmd[o], "done", code)
           /\ \A p \in Commands : p # o => cmd'[p] = cmd[p]
<1> DEFINE n == [cmd[o] EXCEPT !.pc = "done", !.exit = code]
<1>1. n \in Command /\ Further(n, cmd[o], "done", code)
  BY DEF CommandsSound, Command, Further
<1> HIDE DEF n
<1> QED BY <1>1, BecomingOnly DEF Exit, n

LEMMA ContinueForms ==
    ASSUME CommandsSound, NEW o \in Commands, Continue(o, "log")
    PROVE  /\ cmd' \in [Commands -> Command]
           /\ Further(cmd'[o], cmd[o], "log", cmd[o].exit)
           /\ \A p \in Commands : p # o => cmd'[p] = cmd[p]
<1> DEFINE n == [cmd[o] EXCEPT !.pc = "log"]
<1>1. n \in Command /\ Further(n, cmd[o], "log", cmd[o].exit)
  BY DEF CommandsSound, Command, Further
<1> HIDE DEF n
<1> QED BY <1>1, BecomingOnly DEF Continue, n

LEMMA GiveUpForms ==
    ASSUME CommandsSound, NEW o \in Commands, NEW code \in {"1", "2"},
           GiveUp(o, code)
    PROVE  /\ cmd' \in [Commands -> Command]
           /\ cmd'[o].pc = "done" /\ cmd'[o].exit = code /\ cmd'[o].now = 0
           /\ \A p \in Commands : p # o => cmd'[p] = cmd[p]
<1> DEFINE n == [NewCommand EXCEPT !.pc = "done", !.exit = code]
<1>1. n \in Command /\ n.pc = "done" /\ n.exit = code /\ n.now = 0
  BY NewCommandType DEF Command, NewCommand
<1> HIDE DEF n
<1> QED BY <1>1, BecomingOnly DEF GiveUp, n

LEMMA StartForms ==
    ASSUME TypeOK, CommandsSound, NEW o \in Commands, NEW kind \in Kinds,
           NEW tag \in AnyTag, NEW digest \in AnyDigest, NEW ttl \in Lifetimes,
           NEW audit \in BOOLEAN, StartCommand(o, kind, tag, digest, ttl, audit)
    PROVE  /\ cmd' \in [Commands -> Command] /\ cmd[o].pc = "new"
           /\ \/ /\ cmd'[o].pc = "write" /\ cmd'[o].exit = "none"
                 /\ cmd'[o].now = clock /\ Checked(cmd'[o])
              \/ cmd'[o].pc = "done" /\ cmd'[o].exit = "2" /\ cmd'[o].now = 0
           /\ \A p \in Commands : p # o => cmd'[p] = cmd[p]
<1> DEFINE n == [NewCommand EXCEPT !.pc = "write", !.kind = kind, !.tag = tag,
                                   !.digest = digest, !.ttl = ttl,
                                   !.audit = audit, !.now = clock]
<1>1. CASE Accepts(kind, tag, digest, ttl) /\ Becoming(o, n)
  <2>1. /\ n \in Command /\ n.pc = "write" /\ n.exit = "none" /\ n.now = clock
        /\ n.tag = tag /\ n.kind = kind /\ n.digest = digest /\ n.ttl = ttl
    BY NewCommandType DEF Command, NewCommand, TypeOK
  <2>2. tag # NoTag
    BY <1>1 DEF StartCommand, Accepts, Kinds
  <2> HIDE DEF n
  <2>3. Checked(n)
    BY <1>1, <2>1, <2>2 DEF Checked, Accepts, AnyTag, AnyDigest
  <2> QED BY <1>1, <2>1, <2>3, BecomingOnly DEF StartCommand
<1>2. CASE GiveUp(o, "2")
  BY <1>2, GiveUpForms DEF StartCommand
<1> QED BY <1>1, <1>2 DEF StartCommand

(* What a step of a command does to it.                                     *)
LEMMA CommandForms ==
    ASSUME TypeOK, CommandsSound, NEW o \in Commands, RunCommand(o)
    PROVE  LET c == cmd[o]
               n == cmd'[o]
           IN
           /\ cmd' \in [Commands -> Command] /\ c.pc # "done"
           /\ \A p \in Commands : p # o => cmd'[p] = cmd[p]
           /\ \/ /\ n.pc = "write" /\ n.exit = "none" /\ n.now = clock /\ Checked(n)
                 /\ c.pc = "new" /\ UNCHANGED <<vars, file, told>>
              \/ /\ n.pc = "done" /\ n.exit \in {"1", "2"} /\ n.now = 0
                 /\ c.pc \in {"new", "write"} /\ UNCHANGED <<vars, file, told>>
              \/ /\ c.pc = "write" /\ InsertOverride(o) /\ UNCHANGED <<file, told>>
                 /\ Further(n, c, "log", c.exit) \/ Further(n, c, "done", "1")
              \/ /\ c.pc = "log" /\ Further(n, c, "done", "0")
                 /\ file' = Recorded(c.audit, file, OperationEvent(o))
                 /\ UNCHANGED <<vars, told>>
              \/ /\ c.pc = "log" /\ Further(n, c, "done", "1")
                 /\ file' \in RecordFails(c.audit, file, OperationEvent(o))
                 /\ UNCHANGED <<vars, told>>
<1>1. CASE \E kind \in Kinds, tag \in AnyTag, digest \in AnyDigest, ttl \in Lifetimes,
              p \in Policies : StartCommand(o, kind, tag, digest, ttl, p.audit)
  <2>1. UNCHANGED <<vars, file, told>>
    BY <1>1 DEF StartCommand
  <2>2. \A p \in Policies : p.audit \in BOOLEAN
    BY PoliciesAssumption DEF Policy
  <2> QED BY <1>1, <2>1, <2>2, StartForms
<1>2. CASE UsageError(o)
  BY <1>2, GiveUpForms DEF UsageError
<1>3. CASE CommandFails(o)
  BY <1>3, GiveUpForms DEF CommandFails
<1>4. CASE WriteOverride(o)
  BY <1>4, ContinueForms, ExitForms DEF WriteOverride
<1>5. CASE LogOperation(o)
  BY <1>5, ExitForms DEF LogOperation
<1>6. CASE LogOperationFails(o)
  BY <1>6, ExitForms DEF LogOperationFails
<1> QED BY <1>1, <1>2, <1>3, <1>4, <1>5, <1>6 DEF RunCommand

(* An INSERT of a command is a step of Quarantine's operator.               *)
LEMMA InsertIsOperator ==
    ASSUME TypeOK, CommandsSound, NEW o \in Commands, cmd[o].pc = "write",
           InsertOverride(o)
    PROVE  Operator
<1>1. /\ cmd[o].tag \in Tags /\ cmd[o].ttl \in Lifetimes /\ cmd[o].digest \in AnyDigest
      /\ cmd[o].kind = "approval" => cmd[o].digest \in Digests
      /\ cmd[o].now \in 0..clock
  BY DEF CommandsSound, CommandSound, Checked, Command, TypeOK
<1> QED BY <1>1 DEF InsertOverride, Operator

LEMMA CommandsStep ==
    ASSUME TypeOK, CommandsSound, [CommandsNext]_allVars
    PROVE  [Next]_vars
<1>1. ASSUME NEW r \in Requests,
             BeginCall(r) \/ AuditDecision(r) \/ AuditDecisionFails(r) \/ DecideStep(r)
      PROVE  Next
  BY <1>1 DEF BeginCall, AuditDecision, AuditDecisionFails, DecideStep, Progress, Next
<1>2. ASSUME NEW o \in Commands, RunCommand(o)
      PROVE  [Next]_vars
  BY <1>2, CommandForms, InsertIsOperator DEF Next
<1>3. CASE Tick
  BY <1>3 DEF Next, Environment
<1>4. CASE UNCHANGED allVars
  BY <1>4 DEF allVars
<1> QED BY <1>1, <1>2, <1>3, <1>4 DEF CommandsNext

LEMMA CommandsSoundNext ==
    ASSUME TypeOK, TypeOK', CommandsSound, [CommandsNext]_allVars
    PROVE  CommandsSound'
<1>0. clock \in Nat /\ clock' \in Nat /\ clock <= clock'
  BY CommandsStep, OnwardNext DEF TypeOK, Onward
<1>1. ASSUME NEW o \in Commands, RunCommand(o)
      PROVE  CommandsSound'
  <2>1. /\ cmd' \in [Commands -> Command]
        /\ \A p \in Commands : p # o => cmd'[p] = cmd[p]
    BY <1>1, CommandForms
  <2>2. CommandSound(cmd'[o], clock')
    <3>1. CommandSound(cmd[o], clock) /\ cmd[o].now \in Nat
      BY DEF CommandsSound, Command
    <3>2. CASE cmd'[o].pc = "write" /\ cmd'[o].exit = "none" /\ cmd'[o].now = clock
               /\ Checked(cmd'[o])
      BY <1>0, <3>2 DEF CommandSound
    <3>3. CASE /\ cmd'[o].pc = "done" /\ cmd'[o].exit \in {"1", "2"}
               /\ cmd'[o].now = 0
      BY <1>0, <3>3 DEF CommandSound
    <3>4. CASE \/ Further(cmd'[o], cmd[o], "log", cmd[o].exit) /\ cmd[o].pc = "write"
               \/ \E code \in {"0", "1"} :
                     /\ Further(cmd'[o], cmd[o], "done", code)
                     /\ cmd[o].pc \in {"write", "log"}
      BY <1>0, <3>1, <3>4 DEF CommandSound, Further, Checked
    <3> QED BY <1>1, <3>2, <3>3, <3>4, CommandForms
  <2>3. ASSUME NEW p \in Commands
        PROVE  CommandSound(cmd'[p], clock')
    <3>1. CommandSound(cmd[p], clock) /\ cmd[p].now \in Nat
      BY DEF CommandsSound, Command
    <3> QED BY <1>0, <2>1, <2>2, <3>1 DEF CommandSound
  <2> QED BY <2>1, <2>3 DEF CommandsSound
<1>2. CASE UNCHANGED cmd
  <2>1. ASSUME NEW p \in Commands
        PROVE  CommandSound(cmd[p], clock')
    <3>1. CommandSound(cmd[p], clock) /\ cmd[p].now \in Nat
      BY DEF CommandsSound, Command
    <3> QED BY <1>0, <3>1 DEF CommandSound
  <2> QED BY <1>2, <2>1 DEF CommandsSound
<1> QED BY <1>1, <1>2 DEF CommandsNext, BeginCall, AuditDecision, AuditDecisionFails,
                          DecideStep, commandVars, allVars

LEMMA CommandsSoundInit == CommandsInit => TypeOK /\ CommandsSound
<1>1. CommandsInit => clock = 0 /\ TypeOK
  BY InitType DEF CommandsInit, Init
<1>2. /\ NewCommand.now = 0 /\ NewCommand.pc = "new" /\ NewCommand.exit = "none"
  BY DEF NewCommand
<1> QED BY <1>1, <1>2, NewCommandType DEF CommandsInit, CommandsSound, CommandSound

LEMMA CommandsTyped == CommandsSpec => [](TypeOK /\ CommandsSound)
<1>1. CommandsInit => TypeOK /\ CommandsSound /\ AllShaped
  BY CommandsSoundInit, InitShape DEF CommandsInit
<1>2. TypeOK /\ CommandsSound /\ AllShaped /\ [CommandsNext]_allVars
      => (TypeOK /\ CommandsSound /\ AllShaped)'
  BY CommandsStep, NextShape, CommandsSoundNext
<1> QED BY <1>1, <1>2, PTL DEF CommandsSpec

(* Commands and the audit file change nothing in what Quarantine may do:    *)
(* every theorem about Spec holds beside commands (runApprove, runBypass    *)
(* and runFreeze, cmd/ribat/main.go:321-439).                               *)
THEOREM CommandsAreOperators == CommandsSpec => Spec
<1>1. CommandsInit => Init
  BY DEF CommandsInit
<1>2. TypeOK /\ CommandsSound /\ [CommandsNext]_allVars => [Next]_vars
  BY CommandsStep
<1> QED BY <1>1, <1>2, CommandsTyped, PTL DEF CommandsSpec, Spec

(* Beside commands that start, fail and are killed, a quarantined tag is    *)
(* allowed for a reason ...                                                 *)
THEOREM CommandsAdmitForAReason == CommandsSpec => []AdmittedForAReason
BY CommandsAreOperators, OnlyReasonsAdmit, PTL

(* ... and a freeze stored when the call began is respected.                *)
THEOREM CommandsRespectFreezes == CommandsSpec => []FreezeRespected
BY CommandsAreOperators, FrozenRefused, PTL

-----------------------------------------------------------------------------
(* The file.                                                                *)

Clean(lines) == \A i \in DOMAIN lines : lines[i].text = "event"

(* Where an event is appended, and where an append fails: no line that      *)
(* cannot be parsed goes, no line that can be comes but the event.          *)
LEMMA Appending ==
    ASSUME NEW lines \in Seq(Line), NEW e \in Line, e.text = "event", NEW new,
           new = Appended(lines, e) \/ new \in AppendFails(lines, e)
    PROVE  /\ new \in Seq(Line)
           /\ \A i \in DOMAIN new : \/ i \in DOMAIN lines /\ new[i] = lines[i]
                                   \/ new[i] = e
                                   \/ new[i].by = "none"
           /\ Clean(new) => /\ Clean(lines)
                           /\ \A i \in DOMAIN lines :
                                 i \in DOMAIN new /\ new[i] = lines[i]
           /\ Clean(new) /\ new = Appended(lines, e)
              => \E i \in DOMAIN new : new[i] = e
<1> DEFINE n == Len(lines)
           cut == Unreadable("cut")
           garbage == Unreadable("garbage")
<1>1. /\ cut \in Line /\ cut.text = "cut" /\ cut.by = "none"
      /\ garbage \in Line /\ garbage.text = "garbage" /\ garbage.by = "none"
  BY DEF Unreadable, Line, AnyTag, AnyDigest
<1>2. n \in Nat /\ DOMAIN lines = 1..n
  OBVIOUS
<1> HIDE DEF cut, garbage
<1>3. CASE new = lines
  <2>1. ASSUME Clean(lines), lines = Appended(lines, e)
        PROVE  FALSE
    <3>1. ~CutShort(lines)
      BY <1>2, <2>1 DEF Clean, CutShort
    <3>2. lines = Append(lines, e) /\ Len(Append(lines, e)) = n + 1
      BY <2>1, <3>1 DEF Appended
    <3> QED BY <1>2, <3>2
  <2> QED BY <1>2, <1>3, <2>1
<1>4. ASSUME NEW x \in Line, new = Append(lines, x), ~CutShort(lines)
      PROVE  /\ new \in Seq(Line) /\ DOMAIN new = 1..(n + 1) /\ new[n + 1] = x
             /\ \A i \in 1..n : new[i] = lines[i]
  BY <1>2, <1>4
<1>5. CASE CutShort(lines) /\ new = [lines EXCEPT ![n] = garbage]
  <2>1. n \in 1..n
    BY <1>2, <1>5 DEF CutShort
  <2>2. DOMAIN new = 1..n /\ new[n] = garbage /\ \A i \in 1..n : i # n => new[i] = lines[i]
    BY <1>2, <1>5, <2>1
  <2>3. new \in Seq(Line)
    BY <1>1, <1>2, <1>5, <2>1, ExceptSeq
  <2>4. ~Clean(new)
    BY <1>1, <2>1, <2>2 DEF Clean
  <2> QED BY <1>1, <1>2, <2>2, <2>3, <2>4
<1>6. CASE new = Append(lines, e) /\ ~CutShort(lines)
  <2>1. /\ new \in Seq(Line) /\ DOMAIN new = 1..(n + 1) /\ new[n + 1] = e
        /\ \A i \in 1..n : new[i] = lines[i]
    BY <1>4, <1>6
  <2>2. \A i \in 1..(n + 1) : i \in 1..n \/ i = n + 1
    BY <1>2
  <2>3. Clean(new) => Clean(lines)
    BY <1>2, <2>1 DEF Clean
  <2> QED BY <1>2, <2>1, <2>2, <2>3
<1>7. CASE new = Append(lines, cut) /\ ~CutShort(lines)
  <2>1. /\ new \in Seq(Line) /\ DOMAIN new = 1..(n + 1) /\ new[n + 1] = cut
        /\ \A i \in 1..n : new[i] = lines[i]
    BY <1>1, <1>4, <1>7
  <2>2. \A i \in 1..(n + 1) : i \in 1..n \/ i = n + 1
    BY <1>2
  <2>3. ~Clean(new)
    BY <1>1, <1>2, <2>1 DEF Clean
  <2> QED BY <1>1, <1>2, <2>1, <2>2, <2>3
<1> QED BY <1>3, <1>5, <1>6, <1>7 DEF Appended, AppendFails, cut, garbage

LEMMA EventTypes ==
    ASSUME TypeOK, CommandsSound
    PROVE  /\ \A o \in Commands : /\ OperationEvent(o) \in Line
                                 /\ OperationEvent(o).text = "event"
                                 /\ OperationEvent(o).by = o
           /\ \A r \in Requests : /\ DecisionEvent(r) \in Line
                                 /\ DecisionEvent(r).text = "event"
                                 /\ DecisionEvent(r).by = r
<1>1. \A o \in Commands : cmd[o] \in Command
  BY DEF CommandsSound
<1>2. \A r \in Requests : /\ job[r].tag \in AnyTag /\ job[r].digest \in AnyDigest
                          /\ job[r].now \in Nat
  BY DEF TypeOK, Job
<1>3. ASSUME NEW o \in Commands
      PROVE  /\ OperationEvent(o) \in Line /\ OperationEvent(o).text = "event"
             /\ OperationEvent(o).by = o
  BY <1>1 DEF OperationEvent, Line, Command
<1>4. ASSUME NEW r \in Requests
      PROVE  /\ DecisionEvent(r) \in Line /\ DecisionEvent(r).text = "event"
             /\ DecisionEvent(r).by = r
  BY <1>2 DEF DecisionEvent, Line
<1> QED BY <1>3, <1>4

(* A step that writes to the file, and what it appends.                     *)
LEMMA FileChanges ==
    ASSUME TypeOK, CommandsSound, [CommandsNext]_allVars
    PROVE  \/ file' = file
           \/ \E o \in Commands :
                 /\ cmd[o].pc = "log" /\ RunCommand(o)
                 /\ \/ file' = Appended(file, OperationEvent(o))
                    \/ /\ file' \in AppendFails(file, OperationEvent(o))
                       /\ cmd'[o].exit = "1"
           \/ \E r \in Requests :
                 \/ file' = Appended(file, DecisionEvent(r)) /\ AuditDecision(r)
                 \/ /\ file' \in AppendFails(file, DecisionEvent(r))
                    /\ AuditDecisionFails(r)
<1>1. ASSUME NEW o \in Commands, RunCommand(o), file' # file
      PROVE  /\ cmd[o].pc = "log" /\ RunCommand(o)
             /\ \/ file' = Appended(file, OperationEvent(o))
                \/ /\ file' \in AppendFails(file, OperationEvent(o))
                   /\ cmd'[o].exit = "1"
  BY <1>1, CommandForms DEF Further, Recorded, RecordFails
<1> QED BY <1>1 DEF CommandsNext, BeginCall, AuditDecision, AuditDecisionFails,
                    Recorded, RecordFails, DecideStep, commandVars, allVars

LEMMA CommandsTypeNext ==
    ASSUME CommandsTypeOK, TypeOK', CommandsSound, CommandsSound',
           [CommandsNext]_allVars
    PROVE  CommandsTypeOK'
<1>1. file' \in Seq(Line)
  BY FileChanges, EventTypes, Appending DEF CommandsTypeOK
<1>2. told' \in [Requests -> SUBSET Commands]
  <2>1. ASSUME NEW r \in Requests, BeginCall(r)
        PROVE  told' \in [Requests -> SUBSET Commands]
    BY <2>1 DEF BeginCall, Announced, CommandsTypeOK
  <2>2. ASSUME NEW o \in Commands, RunCommand(o)
        PROVE  told' = told
    BY <2>2, CommandForms DEF CommandsTypeOK
  <2> QED BY <2>1, <2>2 DEF CommandsNext, AuditDecision, AuditDecisionFails, DecideStep,
                            commandVars, allVars, CommandsTypeOK
<1> QED BY <1>1, <1>2 DEF CommandsTypeOK, CommandsSound

(* Every variable keeps its type beside commands, the file with its partial *)
(* lines among them.                                                        *)
THEOREM CommandsTypeCorrect == CommandsSpec => []CommandsTypeOK
<1>1. CommandsInit => CommandsTypeOK
  <2>1. <<>> \in Seq(Line)
    OBVIOUS
  <2> QED BY <2>1, CommandsSoundInit DEF CommandsInit, CommandsTypeOK, CommandsSound
<1>2. CommandsTypeOK /\ TypeOK' /\ CommandsSound /\ CommandsSound'
      /\ [CommandsNext]_allVars => CommandsTypeOK'
  BY CommandsTypeNext
<1> QED BY <1>1, <1>2, CommandsTyped, PTL DEF CommandsSpec

-----------------------------------------------------------------------------
(* The rows of commands.                                                    *)

(* The row of command c is in the tables.                                   *)
InTables(c, approved, frozen, bypassed) ==
    /\ c.kind = "approval" => \E x \in approved :
          x.tag = c.tag /\ x.digest = c.digest /\ x.expiresAt = Expiry(c.now, c.ttl)
    /\ c.kind = "freeze" => \E x \in frozen :
          x.tag = c.tag /\ x.digest = c.digest /\ x.expiresAt = Expiry(c.now, c.ttl)
    /\ c.kind = "bypass" => c.digest = NoDigest /\ \E x \in bypassed :
          x.tag = c.tag /\ x.expiresAt = Expiry(c.now, c.ttl)

Wrote(c) == c.pc = "log" \/ c.exit \in {"0", "1"}

(* A command past its INSERT, and one the file tells of, has its row.       *)
RowsOfCommands ==
    /\ \A o \in Commands : cmd[o].pc = "log" \/ Reported(o) =>
          InTables(cmd[o], approvals, freezes, bypasses)
    /\ \A o \in Commands : Reported(o) => cmd[o].pc = "done"

(* Every row is that of a command that wrote it.                            *)
CommandsOfRows ==
    /\ \A x \in approvals : \E o \in Commands :
          /\ Wrote(cmd[o]) /\ cmd[o].kind = "approval" /\ x.tag = cmd[o].tag
          /\ x.digest = cmd[o].digest /\ x.expiresAt = Expiry(cmd[o].now, cmd[o].ttl)
    /\ \A x \in freezes : \E o \in Commands :
          /\ Wrote(cmd[o]) /\ cmd[o].kind = "freeze" /\ x.tag = cmd[o].tag
          /\ x.digest = cmd[o].digest /\ x.expiresAt = Expiry(cmd[o].now, cmd[o].ttl)
    /\ \A x \in bypasses : \E o \in Commands :
          /\ Wrote(cmd[o]) /\ cmd[o].kind = "bypass" /\ x.tag = cmd[o].tag
          /\ cmd[o].digest = NoDigest /\ x.expiresAt = Expiry(cmd[o].now, cmd[o].ttl)

(* A call began with the rows of the commands it was told of.               *)
ToldHeld ==
    \A r \in Requests : \A o \in told[r] :
        /\ cmd[o].exit = "0"
        /\ job[r].answer # "error" =>
              InTables(cmd[o], job[r].held.approvals, job[r].held.freezes,
                       job[r].held.bypasses)

(* In a file without a broken line nothing is missing that was said by a    *)
(* process that has the file configured.                                    *)
EventsLogged ==
    Clean(file) =>
        /\ \A o \in Announced : cmd[o].audit =>
              \E i \in DOMAIN file : file[i] = OperationEvent(o)
        /\ \A r \in Requests :
              job[r].policy.audit /\ job[r].answer \in {"allow", "deny"} =>
              \E i \in DOMAIN file : file[i] = DecisionEvent(r)

LEMMA InTablesLater ==
    ASSUME NEW c, NEW a, NEW f, NEW b, NEW a2, NEW f2, NEW b2, InTables(c, a, f, b),
           a \subseteq a2, f \subseteq f2, b \subseteq b2
    PROVE  InTables(c, a2, f2, b2)
BY DEF InTables

LEMMA InTablesFurther ==
    ASSUME NEW c, NEW n, NEW pc, NEW code, Further(n, c, pc, code), NEW a, NEW f, NEW b,
           InTables(c, a, f, b)
    PROVE  InTables(n, a, f, b)
BY DEF InTables, Further

(* What one step of a call keeps, and which step answers it.                *)
LEMMA ProgressKeeps ==
    ASSUME TypeOK, AllShaped, NEW r \in Requests, Progress(r)
    PROVE  LET j == job[r]
               n == job'[r]
           IN  /\ n.held = j.held /\ j.answer = "none"
               /\ n.answer \in {"allow", "deny"} => At(r, "audit")
<1>1. CASE CallFails(r)
  BY <1>1, EndForms, Unanswered
  DEF CallFails, Stops, ReadSteps, WriteSteps
<1>2. CASE \/ ResolveDigest(r) \/ ResolveFails(r)
           \/ ReadFreeze(r) \/ ReadApproval(r) \/ ReadBypass(r)
  <2>1. job[r].answer = "none"
    BY <1>2, Unanswered DEF ResolveDigest, ResolveFails, ReadFreeze, ReadApproval, ReadBypass
  <2> QED BY <1>2, <2>1, ResolveForms, ResolveFailsForms, FreezeForms, ApprovalForms,
             BypassForms DEF Keeps, Same
<1>3. CASE ReadObservation(r) \/ CreateObservation(r) \/ ReadCreated(r)
  <2>1. job[r].answer = "none"
    BY <1>3, Unanswered DEF ReadObservation, CreateObservation, ReadCreated
  <2>2. CASE ReadObservation(r)
    BY <2>1, <2>2, ObservationForms DEF Same
  <2>3. CASE CreateObservation(r)
    BY <2>1, <2>3, EndForms DEF CreateObservation, Keeps, Same
  <2>4. CASE ReadCreated(r)
    BY <2>1, <2>4, CreatedForms DEF Keeps, Same, Stops
  <2> QED BY <1>3, <2>2, <2>3, <2>4
<1>4. CASE \/ TouchObservation(r) \/ ReadCosignCache(r) \/ RecordCosign(r)
           \/ MarkAllowed(r) \/ RecordDecision(r)
  <2>1. job[r].answer = "none"
    BY <1>4, Unanswered DEF TouchObservation, ReadCosignCache, RecordCosign, MarkAllowed,
                            RecordDecision
  <2>2. \/ Stops(job'[r], job[r], "error")
        \/ Keeps(job'[r], job[r])
    BY <1>4, EndForms, PassedForms
    DEF TouchObservation, ReadCosignCache, RecordCosign, MarkAllowed, RecordDecision,
        AfterCosign, AllowWithVerification
  <2> QED BY <2>1, <2>2 DEF Keeps, Same, Stops
<1>5. CASE (\E s \in BOOLEAN : CosignAnswers(r, s)) \/ VerificationFails(r)
  <2>1. job[r].answer = "none"
    BY <1>5, Unanswered DEF CosignAnswers, VerificationFails, VerifySteps
  <2> QED BY <1>5, <2>1, AnswerForms, RefusedForms DEF Keeps, Same
<1>6. CASE WriteAudit(r)
  BY <1>6, EndForms, Unanswered DEF WriteAudit, Stops
<1> QED BY <1>1, <1>2, <1>3, <1>4, <1>5, <1>6 DEF Progress

(* Only a command writes a row of an override.                              *)
LEMMA OverridesStay ==
    ASSUME NEW r, BeginAny(r) \/ Progress(r) \/ Tick
    PROVE  UNCHANGED <<approvals, freezes, bypasses>>
<1>1. CASE \/ BeginAny(r) \/ Tick \/ ResolveDigest(r) \/ ResolveFails(r)
           \/ ReadFreeze(r) \/ ReadApproval(r) \/ ReadBypass(r)
           \/ ReadObservation(r) \/ CreateObservation(r) \/ ReadCreated(r)
  BY <1>1 DEF BeginAny, Begin, BeginMalformed, Tick, ResolveDigest, ResolveFails,
              ReadFreeze, ReadApproval, ReadBypass, ReadObservation,
              CreateObservation, ReadCreated, tables
<1>2. CASE \/ TouchObservation(r) \/ ReadCosignCache(r) \/ RecordCosign(r)
           \/ (\E s \in BOOLEAN : CosignAnswers(r, s))
           \/ MarkAllowed(r) \/ CallFails(r) \/ VerificationFails(r)
           \/ RecordDecision(r) \/ WriteAudit(r)
  BY <1>2 DEF TouchObservation, ReadCosignCache, RecordCosign, CosignAnswers,
              MarkAllowed, CallFails, VerificationFails, RecordDecision, WriteAudit,
              tables
<1> QED BY <1>1, <1>2 DEF Progress

(* The row a command inserts is its own, and the only one.                  *)
LEMMA InsertForms ==
    ASSUME CommandsSound, NEW o \in Commands, InsertOverride(o), cmd[o].pc = "write"
    PROVE  LET c == cmd[o] IN
           /\ InTables(c, approvals', freezes', bypasses') /\ UNCHANGED job
           /\ approvals \subseteq approvals' /\ freezes \subseteq freezes'
           /\ bypasses \subseteq bypasses'
           /\ \A x \in approvals' : x \in approvals \/
                 /\ c.kind = "approval" /\ x.tag = c.tag /\ x.digest = c.digest
                 /\ x.expiresAt = Expiry(c.now, c.ttl)
           /\ \A x \in freezes' : x \in freezes \/
                 /\ c.kind = "freeze" /\ x.tag = c.tag /\ x.digest = c.digest
                 /\ x.expiresAt = Expiry(c.now, c.ttl)
           /\ \A x \in bypasses' : x \in bypasses \/
                 /\ c.kind = "bypass" /\ x.tag = c.tag /\ c.digest = NoDigest
                 /\ x.expiresAt = Expiry(c.now, c.ttl)
<1> DEFINE c == cmd[o]
<1>1. c.kind = "bypass" => c.digest = NoDigest
  BY DEF CommandsSound, CommandSound, Checked
<1>2. CASE c.kind = "approval" /\ ApproveDigest(c.tag, c.digest, c.now, c.ttl)
  <2> DEFINE row == [id |-> seq.approvals + 1, tag |-> c.tag, digest |-> c.digest,
                     expiresAt |-> Expiry(c.now, c.ttl)]
  <2>1. /\ row.tag = c.tag /\ row.digest = c.digest
        /\ row.expiresAt = Expiry(c.now, c.ttl)
    OBVIOUS
  <2>2. /\ approvals' = approvals \cup {row} /\ freezes' = freezes
        /\ bypasses' = bypasses /\ job' = job
    BY <1>2 DEF ApproveDigest
  <2> HIDE DEF row
  <2> QED BY <1>2, <2>1, <2>2 DEF InTables
<1>3. CASE c.kind = "freeze" /\ FreezeTag(c.tag, c.digest, c.now, c.ttl)
  <2> DEFINE row == [id |-> seq.freezes + 1, tag |-> c.tag, digest |-> c.digest,
                     expiresAt |-> Expiry(c.now, c.ttl)]
  <2>1. /\ row.tag = c.tag /\ row.digest = c.digest
        /\ row.expiresAt = Expiry(c.now, c.ttl)
    OBVIOUS
  <2>2. /\ freezes' = freezes \cup {row} /\ approvals' = approvals
        /\ bypasses' = bypasses /\ job' = job
    BY <1>3 DEF FreezeTag
  <2> HIDE DEF row
  <2> QED BY <1>3, <2>1, <2>2 DEF InTables
<1>4. CASE c.kind = "bypass" /\ BypassTag(c.tag, c.now, c.ttl)
  <2> DEFINE row == [id |-> seq.bypasses + 1, tag |-> c.tag,
                     expiresAt |-> Expiry(c.now, c.ttl)]
  <2>1. row.tag = c.tag /\ row.expiresAt = Expiry(c.now, c.ttl)
    OBVIOUS
  <2>2. /\ bypasses' = bypasses \cup {row} /\ approvals' = approvals
        /\ freezes' = freezes /\ job' = job
    BY <1>4 DEF BypassTag
  <2> HIDE DEF row
  <2> QED BY <1>1, <1>4, <2>1, <2>2 DEF InTables
<1> QED BY <1>2, <1>3, <1>4 DEF InsertOverride


(* What a step reports is what the command at its log step does.            *)
LEMMA ReportedNext ==
    ASSUME CommandsTypeOK, CommandsSound, [CommandsNext]_allVars, NEW o \in Commands,
           Reported(o)'
    PROVE  Reported(o) \/ (cmd[o].pc = "log" /\ RunCommand(o))
<1>1. ASSUME cmd'[o].exit = "0"
      PROVE  Reported(o) \/ (cmd[o].pc = "log" /\ RunCommand(o))
  <2>1. CASE UNCHANGED cmd
    BY <1>1, <2>1 DEF Reported
  <2>2. ASSUME NEW p \in Commands, RunCommand(p)
        PROVE  Reported(o) \/ (cmd[o].pc = "log" /\ RunCommand(o))
    <3>1. CASE p # o
      BY <1>1, <2>2, <3>1, CommandForms DEF Reported, CommandsTypeOK
    <3>2. CASE p = o
      <4>1. \/ cmd[o].pc = "log"
            \/ cmd'[o].exit = cmd[o].exit
        BY <1>1, <2>2, <3>2, CommandForms DEF Further, CommandsTypeOK
      <4> QED BY <1>1, <2>2, <3>2, <4>1 DEF Reported
    <3> QED BY <3>1, <3>2
  <2> QED BY <2>1, <2>2 DEF CommandsNext, BeginCall, AuditDecision, AuditDecisionFails,
                            DecideStep, commandVars, allVars
<1>2. ASSUME NEW i \in DOMAIN file', file'[i].by = o
      PROVE  Reported(o) \/ (cmd[o].pc = "log" /\ RunCommand(o))
  <2>1. o # "none" /\ o \notin Requests
    BY CommandsAssumption
  <2>2. ASSUME NEW e \in Line, e.text = "event",
               file' = Appended(file, e) \/ file' \in AppendFails(file, e)
        PROVE  Reported(o) \/ e.by = o
    BY <1>2, <2>1, <2>2, Appending DEF Reported, CommandsTypeOK
  <2>3. CASE file' = file
    BY <1>2, <2>3 DEF Reported
  <2>4. ASSUME NEW p \in Commands, cmd[p].pc = "log", RunCommand(p),
               \/ file' = Appended(file, OperationEvent(p))
               \/ file' \in AppendFails(file, OperationEvent(p))
        PROVE  Reported(o) \/ (cmd[o].pc = "log" /\ RunCommand(o))
    BY <2>2, <2>4, EventTypes DEF CommandsTypeOK
  <2>5. ASSUME NEW r \in Requests,
               \/ file' = Appended(file, DecisionEvent(r))
               \/ file' \in AppendFails(file, DecisionEvent(r))
        PROVE  Reported(o)
    BY <2>1, <2>2, <2>5, EventTypes DEF CommandsTypeOK
  <2> QED BY <2>3, <2>4, <2>5, FileChanges DEF CommandsTypeOK
<1> QED BY <1>1, <1>2 DEF Reported

(* What a step does to the tables of the overrides: nothing, or the insert  *)
(* of a command.                                                            *)
LEMMA TableChanges ==
    ASSUME CommandsTypeOK, CommandsSound, [CommandsNext]_allVars
    PROVE  \/ UNCHANGED <<approvals, freezes, bypasses>>
           \/ \E o \in Commands : /\ RunCommand(o) /\ InsertOverride(o)
                                  /\ cmd[o].pc = "write"
<1>1. ASSUME NEW r \in Requests,
             BeginCall(r) \/ AuditDecision(r) \/ AuditDecisionFails(r) \/ DecideStep(r)
      PROVE  UNCHANGED <<approvals, freezes, bypasses>>
  BY <1>1, OverridesStay DEF BeginCall, AuditDecision, AuditDecisionFails, DecideStep,
                             Progress
<1>2. CASE Tick
  BY <1>2, OverridesStay
<1>3. ASSUME NEW o \in Commands, RunCommand(o)
      PROVE  \/ UNCHANGED <<approvals, freezes, bypasses>>
             \/ InsertOverride(o) /\ cmd[o].pc = "write"
  BY <1>3, CommandForms DEF CommandsTypeOK, vars, tables
<1>4. CASE UNCHANGED allVars
  BY <1>4 DEF allVars, vars, tables
<1> QED BY <1>1, <1>2, <1>3, <1>4 DEF CommandsNext

LEMMA TablesGrow ==
    ASSUME CommandsTypeOK, CommandsSound, [CommandsNext]_allVars
    PROVE  /\ approvals \subseteq approvals' /\ freezes \subseteq freezes'
           /\ bypasses \subseteq bypasses'
BY TableChanges, InsertForms

(* The commands that a step leaves alone, and the one it moves.             *)
LEMMA CommandChanges ==
    ASSUME CommandsTypeOK, CommandsSound, [CommandsNext]_allVars, NEW o \in Commands
    PROVE  \/ cmd'[o] = cmd[o]
           \/ cmd'[o].pc = "write" /\ cmd[o].pc = "new"
           \/ /\ cmd'[o].pc = "done" /\ cmd'[o].exit \in {"1", "2"}
              /\ cmd[o].pc \in {"new", "write"}
           \/ /\ cmd[o].pc = "write" /\ InsertOverride(o)
              /\ \/ Further(cmd'[o], cmd[o], "log", cmd[o].exit)
                 \/ Further(cmd'[o], cmd[o], "done", "1")
           \/ /\ cmd[o].pc = "log"
              /\ \E code \in {"0", "1"} : Further(cmd'[o], cmd[o], "done", code)
<1>1. CASE UNCHANGED cmd
  BY <1>1
<1>2. ASSUME NEW p \in Commands, RunCommand(p), p # o
      PROVE  cmd'[o] = cmd[o]
  BY <1>2, CommandForms DEF CommandsTypeOK
<1>3. CASE RunCommand(o)
  BY <1>3, CommandForms DEF CommandsTypeOK
<1> QED BY <1>1, <1>2, <1>3 DEF CommandsNext, BeginCall, AuditDecision, AuditDecisionFails,
                                DecideStep, commandVars, allVars

LEMMA RowsOfCommandsNext ==
    ASSUME CommandsTypeOK, CommandsSound, RowsOfCommands, [CommandsNext]_allVars
    PROVE  RowsOfCommands'
<1> DEFINE In(c) == InTables(c, approvals, freezes, bypasses)
           InNow(c) == InTables(c, approvals', freezes', bypasses')
<1>1. ASSUME NEW c, In(c)
      PROVE  InNow(c)
  BY <1>1, TablesGrow, InTablesLater
<1>2. ASSUME NEW o \in Commands, Reported(o)'
      PROVE  cmd'[o].pc = "done" /\ In(cmd[o]) /\ (cmd'[o] = cmd[o] \/ cmd[o].pc = "log")
  <2>1. CASE Reported(o)
    <3>1. cmd[o].pc = "done" /\ In(cmd[o])
      BY <2>1 DEF RowsOfCommands
    <3> QED BY <3>1, CommandChanges
  <2>2. CASE cmd[o].pc = "log" /\ RunCommand(o)
    <3>1. In(cmd[o])
      BY <2>2 DEF RowsOfCommands
    <3>2. cmd'[o].pc = "done"
      BY <2>2, CommandForms DEF CommandsTypeOK, Further
    <3> QED BY <2>2, <3>1, <3>2
  <2> QED BY <1>2, <2>1, <2>2, ReportedNext
<1>3. ASSUME NEW o \in Commands, cmd'[o].pc = "log" \/ Reported(o)'
      PROVE  InNow(cmd'[o])
  <2>1. CASE cmd'[o] = cmd[o]
    <3>1. In(cmd[o])
      BY <1>2, <1>3, <2>1 DEF RowsOfCommands
    <3> QED BY <1>1, <2>1, <3>1
  <2>2. CASE cmd[o].pc = "log" /\ \E code \in {"0", "1"} :
                                    Further(cmd'[o], cmd[o], "done", code)
    <3>1. InNow(cmd[o])
      BY <1>1, <2>2 DEF RowsOfCommands
    <3> HIDE DEF InNow
    <3>2. PICK code \in {"0", "1"} : Further(cmd'[o], cmd[o], "done", code)
      BY <2>2
    <3> QED BY <3>1, <3>2, InTablesFurther DEF InNow
  <2>3. CASE cmd[o].pc = "write" /\ InsertOverride(o)
             /\ Further(cmd'[o], cmd[o], "log", cmd[o].exit)
    <3>1. InNow(cmd[o])
      BY <2>3, InsertForms
    <3> QED BY <2>3, <3>1, InTablesFurther
  <2>4. CASE cmd[o].pc \in {"new", "write"} /\ cmd'[o].pc # "log"
    BY <1>2, <1>3, <2>4, CommandChanges
  <2> QED BY <2>1, <2>2, <2>3, <2>4, CommandChanges DEF Further
<1> QED BY <1>2, <1>3 DEF RowsOfCommands


(* A command that wrote keeps its options.                                  *)
LEMMA WroteLater ==
    ASSUME CommandsTypeOK, CommandsSound, [CommandsNext]_allVars, NEW o \in Commands,
           Wrote(cmd[o])
    PROVE  /\ Wrote(cmd'[o]) /\ cmd'[o].kind = cmd[o].kind /\ cmd'[o].tag = cmd[o].tag
           /\ cmd'[o].digest = cmd[o].digest /\ cmd'[o].ttl = cmd[o].ttl
           /\ cmd'[o].now = cmd[o].now
<1>1. cmd[o].pc \in {"log", "done"}
  BY DEF Wrote, CommandsSound, CommandSound
<1> QED BY <1>1, CommandChanges DEF Wrote, Further

LEMMA CommandsOfRowsNext ==
    ASSUME CommandsTypeOK, CommandsSound, CommandsOfRows, [CommandsNext]_allVars
    PROVE  CommandsOfRows'
<1> DEFINE Wrote1(o, kind, x) ==
              /\ Wrote(cmd[o]) /\ cmd[o].kind = kind /\ x.tag = cmd[o].tag
              /\ x.expiresAt = Expiry(cmd[o].now, cmd[o].ttl)
           Wrote2(o, kind, x) ==
              /\ Wrote(cmd'[o]) /\ cmd'[o].kind = kind /\ x.tag = cmd'[o].tag
              /\ x.expiresAt = Expiry(cmd'[o].now, cmd'[o].ttl)
<1>1. ASSUME NEW o \in Commands, NEW kind, NEW x, Wrote1(o, kind, x)
      PROVE  Wrote2(o, kind, x) /\ cmd'[o].digest = cmd[o].digest
  BY <1>1, WroteLater
<1>2. ASSUME NEW o \in Commands, RunCommand(o), InsertOverride(o), cmd[o].pc = "write"
      PROVE  /\ Wrote(cmd'[o]) /\ cmd'[o].kind = cmd[o].kind /\ cmd'[o].tag = cmd[o].tag
             /\ cmd'[o].digest = cmd[o].digest
             /\ Expiry(cmd'[o].now, cmd'[o].ttl) = Expiry(cmd[o].now, cmd[o].ttl)
  <2>1. CASE cmd'[o].pc = "done" /\ cmd'[o].exit \in {"1", "2"} /\ UNCHANGED vars
    <3>1. /\ seq \in Counters
          /\ \/ seq' = [seq EXCEPT !.approvals = @ + 1]
             \/ seq' = [seq EXCEPT !.freezes = @ + 1]
             \/ seq' = [seq EXCEPT !.bypasses = @ + 1]
      BY <1>2 DEF InsertOverride, ApproveDigest, FreezeTag, BypassTag, CommandsTypeOK,
                  TypeOK
    <3>2. seq' # seq
      BY <3>1 DEF Counters
    <3> QED BY <2>1, <3>2 DEF vars, tables
  <2>2. CASE \/ Further(cmd'[o], cmd[o], "log", cmd[o].exit)
             \/ Further(cmd'[o], cmd[o], "done", "1")
    BY <2>2 DEF Further, Wrote
  <2> QED BY <1>2, <2>1, <2>2, CommandForms DEF CommandsTypeOK
<1>3. CASE UNCHANGED <<approvals, freezes, bypasses>>
  <2>1. ASSUME NEW x \in approvals
        PROVE  \E o \in Commands : Wrote2(o, "approval", x) /\ x.digest = cmd'[o].digest
    <3>1. PICK o \in Commands : Wrote1(o, "approval", x) /\ x.digest = cmd[o].digest
      BY DEF CommandsOfRows
    <3> QED BY <1>1, <3>1
  <2>2. ASSUME NEW x \in freezes
        PROVE  \E o \in Commands : Wrote2(o, "freeze", x) /\ x.digest = cmd'[o].digest
    <3>1. PICK o \in Commands : Wrote1(o, "freeze", x) /\ x.digest = cmd[o].digest
      BY DEF CommandsOfRows
    <3> QED BY <1>1, <3>1
  <2>3. ASSUME NEW x \in bypasses
        PROVE  \E o \in Commands : Wrote2(o, "bypass", x) /\ cmd'[o].digest = NoDigest
    <3>1. PICK o \in Commands : Wrote1(o, "bypass", x) /\ cmd[o].digest = NoDigest
      BY DEF CommandsOfRows
    <3> QED BY <1>1, <3>1
  <2> QED BY <1>3, <2>1, <2>2, <2>3 DEF CommandsOfRows
<1>4. ASSUME NEW p \in Commands, RunCommand(p), InsertOverride(p), cmd[p].pc = "write"
      PROVE  CommandsOfRows'
  <2>1. ASSUME NEW x \in approvals'
        PROVE  \E o \in Commands : Wrote2(o, "approval", x) /\ x.digest = cmd'[o].digest
    <3>1. CASE x \in approvals
      <4>1. PICK o \in Commands : Wrote1(o, "approval", x) /\ x.digest = cmd[o].digest
        BY <3>1 DEF CommandsOfRows
      <4> QED BY <1>1, <4>1
    <3>2. CASE x \notin approvals
      BY <1>2, <1>4, <3>2, InsertForms
    <3> QED BY <3>1, <3>2
  <2>2. ASSUME NEW x \in freezes'
        PROVE  \E o \in Commands : Wrote2(o, "freeze", x) /\ x.digest = cmd'[o].digest
    <3>1. CASE x \in freezes
      <4>1. PICK o \in Commands : Wrote1(o, "freeze", x) /\ x.digest = cmd[o].digest
        BY <3>1 DEF CommandsOfRows
      <4> QED BY <1>1, <4>1
    <3>2. CASE x \notin freezes
      BY <1>2, <1>4, <3>2, InsertForms
    <3> QED BY <3>1, <3>2
  <2>3. ASSUME NEW x \in bypasses'
        PROVE  \E o \in Commands : Wrote2(o, "bypass", x) /\ cmd'[o].digest = NoDigest
    <3>1. CASE x \in bypasses
      <4>1. PICK o \in Commands : Wrote1(o, "bypass", x) /\ cmd[o].digest = NoDigest
        BY <3>1 DEF CommandsOfRows
      <4> QED BY <1>1, <4>1
    <3>2. CASE x \notin bypasses
      BY <1>2, <1>4, <3>2, InsertForms
    <3> QED BY <3>1, <3>2
  <2> QED BY <2>1, <2>2, <2>3 DEF CommandsOfRows
<1> QED BY <1>3, <1>4, TableChanges

(* A call is told of commands and takes their rows along in one step.       *)
LEMMA ToldHeldNext ==
    ASSUME CommandsTypeOK, TypeOK', AllShaped, CommandsSound, RowsOfCommands, ToldHeld,
           [CommandsNext]_allVars
    PROVE  ToldHeld'
<1> DEFINE In(c, h) == InTables(c, h.approvals, h.freezes, h.bypasses)
           Holds(r, j) == j.answer # "error" => \A o \in told[r] : In(cmd[o], j.held)
<1>1. \A o \in Commands : cmd[o].exit = "0" => cmd'[o] = cmd[o]
  <2>1. \A o \in Commands : cmd[o].exit = "0" => cmd[o].pc = "done"
    BY DEF CommandsSound, CommandSound
  <2> QED BY <2>1, CommandChanges
<1>2. /\ told \in [Requests -> SUBSET Commands]
      /\ \A r \in Requests : (\A o \in told[r] : cmd[o].exit = "0") /\ Holds(r, job[r])
  BY DEF ToldHeld, CommandsTypeOK
<1>3. ASSUME told' = told, \A r \in Requests : Holds(r, job'[r])
      PROVE  ToldHeld'
  <2>1. ASSUME NEW r \in Requests, NEW o \in told[r]
        PROVE  cmd'[o] = cmd[o] /\ cmd[o].exit = "0"
    BY <1>1, <1>2
  <2> QED BY <1>3, <2>1 DEF ToldHeld
<1>4. ASSUME NEW r \in Requests, Progress(r), told' = told
      PROVE  ToldHeld'
  <2>1. job'[r].held = job[r].held /\ job[r].answer = "none"
    BY <1>4, ProgressKeeps DEF CommandsTypeOK
  <2>2. Holds(r, job'[r])
    BY <1>2, <2>1
  <2>3. \A q \in Requests : q # r => job'[q] = job[q]
    BY <1>4, OneMoves DEF CommandsTypeOK
  <2> QED BY <1>2, <1>3, <1>4, <2>2, <2>3
<1>5. ASSUME NEW r \in Requests, BeginCall(r)
      PROVE  ToldHeld'
  <2>1. /\ BeginAny(r) /\ told' = [told EXCEPT ![r] = Announced] /\ cmd' = cmd
    BY <1>5 DEF BeginCall
  <2>2. \A q \in Requests : q # r => job'[q] = job[q]
    BY <2>1, OneMoves DEF CommandsTypeOK
  <2>3. job'[r].answer # "error" =>
            \A o \in Announced : In(cmd[o], job'[r].held)
    <3>1. CASE BeginMalformed(r)
      BY <3>1, EndForms DEF BeginMalformed, Stops, CommandsTypeOK
    <3>2. ASSUME NEW tag \in AnyTag, NEW pin \in AnyDigest, NEW p \in Policies,
                 Begin(r, tag, pin, p)
          PROVE  \A o \in Announced : In(cmd[o], job'[r].held)
      <4>1. /\ job'[r].held.approvals = approvals /\ job'[r].held.freezes = freezes
            /\ job'[r].held.bypasses = bypasses
        BY <3>2, BeginForms DEF CommandsTypeOK
      <4> QED BY <4>1 DEF RowsOfCommands, Announced, Reported
    <3> QED BY <2>1, <3>1, <3>2 DEF BeginAny
  <2>4. ASSUME NEW q \in Requests, NEW o \in told'[q]
        PROVE  /\ cmd'[o].exit = "0"
               /\ job'[q].answer # "error" => In(cmd'[o], job'[q].held)
    <3>1. CASE q = r
      BY <1>2, <2>1, <2>3, <2>4, <3>1 DEF Announced
    <3>2. CASE q # r
      BY <1>2, <2>1, <2>2, <2>4, <3>2
    <3> QED BY <3>1, <3>2
  <2> QED BY <2>4 DEF ToldHeld
<1>6. CASE told' = told /\ job' = job
  BY <1>2, <1>3, <1>6
<1>7. ASSUME NEW o \in Commands, RunCommand(o)
      PROVE  told' = told /\ job' = job
  BY <1>7, CommandForms, InsertForms DEF CommandsTypeOK, vars
<1> QED BY <1>4, <1>5, <1>6, <1>7 DEF CommandsNext, AuditDecision, AuditDecisionFails,
           DecideStep, Progress, Tick, commandVars, allVars, vars

LEMMA EventsLoggedNext ==
    ASSUME CommandsTypeOK, TypeOK', AllShaped, CommandsSound, CommandsSound',
           EventsLogged, [CommandsNext]_allVars
    PROVE  EventsLogged'
<1> SUFFICES ASSUME Clean(file')
             PROVE  /\ \A o \in Commands : cmd'[o].audit /\ cmd'[o].exit = "0" =>
                          \E i \in DOMAIN file' : file'[i] = OperationEvent(o)'
                    /\ \A r \in Requests :
                          job'[r].policy.audit /\ job'[r].answer \in {"allow", "deny"} =>
                          \E i \in DOMAIN file' : file'[i] = DecisionEvent(r)'
  BY DEF EventsLogged, Announced, Clean
<1>0. file \in Seq(Line)
  BY DEF CommandsTypeOK
<1>1. /\ Clean(file)
      /\ \A i \in DOMAIN file : i \in DOMAIN file' /\ file'[i] = file[i]
  <2>1. CASE file' = file
    BY <2>1
  <2>2. ASSUME NEW e \in Line, e.text = "event",
               file' = Appended(file, e) \/ file' \in AppendFails(file, e)
        PROVE  /\ Clean(file)
               /\ \A i \in DOMAIN file : i \in DOMAIN file' /\ file'[i] = file[i]
    BY <1>0, <2>2, Appending
  <2> QED BY <2>1, <2>2, FileChanges, EventTypes DEF CommandsTypeOK
<1>2. ASSUME NEW o \in Commands, cmd'[o].audit, cmd'[o].exit = "0"
      PROVE  \E i \in DOMAIN file' : file'[i] = OperationEvent(o)'
  <2>1. CASE cmd'[o] = cmd[o]
    <3>1. PICK i \in DOMAIN file : file[i] = OperationEvent(o)
      BY <1>1, <1>2, <2>1 DEF EventsLogged, Announced
    <3>2. OperationEvent(o)' = OperationEvent(o)
      BY <2>1 DEF OperationEvent
    <3> QED BY <1>1, <3>1, <3>2
  <2>2. CASE cmd'[o] # cmd[o]
    <3>1. RunCommand(o)
      <4>1. ASSUME NEW p \in Commands, RunCommand(p), p # o
            PROVE  FALSE
        BY <2>2, <4>1, CommandForms DEF CommandsTypeOK
      <4> QED BY <2>2, <4>1 DEF CommandsNext, BeginCall, AuditDecision,
                 AuditDecisionFails, DecideStep, commandVars, allVars
    <3>2. /\ file' = Appended(file, OperationEvent(o))
          /\ Further(cmd'[o], cmd[o], "done", "0")
      <4>1. cmd[o].exit # "0"
        BY <3>1, CommandForms DEF CommandsTypeOK, CommandsSound, CommandSound
      <4> QED BY <1>2, <3>1, <4>1, CommandForms DEF CommandsTypeOK, Further, Recorded
    <3>3. OperationEvent(o)' = OperationEvent(o)
      BY <3>2 DEF OperationEvent, Further
    <3>4. OperationEvent(o) \in Line /\ OperationEvent(o).text = "event"
      BY EventTypes DEF CommandsTypeOK
    <3> QED BY <1>0, <3>2, <3>3, <3>4, Appending
  <2> QED BY <2>1, <2>2
<1>3. ASSUME NEW r \in Requests, job'[r].policy.audit,
             job'[r].answer \in {"allow", "deny"}
      PROVE  \E i \in DOMAIN file' : file'[i] = DecisionEvent(r)'
  <2>1. CASE job'[r] = job[r]
    <3>1. PICK i \in DOMAIN file : file[i] = DecisionEvent(r)
      BY <1>1, <1>3, <2>1 DEF EventsLogged
    <3>2. DecisionEvent(r)' = DecisionEvent(r)
      BY <2>1 DEF DecisionEvent
    <3> QED BY <1>1, <3>1, <3>2
  <2>2. CASE job'[r] # job[r]
    <3>1. ASSUME NEW q \in Requests, BeginAny(q) \/ Progress(q)
          PROVE  q = r
      BY <2>2, <3>1, OneMoves DEF CommandsTypeOK
    <3>2. \A o \in Commands : RunCommand(o) => job' = job
      BY CommandForms, InsertForms DEF CommandsTypeOK, vars
    <3>3. \/ BeginCall(r) \/ AuditDecision(r) \/ AuditDecisionFails(r) \/ DecideStep(r)
      BY <2>2, <3>1, <3>2 DEF CommandsNext, BeginCall, AuditDecision,
         AuditDecisionFails, DecideStep, Progress, Tick, commandVars, allVars, vars
    <3>4. ~BeginCall(r)
      BY <1>3, BeginForms, EndForms DEF BeginCall, BeginAny, BeginMalformed, Stops,
                                       CommandsTypeOK
    <3>5. ~AuditDecisionFails(r)
      BY <1>3, EndForms DEF AuditDecisionFails, CallFails, Stops, CommandsTypeOK
    <3>6. ~DecideStep(r)
      BY <1>3, ProgressKeeps DEF DecideStep, CommandsTypeOK
    <3>7. AuditDecision(r) /\ Stops(job'[r], job[r], job[r].outcome)
      BY <3>3, <3>4, <3>5, <3>6, EndForms DEF AuditDecision, WriteAudit, CommandsTypeOK
    <3>10. file' = Appended(file, DecisionEvent(r))
      BY <1>3, <3>7 DEF AuditDecision, Recorded, Stops
    <3>8. DecisionEvent(r)' = DecisionEvent(r)
      BY <3>7 DEF DecisionEvent, Stops
    <3>9. DecisionEvent(r) \in Line /\ DecisionEvent(r).text = "event"
      BY EventTypes DEF CommandsTypeOK
    <3> QED BY <1>0, <3>8, <3>9, <3>10, Appending
  <2> QED BY <2>1, <2>2
<1> QED BY <1>2, <1>3


LEMMA CommandsInvariant ==
    CommandsSpec => [](RowsOfCommands /\ CommandsOfRows /\ ToldHeld /\ EventsLogged)
<1>1. CommandsInit => RowsOfCommands /\ CommandsOfRows /\ ToldHeld /\ EventsLogged
  <2>1. NewCommand.pc = "new" /\ NewCommand.exit = "none" /\ NewJob.answer = "none"
    BY DEF NewCommand, NewJob
  <2>2. DOMAIN <<>> = {}
    OBVIOUS
  <2>3. CommandsInit => \A o \in Commands : ~Reported(o) /\ cmd[o].pc = "new"
    BY <2>1, <2>2 DEF CommandsInit, Reported
  <2>4. CommandsInit => CommandsOfRows /\ RowsOfCommands
    BY <2>3 DEF CommandsInit, Init, CommandsOfRows, RowsOfCommands
  <2>5. CommandsInit => ToldHeld /\ EventsLogged
    BY <2>1 DEF CommandsInit, Init, ToldHeld, EventsLogged, Announced
  <2> QED BY <2>4, <2>5
<1>2. /\ CommandsTypeOK /\ TypeOK' /\ AllShaped /\ CommandsSound /\ CommandsSound'
      /\ RowsOfCommands /\ CommandsOfRows /\ ToldHeld /\ EventsLogged
      /\ [CommandsNext]_allVars
      => (RowsOfCommands /\ CommandsOfRows /\ ToldHeld /\ EventsLogged)'
  BY RowsOfCommandsNext, CommandsOfRowsNext, ToldHeldNext, EventsLoggedNext
<1>3. CommandsSpec => [](TypeOK /\ AllShaped)
  BY CommandsAreOperators, ShapeInvariant, PTL
<1> QED BY <1>1, <1>2, <1>3, CommandsTyped, CommandsTypeCorrect, PTL DEF CommandsSpec

(* A row that covers a call is in force for it.                             *)
LEMMA CoveredInForce ==
    ASSUME NEW c, NEW j, Covers(c, j), NEW x, x.expiresAt = Expiry(c.now, c.ttl)
    PROVE  InForce(x, j)
BY DEF Covers, InForce, Expiry

(* Once ribat freeze has exited 0, no call that begins afterwards is        *)
(* allowed what it covers (runFreeze, cmd/ribat/main.go:399-439, against    *)
(* engine.go:121-172).                                                      *)
THEOREM AnnouncedFreezesHold == CommandsSpec => []AnnouncedFreezeRefuses
<1>1. CommandsTypeOK /\ ToldHeld /\ FreezeRespected => AnnouncedFreezeRefuses
  <2> SUFFICES ASSUME CommandsTypeOK, ToldHeld, FreezeRespected,
                      NEW r \in Requests, Admitted(r), Pinned(r) \/ Quarantined(r),
                      NEW o \in told[r], cmd[o].kind = "freeze", Covers(cmd[o], job[r])
               PROVE  FALSE
    BY DEF AnnouncedFreezeRefuses
  <2>1. PICK f \in job[r].held.freezes :
            /\ f.tag = cmd[o].tag /\ f.digest = cmd[o].digest
            /\ f.expiresAt = Expiry(cmd[o].now, cmd[o].ttl)
    BY DEF ToldHeld, InTables, Admitted
  <2>2. f.tag = job[r].tag /\ f.digest \in {NoDigest, job[r].digest}
    BY <2>1 DEF Covers
  <2>3. FreezeFor(job[r].held.freezes, job[r])
    BY <2>1, <2>2, CoveredInForce DEF FreezeFor
  <2> QED BY <2>3 DEF FreezeRespected
<1> QED BY <1>1, CommandsInvariant, CommandsTypeCorrect, CommandsRespectFreezes, PTL

(* Once ribat approve or ribat bypass has exited 0, a call that begins      *)
(* afterwards, that it covers and that nothing disturbs, is refused only    *)
(* under a freeze (cmd/ribat/main.go:321-397).                              *)
THEOREM AnnouncedOverridesHold == CommandsSpec => []AnnouncedOverrideAdmits
<1>1. /\ CommandsTypeOK /\ CommandsSound /\ ToldHeld /\ DenialJustified
      => AnnouncedOverrideAdmits
  <2> SUFFICES ASSUME CommandsTypeOK, CommandsSound, ToldHeld, DenialJustified,
                      NEW r \in Requests, job[r].answer = "deny", Quarantined(r),
                      ~job[r].disturbed, ~FreezeFor(freezes, job[r]),
                      NEW o \in told[r], cmd[o].kind \in {"approval", "bypass"},
                      Covers(cmd[o], job[r])
               PROVE  FALSE
    BY DEF AnnouncedOverrideAdmits
  <2>1. o \in Commands /\ cmd[o].exit = "0"
    BY DEF CommandsTypeOK, ToldHeld
  <2>2. /\ ~ApprovalFor(job[r].held.approvals, job[r])
        /\ ~BypassFor(job[r].held.bypasses, job[r])
    BY DEF DenialJustified
  <2>3. CASE cmd[o].kind = "approval"
    <3>1. PICK a \in job[r].held.approvals :
              /\ a.tag = cmd[o].tag /\ a.digest = cmd[o].digest
              /\ a.expiresAt = Expiry(cmd[o].now, cmd[o].ttl)
      BY <2>3 DEF ToldHeld, InTables
    <3>2. cmd[o].digest \in Digests
      BY <2>1, <2>3 DEF CommandsSound, CommandSound, Checked
    <3>3. a.tag = job[r].tag /\ a.digest = job[r].digest
      BY <3>1, <3>2, DigestsAssumption DEF Covers
    <3> QED BY <2>2, <3>1, <3>3, CoveredInForce DEF ApprovalFor
  <2>4. CASE cmd[o].kind = "bypass"
    <3>1. PICK b \in job[r].held.bypasses :
              /\ b.tag = cmd[o].tag
              /\ b.expiresAt = Expiry(cmd[o].now, cmd[o].ttl)
      BY <2>4 DEF ToldHeld, InTables
    <3> QED BY <2>2, <3>1, CoveredInForce DEF BypassFor, Covers
  <2> QED BY <2>3, <2>4
<1>2. CommandsSpec => []DenialJustified
  BY CommandsAreOperators, RefusalsAreJustified, PTL
<1> QED BY <1>1, <1>2, CommandsInvariant, CommandsTypeCorrect, CommandsTyped, PTL

LEMMA StoredRowsAre ==
    /\ StoredRows("approval") =
          {[tag |-> x.tag, expiresAt |-> x.expiresAt, digest |-> x.digest] : x \in approvals}
    /\ StoredRows("freeze") =
          {[tag |-> x.tag, expiresAt |-> x.expiresAt, digest |-> x.digest] : x \in freezes}
    /\ StoredRows("bypass") =
          {[tag |-> x.tag, expiresAt |-> x.expiresAt, digest |-> NoDigest] : x \in bypasses}
BY DEF StoredRows

(* Whatever fails or is killed, the rows in force are those of commands     *)
(* that wrote them, and a command that exits 0, or whose event is in the    *)
(* file, has its row in the table (cmd/ribat/main.go:321-439).              *)
THEOREM CommandsTellTheTruth == CommandsSpec => []CommandsTruthful
<1>1. CommandsTypeOK /\ CommandsSound /\ RowsOfCommands /\ CommandsOfRows => CommandsTruthful
  <2> SUFFICES ASSUME CommandsTypeOK, CommandsSound, RowsOfCommands, CommandsOfRows
               PROVE  CommandsTruthful
    OBVIOUS
  <2>1. ASSUME NEW o \in Commands, Reported(o)
        PROVE  RowOf(cmd[o]) \in StoredRows(cmd[o].kind)
    <3>1. InTables(cmd[o], approvals, freezes, bypasses) /\ cmd[o].kind \in Kinds
      BY <2>1 DEF RowsOfCommands, CommandsTypeOK, Command
    <3>2. CASE cmd[o].kind \in {"approval", "freeze"}
      BY <3>1, <3>2, StoredRowsAre DEF InTables, RowOf
    <3>3. CASE cmd[o].kind = "bypass"
      <4>1. PICK b \in bypasses :
                b.tag = cmd[o].tag /\ b.expiresAt = Expiry(cmd[o].now, cmd[o].ttl)
        BY <3>1, <3>3 DEF InTables
      <4>2. cmd[o].digest = NoDigest
        BY <3>1, <3>3 DEF InTables
      <4> QED BY <3>3, <4>1, <4>2, StoredRowsAre DEF RowOf
    <3> QED BY <3>1, <3>2, <3>3 DEF Kinds
  <2>2. ASSUME NEW kind \in Kinds, NEW row \in StoredRows(kind)
        PROVE  \E o \in Commands : /\ cmd[o].kind = kind /\ RowOf(cmd[o]) = row
                                   /\ cmd[o].pc = "log" \/ cmd[o].exit \in {"0", "1"}
    <3>1. CASE kind = "approval"
      <4>1. PICK x \in approvals :
                row = [tag |-> x.tag, expiresAt |-> x.expiresAt, digest |-> x.digest]
        BY <2>2, <3>1, StoredRowsAre
      <4> QED BY <3>1, <4>1 DEF CommandsOfRows, RowOf, Wrote
    <3>2. CASE kind = "freeze"
      <4>1. PICK x \in freezes :
                row = [tag |-> x.tag, expiresAt |-> x.expiresAt, digest |-> x.digest]
        BY <2>2, <3>2, StoredRowsAre
      <4> QED BY <3>2, <4>1 DEF CommandsOfRows, RowOf, Wrote
    <3>3. CASE kind = "bypass"
      <4>1. PICK x \in bypasses :
                row = [tag |-> x.tag, expiresAt |-> x.expiresAt, digest |-> NoDigest]
        BY <2>2, <3>3, StoredRowsAre
      <4> QED BY <3>3, <4>1 DEF CommandsOfRows, RowOf, Wrote
    <3> QED BY <3>1, <3>2, <3>3 DEF Kinds
  <2> QED BY <2>1, <2>2 DEF CommandsTruthful
<1> QED BY <1>1, CommandsInvariant, CommandsTypeCorrect, CommandsTyped, PTL

(* An audit that exits 0 tells of every command that exited 0 and of every  *)
(* answered decision whose process has the log configured, whatever was cut *)
(* short before (runAudit, cmd/ribat/main.go, against Logger.Record of      *)
(* internal/audit).                                                         *)
THEOREM CleanAuditTellsAll == CommandsSpec => []AuditTellsAll
<1>1. CommandsTypeOK /\ EventsLogged => AuditTellsAll
  <2> SUFFICES ASSUME CommandsTypeOK, EventsLogged,
                      NEW e, \/ e \in {OperationEvent(o) :
                                     o \in {o \in Announced : cmd[o].audit}}
                             \/ e \in {DecisionEvent(r) : r \in {r \in Requests :
                                   job[r].policy.audit
                                   /\ job[r].answer \in {"allow", "deny"}}},
                      NEW digest \in AnyDigest, NEW cutoff \in 0..clock,
                      Matches(e, e.tag, digest, cutoff),
                      Audit(file, e.tag, digest, cutoff).exit = "0"
               PROVE  e \in Audit(file, e.tag, digest, cutoff).printed
    BY DEF AuditTellsAll
  <2>1. {i \in DOMAIN file : file[i].text # "event"} = {}
    BY DEF Audit
  <2>2. Clean(file)
    BY <2>1 DEF Clean
  <2>3. PICK i \in DOMAIN file : file[i] = e
    BY <2>2 DEF EventsLogged
  <2>4. DOMAIN file = 1..Len(file)
    BY DEF CommandsTypeOK
  <2> QED BY <2>1, <2>3, <2>4 DEF Audit
<1> QED BY <1>1, CommandsInvariant, CommandsTypeCorrect, PTL
=============================================================================
