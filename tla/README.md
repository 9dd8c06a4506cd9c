# Ribat in TLA+

Ribat stands between Docker and a registry: a mutable tag is pulled only when the digest it
points to has been known for long enough, has been approved, or the operator bypassed the
delay; a frozen tag or digest is refused; a required Cosign signature is checked first. This
directory models that gate and what surrounds it (the state it keeps, the two programs that ask
it, the commands that override it, the registry client and the policy file it rests on), checks
the models with TLC on small instances and proves the central facts with TLAPS for every value of
the constants.

Paths below are relative to the repository root (`internal/...`, `cmd/...`, `docs/...`).

## 1. The system

| Component | State it keeps | Operations | Talks to |
| --- | --- | --- | --- |
| decision engine, `internal/quarantine/engine.go` | locals of each call of `Decide` | `Decide` (branches for pinned, denied, allowed and quarantined references), `verifyCosign`, `record` | store, registry client, verifier, audit log; all by blocking calls |
| state store, `internal/store/sqlite.go` | six SQLite tables with AUTOINCREMENT ids, times in whole seconds | observation insert/touch/mark, override insert and lookup, Cosign cache, decision insert, export, import | one file shared by every process; no busy timeout, a pool of connections |
| registry proxy, `internal/proxy/server.go` | `allowedBlobs`, in memory, behind a mutex | manifest HEAD/GET, blob HEAD/GET | engine, registry client |
| authorization plugin, `internal/authz/server.go` | none | `AuthZReq` for pull, build, container and service requests; `AuthZRes` | Docker daemon, engine, store, audit log |
| registry client, `internal/registry/resolver.go` | none | `Resolve` (HEAD, GET fallback), `FetchManifest`, `FetchBlob`, bearer token exchange | registries |
| Cosign verifier, `internal/verify/cosign.go` | none | `Verify`, `CosignPolicyKey` | the `cosign` program |
| audit log, `internal/audit/logger.go` | JSONL file | append one event | file system |
| policy, `internal/policy/*.go` | none | parse, validate, match a reference, durations | - |
| image references, `internal/image/reference.go` | none | parse, normalise | - |
| command line, `cmd/ribat/main.go` | none | serve, decide, approve, bypass, freeze, status, audit, export-state, import-state | all of the above |

**What is hard.** Every HTTP request is a goroutine of its own and calls `Decide`; proxy,
plugin and `ribat decide` are separate processes on one database, and no call holds a
transaction over more than one statement. So between the registry's answer and the recorded
verdict anything may happen: another call observes the same digest, the operator writes an
override, an import replaces rows by id, the tag moves, the clock runs, a statement fails with
SQLITE_BUSY, the process dies. `now` is read once, before the registry is asked. Times are
truncated to seconds when stored. The proxy decides for one manifest and then fetches the tag
again. The daemon resolves the tag again after the plugin has answered.

**What makes it correct.**

- Engine: an allow of a quarantined tag has a reason (age, approval of that digest, bypass of
  that tag, first sight where policy says so); a stored freeze refuses what it covers; required
  verification precedes admission under the very policy that asks, except in the two branches that
  allow outright (section 4); an allow is in the table, and in the audit log where `audit.path` is
  set; an undisturbed call refuses only for the stated reason; every call ends.
- Store: one observation per tag and digest, whose `first_seen_at` never moves; cache rows say
  what cosign said; an import keeps what it has nothing to do with; an export is complete enough
  to explain the decisions it holds.
- Proxy: a blob is served only on the strength of an allowed manifest of this process, and a
  manifest shown to a client has its blobs available; a manifest served is the one decided on.
- Plugin: what the daemon runs was allowed and recorded (with an event where `audit.path` is set);
  a build that pulls never runs; of a request that names its image once, the daemon pulls the digest
  that was decided on.
- Commands: an override a command announced by exit 0 counts in every later pull it covers; exit 2
  means nothing was done; an audit that exits 0 has told everything announced by processes that log.
- Registry client: the digest returned is current, not that of an answer before the fallback or
  the token; a registry that keeps to the protocol is never given up on; the exchange is bounded.
- Policy and references: a file accepted means what was written; every policy in force can be run;
  the spelling of an image changes nothing.

The hazards, with their lines and the properties that are about them, are listed in
`PROJECT.json`.

## 2. Modules

```
RibatStore ─┬─ Quarantine ─┬─ QuarantineInvariant ─┬─ QuarantineProofs ── QuarantineGateProofs
            │              │                       ├─ QuarantineRefinement ─┬─ MCQuarantine
            │              ├─ QuarantineDocs ──────│────────────────────────┘
            │              │                       └─ StateTransfer ─┬─ MCStateTransfer
            │              │                                         └─ StateTransferProofs
            │              └─ OperatorCommands ─┬─ MCOperatorCommands
            │                                   └─ OperatorCommandsProofs
            └─ PullGate  (instantiated by QuarantineRefinement)

ProxyGate ─┬─ MCProxyGate            RegistryResolve ── RegistryResolveProofs
           └─ ProxyGateProofs        ImageReference ── PolicyFile ─┬─ MCPolicyFile
AuthzPlugin ─┬─ MCAuthzPlugin                                      └─ PolicyFileProofs
             └─ AuthzPluginProofs
```

`QuarantineGateProofs` extends `QuarantineRefinement` as well, and `OperatorCommandsProofs` and
`StateTransferProofs` extend `QuarantineGateProofs`: what is proved of a call of `Decide` is used
again where commands or imports run beside it.

**RibatStore** holds the tables as sets of rows and each SQL statement as an operator on them:
`ActiveFreezes`, `ActiveApprovals`, `ActiveBypasses` (the three lookups of `LocalOverride`),
`ObservationsOf`, `InsertOrIgnore`, `Touched`, `MarkedAllowed`, `CosignOf`, `UpsertCosign`.
A lookup returns the set of rows the statement may return, `{}` for none; which one `ORDER BY
... LIMIT 1` picks changes only messages. `Unix` is the truncation to seconds: a tick of the
model's clock is a fraction `1/TicksPerSecond` of a second. One repository is modelled, because
every statement is keyed by registry and repository.

**Quarantine** is `Engine.Decide`. `job[r]` is the stack frame of call `r`; `job[r].pc` names the
call the goroutine makes next, and each of those calls is one action:

| Code | Action |
| --- | --- |
| `Decide` up to its first call out (parse, policy, `now`) | `Begin`, `BeginMalformed` |
| `Resolver.Resolve` and its error branch | `ResolveDigest`, `ResolveFails` |
| `LocalOverride`: three SELECTs, then the freeze test and the branch to `decideDigestPinned` | `ReadFreeze`, `ReadApproval`, `ReadBypass` |
| `GetObservation` | `ReadObservation` |
| `CreateObservation`: INSERT OR IGNORE, then SELECT | `CreateObservation`, `ReadCreated` |
| `TouchObservation` and the age test | `TouchObservation` |
| `verifyCosign`: cache, `cosign`, save | `ReadCosignCache`, `CosignAnswers`, `RecordCosign` |
| `MarkObservationAllowed` | `MarkAllowed` |
| `record`: row, then audit event | `RecordDecision`, `WriteAudit` |
| any of these fails | `CallFails` (Decide returns the error), `VerificationFails` (a recorded deny) |
| the process ends | `Die` |
| `ribat approve`, `freeze`, `bypass` | `ApproveDigest`, `FreezeTag`, `BypassTag` |
| registry and clock | `MoveTag`, `Tick` |

What a process is configured with is the call's `policy`: that of the reference, and `audit`, whether
`audit.path` names a file. Nothing checks that it does (`config.go:118`), and without it
`Logger.Record` returns at once and reports success (`logger.go:37`), so `WriteAudit` then writes
nothing and the call goes on to its answer.

History variables, which no action reads: `resolvedAt` and `insertedAt` (when a tag and digest
were first learnt of and first inserted), `verified` (what cosign accepted), `job[r].held` (the
overrides stored when the call began) and `job[r].disturbed` (a call out of it failed).

**QuarantineInvariant** states what holds of a call at every step (section 5).
**QuarantineDocs** states a sentence of the documentation that the code does not keep.
**QuarantineProofs** (types and the shape of a call, Cosign, the record, freezes) and
**QuarantineGateProofs** (the reasons to admit and to refuse, the table of observations, the
refinement) hold the proofs.

**PullGate** is what a caller of `Decide` may rely on: a call is asked (`Ask`) and answered in one
step, `Admit` or `Refuse`, on grounds present at that moment, and leaves its audit event, where there
is a log, in the same step; or it is given up (`GiveUp`) and leaves nothing. `World` adds grounds: approvals, freezes,
bypasses, signatures, first sights and time, none of which is taken back.
**QuarantineRefinement** maps Quarantine to it: a call is asked where `Decide` reads the clock and
answered where `WriteAudit` appends the event, if there is a file for it. The dozen statements in between are hidden, so the
refinement says that reads made at different moments, between which others write, still add up to
grounds that hold together at the end.

**OperatorCommands** extends Quarantine with `ribat approve`, `bypass` and `freeze` as processes:
check the options, read the clock (`StartCommand`), insert the row and read it back
(`WriteOverride`), append the event (`LogOperation`), exit. Each may fail after any of these
(`CommandFails`, `LogOperationFails`, a read back that fails). The audit log is a file of lines; an
append that fails may leave part of a line, and the next event lands behind it; a process without
`audit.path` leaves nothing (`Recorded`, `RecordFails`). `Audit` is `ribat audit`, which stops at the first line it cannot parse. `told[r]` is history: the commands that had
exited 0 when call `r` began. `CommandsAssumption` keeps the names of commands and calls apart and
says that there is a lifetime to give.

**StateTransfer** extends Quarantine with `export-state` (one table per step: `ExportState` opens
no transaction) and `import-state` (one transaction of INSERT OR REPLACE, ids included), of the
file this database exported or of the files of other hosts. Other hosts run the same program, so
`PeerFilesAssumption` gives their tables the constraints of the schema: unique ids with a last one,
and one observation per tag and digest. The history variables are `imported`, the peers' files that
were imported, and `replaced`, the overrides an import took away.

**ProxyGate** is the proxy's two handlers. The engine is one step here (`Decide`), the fetch
another (`FetchManifest`), then `rememberManifestBlobs` takes the mutex once per blob
(`RememberBlob`), and only then is the answer written (`ServeManifest`). `Restart` loses
`allowedBlobs`. Which digests the engine allows is a set that grows (`Admit`) and shrinks
(`Withdraw`); `Quarantine` has the detail.

**AuthzPlugin** is `handleAuthZReq` for each kind of request `inspectRequest` tells apart
(`ReceiveDecided`, `ReceiveBuild`, `ReceiveOther`, `ReceiveMalformed`). `CombineImageAndTag` is
`combineImageAndTag`: an image that has a tag or a digest is taken as it is, behind any other comes the
tag parameter, even a digest, which `ParseReference` then rejects (`Parses`). The engine is seen from
outside: its verdict is any, on the digest the reference has now or on none (`EngineDecides`), and what
it decided, like the synthetic deny of a build, is recorded in two steps, the row and, where `auditPath`
is set, the event (`RecordDecision`, `AuditDecision`), each of which may fail. The daemon is no part of
the repository. Nothing is assumed of it but that it runs what was allowed and pulls something the
request names (`Names`): the tag or digest in the image or the tag parameter, any tag where there is
none, resolved anew (`DaemonRuns`). So the model does not say that the daemon reads a request as the
plugin does; what it pulls is claimed to be what was decided only where the request leaves one reading.

**RegistryResolve** is one operation of the registry client, request by request: `Resolve` asks with
HEAD, falls back to GET, answers a 401 with a bearer token and starts over; `FetchManifest` and
`FetchBlob` ask with GET. `Receive` is the client's reading of an answer; `Serve` is a registry that
keeps to the protocol, in one of the ways `Profile` lists (HEAD served, refused, or answered 404;
with or without token, demanded before or after the method is looked at); `Misserve`,
`NetworkFails` and `TokenFails` are everything else. `Publish` moves, deletes or restores the tag
at any moment. The other modules take what this one shows of `Resolve`: a digest the tag had during
the call, or an error.

**ImageReference** is `ParseReference` on references that are already cut at their separators:
`NormalizeName` finds the registry and adds `library`, `Text` is the canonical text that patterns are
matched with and decisions are stored under; `Malformed` and `BadSuffixes` stand for the components, tags and
digests its regular expressions reject. **PolicyFile** is the policy parser, which builds no
tree: it keeps the last key at each indentation (`paths`) and the rule it is in (`currentRule`), one
line of `file` per step (`ReadBlank`, `ReadItem`, `ReadKey`, `ReadValue`), then validates (`Finish`).
`Overlay`, `MatchPattern` and `EffectivePolicyFor` are the policy of a reference, `Signers` what cosign
will be asked for. The files are generated from documents in several layouts (`FileOf`), so that what
was written is known independently of what was read; a field that a document leaves out is a blank
line, so every line has its place (`DefaultLines`, `RuleLines`), however many rules there are. `Words`
are the texts that are not cut further: every key, value, component, tag and digest.

Definitions whose comment begins "Faulty form of" are used by nothing: each is a plausible bug
in the definition that follows it, and `PROJECT.json` pairs it with the property that finds it.

## 3. Runs

Deadlock is not checked: every model ends when its calls have been used up, and a call that
stays stuck half-way is found by `EveryCallEnds` instead.

| Run | Question | Properties |
| --- | --- | --- |
| QuarantineAge | Two calls race on one tag that moves between two digests, with half-second ticks and a registry that may take one tick. Does only age admit, is a young digest denied for its age alone, and does the table survive? | TypeOK, AdmittedForAReason, DenialJustified, OneRowPerTuple, FirstSeenKept |
| QuarantineGate | Two calls take every way through `Decide`, with an override, failures and crashes, under one policy that quarantines tags and one that allows them and has no audit log, with different signers and one shared cache. Is `Decide` an atomic gate, is every admission but an outright one verified under its own policy, is every admission in the table and in the log where there is one, and does every call end? | VerifiedBeforeAdmission, AdmissionRecorded, GateInvariant, EveryCallEnds, GateImplemented |
| OperatorCommands | Two commands and a decision over one database and one log, one failure anywhere, an age no call can reach, so that only overrides admit, half-second ticks and a lifetime of a second and a half. Does what was announced hold until its end, and does the log tell it? | CommandsTypeOK, AdmittedForAReason, FreezeRespected, AnnouncedFreezeRefuses, AnnouncedOverrideAdmits, CommandsTruthful, AuditTellsAll |
| Transfer | An export is read table by table, and it or the file of another host, whose ids collide with local ones, is imported during a decision. Are ages and freezes still those of the right digest, does the file explain its allows, and does the own file lose nothing? | OneRowPerTuple, AgedHereOrAtPeer, StoredFreezeRespected, ExportExplainsAllows, OwnFileKeepsState |
| ProxyGate | Two handlers, two images with a common layer, a moving tag, a digest that is frozen, restarts. | TypeOK, ServedAsDecided, BlobNeedsAllowedManifest, ShownBlobsNotDenied |
| AuthzPlugin | One request of every kind, its image named in every way, over three tags that move (one of them `latest`), with and without an audit log, recording failures, crashes. Is what ran allowed and recorded, and is it what was decided on? | RunsAreAccounted, ReasonedRefusalsRecorded, PulledAsDecided |
| RegistryResolve | Every operation against every kind of honest registry and against one that misbehaves at any request, while the tag moves. | AnswerIsCurrent, HonestRegistryAnswers, RequestsBounded, OperationEnds |
| PolicyFile | Files of up to two rules, with good and bad values, the four blocks in any order. Does an accepted file mean what it says, for every spelling of an image? | TypeOK, PolicyAsWritten, EveryPolicyUsable, SpellingIrrelevant |
| DocTagFreeze | `reference/cli.md:352` against the early returns of `Decide`. Violated. | TagFreezeBlocksEveryDigest |
| DocImportWipes | `developer/storage.md:34` against a file of another host. Violated. | LocalStateKept |
| DocDeniedLayers | `user/proxy-mode.md:29` against a tag that moves between decision and fetch. Violated. | DeniedLayersNotServed |
| DocPolicyYaml | `reference/config.md:8` against layouts that YAML allows. Violated. | YamlAsWritten |

**Bounds.** `Requests` has two members where calls meet (every interference in the code is between
two statements of one call and one other writer) and one where a command or an import is that other
writer. Two digests are what a moved tag, a colliding id and an override of another digest need; one
tag is enough because a lookup by another tag finds nothing. `MaxClock` exceeds `minAge` plus the
registry's delay in QuarantineAge, so that a digest is denied when young and admitted when old in
one behaviour, by different calls. QuarantineGate needs no clock (`minAge` 0) and no second digest:
what it asks is about keys, the record and the order of writes; its refinement is proved for all
values (section 5). `MaxOverrides = 2` in OperatorCommands puts a freeze against an approval or a
bypass; a lifetime of three ticks of half a second is stored as one second, half a second before its
end, and ends before, during or after the call; `LastStart = 0` starts the commands in the
first tick, and `MaxFaults = 1` lets one command or call fail in the middle: what the properties say
of a failure concerns the line it leaves and the next append to it. Its processes all log; that the
others leave nothing is run for decisions in QuarantineGate and AuthzPlugin, and proved for commands.
`MaxResolve` bounds how long the
registry takes: the HTTP client gives up by itself. `MaxExports = 1`: an import may come before,
between and after. One request is enough in AuthzPlugin, because requests share nothing but the tags,
which move in every way beside it; two tags beside `latest` and three digests let every name of a
request lead somewhere else. In RegistryResolve `MaxCount` only keeps the history counters finite; it is above
what `RequestsBounded` allows. PolicyFile's two rules are what precedence and a value that slips
into the next rule need; all 24 orders of the blocks are tried, and theorem `PolicyIsAsWritten` lifts
the bound on documents. `Symmetry` permutes calls,
commands and digests, which the models treat alike (in AuthzPlugin the digests only, since `latest` is a tag); it is not used in the runs with liveness
properties, nor in Transfer, whose peer's file names digests.

**Fairness.** `EveryCallEnds` assumes `WF_vars(Progress(r))` for each call and nothing of the
operator, the registry, the clock or crashes. It is what the code rests on: the Go scheduler runs
every goroutine, and every call out of it returns (the registry client gives up after 30 seconds,
SQLite reports a locked file at once, cosign is a child process that is killed when the request's
context ends), perhaps with an error, which is a step of `Progress` too. The property is about the
control: no path of `Decide` retries without end or waits for another call. `OperationEnds` assumes
`WF_vars(Progress)` of RegistryResolve, on the same ground: the HTTP client's timeout of 30 seconds
ends every request, and the goroutine runs on.

## 4. Where the code and its documentation part

Four statements are refuted by runs (section 3); their traces:

- *Tag freeze.* With `mutable_tags.action: allow`, or `failed_registry_resolution: allow` and a
  registry that is down, `Decide` concludes (engine.go:95, 111) before any freeze is read.
- *Import.* INSERT OR REPLACE keeps the ids of the exporting host: its freeze number 1 deletes
  the local freeze number 1, whatever that covers.
- *Denied layers.* The tag is resolved for the decision and again for the fetch. If it moves in
  between to a digest for which another request was denied, that manifest is served and its layers
  are remembered as allowed.
- *Policy layout.* A list of rules in the column of its key, or four columns in, is passed over line
  by line, and an item whose first key is not `match` loses that key, so that what is nested below is
  dropped or read by the keys of the rule before: the file is accepted without its rules or with
  other ones.

Seen while modelling, without a run of their own:

- *Cosign.* The two branches of the first trace return before `verifyCosign` too. With
  `signatures.cosign.required: true` and `mutable_tags.action: allow`, or a registry that is down and
  `failed_registry_resolution: allow`, a tag is allowed and nothing was verified (engine.go:95, 111),
  where `reference/config.md:150` says "Require Cosign verification before allow decisions" and
  `user/security-model.md:12` that the digest must satisfy the verification policy.
  `VerifiedBeforeAdmission` names the two branches (`AllowedOutright`) and holds of every other allow.
- *No audit path.* `audit.path` may be empty: validation accepts it (config.go:118-153), the proxy, the
  plugin and `ribat decide` pass it on (main.go:155, 225, 271), and `Record` succeeds without writing
  (logger.go:37). Pulls are then allowed, builds refused and overrides written without an event, where
  `developer/storage.md:38` says that every allow and deny should be auditable and
  `reference/config.md:60` that audit is required for modes that write it. The properties about the log
  are therefore stated for processes that have one; the rows of SQLite are there for all.
- *Refusals without a record.* A request the plugin cannot inspect (authz/server.go:107), a pull without
  `fromImage` among them (line 190), or whose decision fails, is refused without a row or an event
  (`developer/storage.md:38`).
- *Two names in one request.* `images/create` may name a tag or digest in `fromImage` and another in
  `tag`, or no tag at all. The plugin decides on `fromImage`, or on `latest` (authz/server.go:330); the
  Docker Engine lets the parameter replace a tag and takes no tag for all tags. `PulledAsDecided` leaves
  such requests out.
- A freeze is stored under a tag, and its command insists on one; `name@digest` is looked up under
  the empty tag, so a frozen digest is still pulled by its name (`reference/config.md:103`: "Digest-pinned
  images can still be denied by an active freeze").
- `first_seen_at` is the time the inserting call began, before the registry answered: the age test
  counts up to the registry's delay, and up to a second of truncation, too much. `Slack` in
  `AdmittedForAReason` is exactly that.
- A call that began earlier and touches a row later writes its older `now`: `last_seen_at` may
  precede `first_seen_at`.
- `failed_signature_check` is parsed and validated and read by nothing (`reference/config.md:135`).
- The pattern `nginx:*`, with no slash, is matched with the tag alone: it covers every image.
  A pattern with a slash and `:*` does not cover `name@digest`.
- `docker.io/nginx` is kept apart from `docker.io/library/nginx` (reference.go:122).
- When `rules` stands before `default_policy` with no scalar in the first column between them, the
  default's nested values go to the last rule; the file is rejected, since the default then has no
  action.
- A row whose audit event could not be appended stays in force although its command exited 1
  (`developer/storage.md:38`); after one torn line `ribat audit` exits 1 and prints nothing
  further, and a line beyond 64 KiB is unreadable to it.
- Durations beyond 106751 days wrap in 64-bit nanoseconds (duration.go:26).
- With `allow_first_seen_pull` a pull through the proxy is first sight at its HEAD; its GET finds a
  young observation and is denied (`reference/config.md:79`).
- If an import removes a row between the insert and the read back, `Decide` dereferences nil
  (`ReadCreated`, answer "panic").

## 5. Proofs

Assumed of the constants: `NoTag` and `NoDigest` are no tag and no digest, a second has at least
one tick, lifetimes are positive or `Never`, policies are records of the right fields and there is
one, bounds are naturals. Nothing is assumed to be finite. TLC evaluates every assumption in every
run.

- `TypeCorrect`: `Spec => []TypeOK`. One lemma per action; the records of `job` are handled by
  lemmas that say which fields a step keeps.
- `ShapeInvariant`: `Spec => []AllShaped`. `CallShape` says what a step of `Decide` may take for
  granted: that a digest is known past the registry's answer, that only quarantined tags have
  observations, that a verdict exists when it is recorded, that nothing is answered early. TypeOK and
  AllShaped together are inductive.
- `VerifiedInvariant`, `OnlyVerifiedAdmitted`: `Spec => []VerifiedBeforeAdmission`: where Cosign is
  required, an allow rests on cosign or on one of the two outright branches, and on nothing else. That
  a verdict reached without verification can only be one of those two comes from `AllGrounded` (below),
  so the theorem stands in QuarantineGateProofs. The property
  speaks of answers only; to be inductive it must say where the certainty is on the way: in the
  cache (`CacheSound`: a cached success was accepted by cosign under that digest and key), in
  `save` with success, in `mark`, in an allow not yet recorded (`RestsOnCosign`). The proof shows
  for each action that it hands this on; an upsert by another call never makes a success out of a
  refusal, and reading the cache yields a success only under the call's own key.

- `UnfrozenInvariant`, `FrozenRefused`: `Spec => []FreezeRespected`. A freeze wins over everything,
  but it is tested two steps after it is read, once approvals and bypasses have been read too. The
  invariant therefore says from which state on a call may rely on "no freeze I began with covers me"
  (`RestsOnNoFreeze`): after the query with an empty result, at every step past the test, and in an
  allow on its way out. It holds because freezes are never deleted, so those the call began with
  (`held`) are still among those the query sees.
- `DatedInvariant`, `JustifiedInvariant`, `OnlyReasonsAdmit`: `Spec => []AdmittedForAReason`.
  `AllDated` is about times. `RowsDated`: a row's `first_seen_at` is at most Slack before somebody
  learnt of its tag and digest (the call that inserts it took its `now` before asking the registry,
  and the column is in seconds, hence `MaxResolve` and `TicksPerSecond - 1`). `InsertedWithRow`: a
  row is there exactly if one was inserted, so a call that saw no row and finds one afterwards
  finds one no older than itself, whoever inserted it. `CallDated` carries those facts through the
  steps at which the call holds a row it has read and others write. `AllJustified` then says that
  past the gate a call has one of four reasons (an approval of the digest, a bypass of the tag,
  first sight where policy allows it, age), and the proof shows for each action that a reason is
  not lost afterwards (`JustifiedOnward`) nor found anywhere but in the overrides, in the row just
  created (`ReadCreated`) and in the age test (`TouchObservation`).
- `RefusedInvariant`, `RefusalsAreJustified`: `Spec => []DenialJustified`. The other direction: what a
  call did not find must not have been there. `AllRefused` carries from each lookup what an empty
  result says of the overrides the call began with, through steps at which other calls and operators
  write; that the row a call holds is never dated after its insertion (`RowsInserted`), so that a row
  found young is young; and that the row a call has read is still there when it is touched and marked
  (`RowsWithId`), so that only a fault (`disturbed`) can make a refusal of something that was granted.
- `GateHolds`: `Spec => []GateInvariant`, all parts together; TLC checks the same formula as an
  invariant of QuarantineGate.
- `AdmissionsAreRecorded`: `Spec => []AdmissionRecorded`, with the event where `audit.path` is set and
  the row always. The row is written before the event and the
  event before the answer; the invariant carries the row from `RecordDecision` to `WriteAudit`
  (`CallRecorded`) and ties every event to a row (`EventsBacked`).
- `FirstSeenIsKept` and `TuplesStayUnique`: `RowsChange` lists the only four things a step of `Next`
  does to the table of observations, and each keeps every row's `first_seen_at` and the uniqueness of
  tag and digest. Uniqueness is what makes an update by tag and digest an update of one row
  (`UpdateKeeps`).
- `DecideIsTheGate`: `Spec => GateImplemented`, the refinement. `AllGrounded` says what the invariants
  above do not: that a verdict without a digest is the one the policy gives by itself, and that a
  pinned allow is one the policy allows. With `GateInvariant` it gives the guard of `Admit` or
  `Refuse` at `WriteAudit`; `GroundsGrow` shows that what the operator, cosign, the registry and the
  clock do is `World`; every other step maps to `Ask`, `GiveUp` or a stutter.
- `ResolveStops`, `ResolveIsCurrent`, `HonestRegistryIsHeard` (RegistryResolve); the first also says
  that no token is asked for where an honest registry wants none. `ResolveInvariant`
  ties the counters to the position in the exchange (`Route`: at most two requests without a token
  and two with the one token), an answer to what was stored while its request was out (`Fresh`), and
  every answer of an undisturbed exchange to the one the profile prescribes (`Honestly`).
- `EveryRunAccounted`, `RefusalsRecorded`, `PullsWhatWasDecided` (AuthzPlugin), for any number of
  requests, from `PluginInvariant`: the types, how far the record of a request has come at each step
  (`AllRecorded`), and that the digest decided on is still the one of the reference unless the tag has
  moved (`AllSameImage`). `OneName` is what ties the plugin's reading to the daemon's choice: if a request
  names one tag or digest only, and the reference parses, that name is the subject of the decision.
- `ServesWhatWasDecided`, `NoBlobWithoutManifest`, `NoShownBlobDenied` (ProxyGate). The last two are
  action properties; they need that what is in `allowedBlobs` came from a manifest fetched after an
  allow (`BlobsBacked`), and that a handler that has passed its loop over the blobs has remembered all
  of them unless the process died (`AllRemember`).

- `ProxyTypeCorrect` (ProxyGate): `Spec => []TypeOK`, the base of the three above.
- OperatorCommands. `CommandsAreOperators`: `CommandsSpec => Spec`: a command is a step of Quarantine's
  operator or changes nothing of it, because its options were checked (`CommandsSound`) before its
  INSERT. So `CommandsAdmitForAReason` and `CommandsRespectFreezes` follow from the theorems above.
  `AnnouncedFreezesHold` and `AnnouncedOverridesHold` rest on `RowsOfCommands` (a command past its INSERT,
  and any that the file tells of, has its row, with the expiry computed from its own clock reading)
  and on `ToldHeld` (a call began with the rows of the commands it was told of), which connect them
  with `FreezeRespected` and `DenialJustified`. `CommandsTellTheTruth` needs the converse too: every row
  is that of a command that wrote it (`CommandsOfRows`). `CleanAuditTellsAll` rests on `EventsLogged`: in
  a file without a broken line no event that was announced is missing; `Appending` says what whole
  and torn appends do to a file, including an event that lands behind half a line and is lost with it.
- StateTransfer. An import is not a step of Quarantine, so nothing carries over by itself.
  `TransferSound` is the part that survives any file: types, the shape of calls, unique ids that the
  counters bound (in the tables and in the file that is being written) and one row per tag and digest;
  `ImportsKeepTuplesUnique` and `StoredFreezesHold` follow, the latter with `CallUnfrozen` relative to
  the freezes that imports replaced.
  `OwnFilesKeepState` and `ExportsExplainAllows` hold while no peer's file was imported, and their
  invariant `OwnSound` says why: what the file holds is still in the tables, perhaps touched since
  (`FileKept`), ids are never reused, and therefore each INSERT OR REPLACE meets the very row it was
  exported from. The allows in the file are explained by the overrides in the file, or, for tables
  that the running export has not reached, by those in the database (`ApprovalsRead`, `BypassesRead`):
  the order in which the tables are read is what the proof turns on.
  `AgesAreObserved` holds with any files. `AllLent` replaces the dates of rows by `Known`: a tuple was
  known at a time if a call here had learnt of it or a lent row says so. A row that a call has read may
  since have been replaced by one of another tuple under the same id; the invariant speaks of what the
  call holds and never of the row it came from.
- PolicyFile. `SpellingsAgree`: `Spec => []SpellingIrrelevant`: the spellings are parsed to one
  reference, which rows are stored under, and get one policy; `docker.io/nginx`, which the code keeps
  apart (section 4), is not one of them. It comes from what `NormalizeName` makes of a name
  with or without the registry and `library`; it needs that `library` is no registry, and covers names of
  any length. `EveryPolicyIsUsable`: an accepted configuration has passed `Valid` (`AcceptedValid`), and
  validation of the default policy and of every rule laid over it is enough for whichever rule the
  pattern of whichever image selects, because the selected rule is always one of the list
  (`EffectiveForms`, from `LeastIndex`). `PolicyTypeCorrect`: `Spec => []TypeOK` for any file. It is what
  showed that a rule whose first value is rejected must stay in the list, as it does in the code.
- `PolicyIsAsWritten` (PolicyFile): `Spec => []PolicyAsWritten`, for any number of rules and any values.
  The invariant `UnderstoodSoFar` says what `config` is when so many lines of each block have passed:
  `DefaultRead(d, r)` is the default policy with the fields that stand in its first `r` lines,
  `RulesRead` that as many rules have begun as lines say, all but the last read whole (`NextLine` and
  `RulesLine` find the line that comes next in `FileOf`). What makes it inductive is the state between
  the lines: `KeysRead`, that `paths` holds the headings above the lines to come, which a value at the
  same column or further in has not wiped; and `currentRule # 0 <=> Passing("rules") > 1`, which never ends
  after the rules, since only a value in the first column ends them and only `version`, in front of all
  blocks, is one. So a default policy *behind* rules is taken by the last rule or dropped, and its action
  stays empty (`RulesFirst`): such a file is always rejected by `Valid`, and that is why the documented
  layout in any order of the blocks is rejected or means what it says. One lemma per block says what one
  of its lines does (`DefaultStep`, `ItemStep`, `RuleStep`, `AuditStep`, `StateStep`), `LaterLine` puts
  them together, `ReadAsWritten` compares what is in force with what is written.

`[Next]_vars` is split the same way everywhere: one lemma for what the steps of one call give that
call, `OneMoves` for the other calls, `OnwardNext` for what no step takes back.

ProxyGate, AuthzPlugin and RegistryResolve assume of their constants what their `ASSUME`s state (markers
that are no tag and no digest, and in AuthzPlugin that `latest` is a tag and no digest is one). PolicyFile assumes of `Documents` that they give every field a text of
`Words` that is not empty, or leave it out (`DocumentsAssumption`), of `Layouts` that they put the four
blocks in some order, items at most four columns in and steps of one to four columns
(`LayoutsAssumption`), that references are made of `Words`, and that the keys of a policy file, the zero
values, `docker.io`, `library` and `latest` are `Words`; ImageReference that `docker.io` is a registry without a port and `library` none, and that `latest` is no
malformed tag.
`Words` is a constant because the prover has no fact that a literal is a string; TLC's instance is
`STRING`. Nothing there is assumed finite either.

Model-checked only:

- `EveryCallEnds` and `OperationEnds`: liveness, since fairness and ENABLED are beyond the prover.

## 6. Not modelled

- The audit events of `export-state` and `import-state`, the read-only commands (`status`, `inspect`,
  `policy check`) and the start-up of the servers.
- The arithmetic of `ParseDuration`, quotes and comments in policy files, and which characters a
  component, tag or digest may have: sets of good and bad values stand for them.
- HTTP, URL and JSON parsing, messages, `Reason` texts, output formats.
- Blob contents and their digests: the proxy does not check them, Docker does.
- Clocks that are set back, and two hosts with different clocks.
- How a policy file is replaced while a server runs: it is read once, at the start.
- Build metadata, packaging, scripts.

## 7. Plan

In this order:

1. For the gates around the engine, proofs over the composition: that the plugin's and the proxy's one
   step `Decide` is a step of PullGate.
2. Durations in 64-bit nanoseconds, against the documented range.
3. `status` and `inspect`, which read several tables in several statements.
