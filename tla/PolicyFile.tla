----------------------------- MODULE PolicyFile -----------------------------
(***************************************************************************)
(* The policy: how a file becomes a configuration, line by line             *)
(* (internal/policy/config.go), and how a configuration becomes the policy  *)
(* of an image (internal/policy/matcher.go).                                *)
(*                                                                         *)
(* The parser reads no YAML tree.  It keeps the last key seen at every      *)
(* indentation and the rule it is in, and decides from those where a value  *)
(* goes; a value that goes nowhere is dropped without an error.  A line is  *)
(* [indent, dash, key, value] here: quotes are gone, keys and values are    *)
(* atomic, and a line that is blank or a comment has neither.               *)
(*                                                                         *)
(* The files are written from documents, in layouts that YAML does not tell *)
(* apart: what the document says is known apart from what the parser reads. *)
(***************************************************************************)
EXTENDS ImageReference, FiniteSets
Seqs == INSTANCE SequencesExt

CONSTANTS
    Documents,   \* what an administrator may have written
    Layouts,     \* how
    Patterns,    \* Patterns[m]: the pattern m of a rule, as text
    References   \* the references of pulls, as they are written

VARIABLES
    document, layout,   \* what is being read
    file,               \* its lines
    next,               \* the next line of the file
    paths,              \* paths[i]: the last key at indentation i, or ""
    currentRule,        \* 0 outside the rules
    config,             \* what has been understood
    outcome             \* of Load

vars == <<document, layout, file, next, paths, currentRule, config, outcome>>

MutableKeys == {"action", "min_digest_age", "allow_first_seen_pull"}
CosignKeys == {"required", "mode", "key", "issuer", "identity", "identity_regex"}
Booleans == {"true", "false"}
Ages == {"0d", "7d", "14d"}

(* The blocks of default_policy that hold an action, and its field.         *)
ActionBlock ==
    [digest_pinned_images |-> "pinned", failed_registry_resolution |-> "resolution",
     failed_signature_check |-> "signature"]

(* Go's zero values, and the nil of a field a rule leaves alone.            *)
Unset == "nil"
ZeroPolicy ==
    [action |-> "", min_digest_age |-> "0d", allow_first_seen_pull |-> "false",
     pinned |-> "", resolution |-> "", signature |-> "",
     required |-> "false", mode |-> "", key |-> "", issuer |-> "",
     identity |-> "", identity_regex |-> ""]
NewRule ==
    [k \in MutableKeys \cup CosignKeys \cup {"match"} |->
        IF k = "match" THEN "" ELSE Unset]
ZeroConfig ==
    [version |-> "0", default |-> ZeroPolicy, rules |-> <<>>, audit |-> "",
     state |-> [backend |-> "", path |-> ""]]

-----------------------------------------------------------------------------
(* A document as lines.  A field that is not set is a blank line.           *)
Line(indent, key, value) ==
    [indent |-> indent, dash |-> FALSE, key |-> key, value |-> value]
Blank == Line(0, "", "")
Setting(indent, key, value) ==
    IF value = Unset THEN Blank ELSE Line(indent, key, value)
Heading(indent, key, settings, fields) ==
    IF \A k \in fields : settings[k] = Unset THEN Blank ELSE Line(indent, key, "")

DefaultLines(d, w) ==
    <<Line(0, "default_policy", ""),
      Heading(w, "mutable_tags", d, MutableKeys),
      Setting(2 * w, "action", d.action),
      Setting(2 * w, "min_digest_age", d.min_digest_age),
      Setting(2 * w, "allow_first_seen_pull", d.allow_first_seen_pull),
      Line(w, "digest_pinned_images", ""), Setting(2 * w, "action", d.pinned),
      Line(w, "failed_registry_resolution", ""), Setting(2 * w, "action", d.resolution),
      Line(w, "failed_signature_check", ""), Setting(2 * w, "action", d.signature),
      Heading(w, "signatures", d, CosignKeys),
      Heading(2 * w, "cosign", d, CosignKeys),
      Setting(3 * w, "required", d.required), Setting(3 * w, "mode", d.mode),
      Setting(3 * w, "key", d.key), Setting(3 * w, "issuer", d.issuer),
      Setting(3 * w, "identity", d.identity),
      Setting(3 * w, "identity_regex", d.identity_regex)>>

(* An item: its first line behind "- ", the others two columns further in.  *)
RuleSize == 13
RuleLines(r, how) ==
    LET c == how.item + 2
        w == how.step
        match == Line(c, "match", r.match)
        fields ==
          <<Heading(c, "mutable_tags", r, MutableKeys),
            Setting(c + w, "action", r.action),
            Setting(c + w, "min_digest_age", r.min_digest_age),
            Setting(c + w, "allow_first_seen_pull", r.allow_first_seen_pull),
            Heading(c, "signatures", r, CosignKeys),
            Heading(c + w, "cosign", r, CosignKeys),
            Setting(c + 2 * w, "required", r.required),
            Setting(c + 2 * w, "mode", r.mode), Setting(c + 2 * w, "key", r.key),
            Setting(c + 2 * w, "issuer", r.issuer),
            Setting(c + 2 * w, "identity", r.identity),
            Setting(c + 2 * w, "identity_regex", r.identity_regex)>>
        lines == IF how.matchFirst THEN <<match>> \o fields ELSE fields \o <<match>>
        first == CHOOSE i \in DOMAIN lines :
                    lines[i] # Blank /\ \A j \in 1..i - 1 : lines[j] = Blank
    IN  [lines EXCEPT ![first].dash = TRUE, ![first].indent = how.item]

RulesLines(rules, how) ==
    <<Line(0, "rules", "")>> \o
    [l \in 1..RuleSize * Len(rules) |->
        RuleLines(rules[1 + ((l - 1) \div RuleSize)], how)[1 + ((l - 1) % RuleSize)]]

Block(doc, how, name) ==
    CASE name = "default_policy" -> DefaultLines(doc.default, how.step)
      [] name = "rules" -> RulesLines(doc.rules, how)
      [] name = "audit" ->
            <<Line(0, "audit", ""), Line(how.step, "path", doc.audit)>>
      [] name = "state" ->
            <<Line(0, "state", ""), Line(how.step, "backend", doc.state.backend),
              Line(how.step, "path", doc.state.path)>>

FileOf(doc, how) ==
    <<Line(0, "version", doc.version)>>
    \o Block(doc, how, how.order[1]) \o Block(doc, how, how.order[2])
    \o Block(doc, how, how.order[3]) \o Block(doc, how, how.order[4])

Columns == 0..16   \* bound: how far a line may be indented
Lines == [indent : Columns, dash : BOOLEAN, key : Words, value : Words]

BlockNames == {"default_policy", "rules", "audit", "state"}
Orders == {o \in [1..4 -> BlockNames] : \A b, c \in 1..4 : o[b] = o[c] => b = c}
Keywords ==
    BlockNames \cup MutableKeys \cup CosignKeys \cup DOMAIN ActionBlock \cup
    {"version", "match", "mutable_tags", "signatures", "cosign", "backend", "path"}
ASSUME WordsAssumption ==
    Keywords \cup {"", "0", "0d", "false", Unset} \subseteq Words

(* Whoever writes a document gives no field an empty text without quotes.   *)
Texts == Words \ {""}
ASSUME DocumentsAssumption ==
    Documents \subseteq
        [version : Texts, default : [DOMAIN ZeroPolicy -> Texts],
         rules : Seq([DOMAIN NewRule -> Texts]), audit : Texts,
         state : [backend : Texts, path : Texts]]
ASSUME LayoutsAssumption ==
    Layouts \subseteq
        [order : Orders, item : 0..4, step : 1..4, matchFirst : BOOLEAN]

ASSUME ReferencesAssumption ==
    References \subseteq [name : Seq(Words), tag : Words, digest : Words]

(* The layout of every example in the documentation, in any order of the    *)
(* blocks.                                                                  *)
Documented(how) == how.item = 2 /\ how.step = 2 /\ how.matchFirst
-----------------------------------------------------------------------------
(* The parser.  Quotes are gone, so an empty value that is quoted is told   *)
(* from no value by a name of its own.                                      *)
QuotedEmpty == "''"
Scalar(value) == IF value = QuotedEmpty THEN "" ELSE value

Indents == -4..16   \* up to four columns before the first
ClearDeeper(indent) == [i \in Indents |-> IF i >= indent THEN "" ELSE paths[i]]

(* setRuleValue: the field of the current rule a value is for, or "".       *)
RuleField(known, indent, key) ==
    IF \/ key = "match"
       \/ known[indent - 2] = "mutable_tags" /\ key \in MutableKeys
       \/ /\ known[indent - 4] = "signatures" /\ known[indent - 2] = "cosign"
          /\ key \in CosignKeys
    THEN key ELSE ""

(* setValue outside the rules: the field of the default policy, or "".      *)
DefaultField(known, key) ==
    IF known[0] # "default_policy" THEN ""
    ELSE IF known[2] \in DOMAIN ActionBlock /\ key = "action"
    THEN ActionBlock[known[2]]
    ELSE IF \/ known[2] = "mutable_tags" /\ key \in MutableKeys
            \/ /\ known[2] = "signatures" /\ known[4] = "cosign"
               /\ key \in CosignKeys
    THEN key ELSE ""

(* Faulty form of Unparsable: what is not "true" is taken as it stands.     *)
UnparsableAge(field, value) == field = "min_digest_age" /\ value \notin Ages

(* ParseDuration, parseBool.                                                *)
Unparsable(field, value) ==
    \/ field = "min_digest_age" /\ value \notin Ages
    \/ field \in {"allow_first_seen_pull", "required"} /\ value \notin Booleans

Understand(c) == config' = c /\ UNCHANGED outcome
Reject(c) == config' = c /\ outcome' = "rejected"

(* A rule whose first value is rejected is in the list all the same.        *)
SetRuleField(rules, field, value) ==
    LET known == [config EXCEPT !.rules = rules]
    IN  IF field = "" THEN Understand(known)
        ELSE IF Unparsable(field, value) THEN Reject(known)
        ELSE Understand([config EXCEPT !.rules =
                            [rules EXCEPT ![Len(rules)][field] = value]])

SetValue(known, indent, key, value) ==
    LET field == DefaultField(known, key)
    IN  IF indent = 0 /\ key = "version"
        THEN Understand([config EXCEPT !.version = value])
        ELSE IF known[0] = "audit" /\ key = "path"
        THEN Understand([config EXCEPT !.audit = value])
        ELSE IF known[0] = "state" /\ key \in DOMAIN config.state
        THEN Understand([config EXCEPT !.state[key] = value])
        ELSE IF field = "" THEN Understand(config)
        ELSE IF Unparsable(field, value) THEN Reject(config)
        ELSE Understand([config EXCEPT !.default[field] = value])

Init ==
    /\ document \in Documents /\ layout \in Layouts
    /\ file = FileOf(document, layout)
    /\ next = 1 /\ paths = [i \in Indents |-> ""] /\ currentRule = 0
    /\ config = ZeroConfig /\ outcome = "none"

Reading == outcome = "none" /\ next <= Len(file)

(* Blank lines and comments are passed over.                                *)
ReadBlank ==
    /\ Reading /\ ~file[next].dash /\ file[next].key = ""
    /\ next' = next + 1
    /\ UNCHANGED <<document, layout, file, paths, currentRule, config, outcome>>

(* "- key: value" begins a rule if "rules" stands two columns before it;    *)
(* anywhere else it is passed over.                                         *)
ReadItem ==
    LET line == file[next]
    IN  /\ Reading /\ line.dash
        /\ IF paths[line.indent - 2] = "rules"
           THEN /\ currentRule' = Len(config.rules) + 1
                /\ SetRuleField(Append(config.rules, NewRule),
                       RuleField(paths, line.indent + 2, line.key), Scalar(line.value))
           ELSE UNCHANGED <<currentRule, config, outcome>>
        /\ next' = next + 1
        /\ UNCHANGED <<document, layout, file, paths>>

(* "key:" is remembered; what stood at its column or further in is not.     *)
ReadKey ==
    LET line == file[next]
    IN  /\ Reading /\ ~line.dash /\ line.key # "" /\ line.value = ""
        /\ paths' = [ClearDeeper(line.indent) EXCEPT ![line.indent] = line.key]
        /\ next' = next + 1
        /\ UNCHANGED <<document, layout, file, currentRule, config, outcome>>

(* "key: value".  Only a value in the first column ends the rules.          *)
ReadValue ==
    LET line == file[next]
        inRule == currentRule # 0 /\ line.indent > 2
        known == ClearDeeper(line.indent)
    IN  /\ Reading /\ ~line.dash /\ line.key # "" /\ line.value # ""
        /\ currentRule' = IF line.indent = 0 THEN 0 ELSE currentRule
        /\ IF inRule
           THEN SetRuleField(config.rules, RuleField(known, line.indent, line.key),
                             Scalar(line.value))
           ELSE SetValue(known, line.indent, line.key, Scalar(line.value))
        /\ paths' = known
        /\ next' = next + 1
        /\ UNCHANGED <<document, layout, file>>

-----------------------------------------------------------------------------
(* RuleCosignPolicy.effective and applyRule: the fields a rule sets.        *)
Overlay(policy, rule) ==
    [k \in DOMAIN policy |->
        IF k \in DOMAIN rule /\ rule[k] # Unset THEN rule[k] ELSE policy[k]]

(* validateCosignPolicy, of a policy that may not require verification.     *)
ValidCosign(p) ==
    LET mode == IF p.mode = "" /\ p.key # "" THEN "key" ELSE p.mode
    IN  /\ p.mode \in {"", "keyless", "key"}
        /\ p.required = "true" =>
              IF mode = "key" THEN p.key # ""
              ELSE (p.identity = "") # (p.identity_regex = "")

MutableActions == {"quarantine", "allow", "deny"}

(* Faulty form of ValidRule: the rule is not laid over the default policy.  *)
ValidRuleAlone(rule) ==
    /\ rule.match # "" /\ rule.action \in MutableActions \cup {Unset}
    /\ ValidCosign(Overlay(ZeroPolicy, rule))

ValidRule(rule) ==
    /\ rule.match # "" /\ rule.action \in MutableActions \cup {Unset}
    /\ ValidCosign(Overlay(config.default, rule))

Valid ==
    /\ config.version = "1"
    /\ config.default.action \in MutableActions
    /\ config.default.action = "quarantine" => config.default.min_digest_age # "0d"
    /\ config.default.pinned \in {"allow", "deny"}
    /\ config.default.resolution \in {"allow", "deny"}
    /\ config.default.signature \in {"allow", "deny"}
    /\ \A i \in DOMAIN config.rules : ValidRule(config.rules[i])
    /\ ValidCosign(config.default)

Finish ==
    /\ outcome = "none" /\ next = Len(file) + 1
    /\ outcome' = IF Valid THEN "accepted" ELSE "rejected"
    /\ UNCHANGED <<document, layout, file, next, paths, currentRule, config>>

Next == ReadBlank \/ ReadItem \/ ReadKey \/ ReadValue \/ Finish

Spec == Init /\ [][Next]_vars

-----------------------------------------------------------------------------
Least(indices) == CHOOSE i \in indices : \A j \in indices : i <= j

(* wildcardMatch: "*" stands for any text.                                  *)
WildcardMatch(pattern, text) ==
    LET match[i \in 0..Len(pattern), j \in 0..Len(text)] ==
            IF i = 0 THEN j = 0
            ELSE IF pattern[i] = "*" THEN \E k \in 0..j : match[i - 1, k]
            ELSE j > 0 /\ pattern[i] = text[j] /\ match[i - 1, j - 1]
    IN  match[Len(pattern), Len(text)]

(* A pattern with a colon and no slash is matched with the tag alone, a     *)
(* tagless pinned reference by its name, any other by its canonical text.   *)
MatchPattern(pattern, ref) ==
    LET colons == {i \in DOMAIN pattern : pattern[i] = ":"}
    IN  IF pattern = <<"*">> THEN TRUE
        ELSE IF colons # {} /\ ~Seqs!Contains(pattern, "/")
        THEN WildcardMatch(
                SubSeq(pattern, 1 + Least(colons), Len(pattern)),
                IF ref.tag = "" THEN <<>> ELSE <<ref.tag>>)
        ELSE WildcardMatch(pattern,
                IF ref.digest # "" /\ ref.tag = "" THEN NameText(ref) ELSE Text(ref))

(* Faulty form of EffectivePolicyFor: every matching rule is laid over.     *)
EffectiveOfAllRules(default, rules, ref) ==
    Seqs!FoldLeft(LAMBDA policy, rule :
                IF MatchPattern(Patterns[rule.match], ref)
                THEN Overlay(policy, rule) ELSE policy, default, rules)

EffectivePolicyFor(default, rules, ref) ==
    LET matching == {i \in DOMAIN rules : MatchPattern(Patterns[rules[i].match], ref)}
    IN  IF matching = {} THEN default ELSE Overlay(default, rules[Least(matching)])

PolicyInForce(w) == EffectivePolicyFor(config.default, config.rules, ParseReference(w))

(* CosignVerifyArgs: what the signature must be made with, or {} and an     *)
(* error.                                                                   *)
Signers(p) ==
    LET mode == IF p.mode = "" THEN IF p.key # "" THEN "key" ELSE "keyless" ELSE p.mode
    IN  IF mode = "key" THEN {p.key} \ {""}
        ELSE IF mode = "keyless" THEN {p.identity, p.identity_regex} \ {""} ELSE {}

-----------------------------------------------------------------------------
(* What the document says of an image: the first of its rules that matches  *)
(* adds its fields to the default policy.                                   *)
Filled(settings) ==
    [k \in DOMAIN ZeroPolicy |->
        IF settings[k] = Unset THEN ZeroPolicy[k] ELSE Scalar(settings[k])]
WrittenPolicy(w) ==
    LET ref == ParseReference(w)
        matching == {i \in DOMAIN document.rules :
                        MatchPattern(Patterns[document.rules[i].match], ref)}
        default == Filled(document.default)
    IN  IF matching = {} THEN default
        ELSE LET rule == document.rules[Least(matching)]
             IN  [k \in DOMAIN default |->
                    IF k \in DOMAIN rule /\ rule[k] # Unset
                    THEN Scalar(rule[k]) ELSE default[k]]

InForceAsWritten ==
    outcome = "accepted" =>
        /\ config.audit = Scalar(document.audit)
        /\ \A k \in DOMAIN config.state : config.state[k] = Scalar(document.state[k])
        /\ \A w \in References : ParseReference(w).ok =>
              PolicyInForce(w) = WrittenPolicy(w)

(* A file in the layout of the documentation, its blocks in any order, is   *)
(* rejected or means what it says: no value ends up in another rule or      *)
(* block, none is lost, and the rule that counts is the first that matches. *)
PolicyAsWritten == Documented(layout) => InForceAsWritten

(* docs/content/reference/config.md:8: the configuration is YAML, so the    *)
(* same of every layout YAML allows.                                        *)
YamlAsWritten == InForceAsWritten

(* A policy in force that requires a signature names one key or one         *)
(* identity it must be made with, whichever part of it comes from the rule  *)
(* and whichever from the default policy; no pull finds a policy that       *)
(* cosign cannot be run with.                                               *)
EveryPolicyUsable ==
    outcome = "accepted" => \A w \in References :
        ParseReference(w).ok /\ PolicyInForce(w).required = "true" =>
            Cardinality(Signers(PolicyInForce(w))) = 1

(* An image is one reference, and so one key of every table, and has one    *)
(* policy however it is spelled: with or without Docker Hub's registry and  *)
(* library, with "latest" or with no tag, or in the canonical form that     *)
(* decisions are stored under.  (Docker Hub's registry before an official   *)
(* image without library, docker.io/nginx, is another reference: it is not  *)
(* among the spellings.)                                                    *)
Spellings(w) ==
    {w, Canonical(ParseReference(w))}
    \cup (IF w.tag = "" /\ w.digest = "" THEN {[w EXCEPT !.tag = "latest"]} ELSE {})
    \cup (IF Len(w.name) = 1
          THEN {[w EXCEPT !.name = <<"docker.io", "library">> \o @],
                [w EXCEPT !.name = <<"library">> \o @]}
          ELSE IF w.name[1] \notin Registries
          THEN {[w EXCEPT !.name = <<"docker.io">> \o @]} ELSE {})
SpellingIrrelevant ==
    \A w \in References : ParseReference(w).ok =>
        \A v \in Spellings(w) :
            /\ ParseReference(v) = ParseReference(w)
            /\ outcome = "accepted" => PolicyInForce(v) = PolicyInForce(w)

(* What has been understood so far has the types of Config, whatever the    *)
(* file says: ages and booleans are parsed, and the rule that values are    *)
(* added to exists (config.go:221-409).                                     *)
DefaultTypes ==
    {p \in [DOMAIN ZeroPolicy -> Words] :
        /\ p.min_digest_age \in Ages
        /\ p.allow_first_seen_pull \in Booleans /\ p.required \in Booleans}
RuleTypes ==
    {r \in [DOMAIN NewRule -> Words] :
        /\ r.min_digest_age \in Ages \cup {Unset}
        /\ r.allow_first_seen_pull \in Booleans \cup {Unset}
        /\ r.required \in Booleans \cup {Unset}}
Configs ==
    [version : Words, default : DefaultTypes, rules : Seq(RuleTypes),
     audit : Words, state : [backend : Words, path : Words]]
TypeOK ==
    /\ document \in Documents /\ layout \in Layouts
    /\ file \in Seq(Lines) /\ next \in 1..Len(file) + 1 /\ currentRule \in 0..Len(config.rules)
    /\ paths \in [Indents -> Words] /\ config \in Configs
    /\ outcome \in {"none", "accepted", "rejected"}
=============================================================================
