---------------------------- MODULE MCPolicyFile ----------------------------
(***************************************************************************)
(* Documents of no, one or two rules over a handful of default policies,    *)
(* and the layouts YAML does not tell apart.                                *)
(***************************************************************************)
EXTENDS PolicyFile

MCWords == STRING

Base ==
    [k \in DOMAIN ZeroPolicy |->
        CASE k = "action" -> "quarantine"
          [] k = "min_digest_age" -> "7d"
          [] k \in {"pinned", "resolution", "signature"} -> "deny"
          [] OTHER -> Unset]

(* Three that are complete, an age or an action left out, a boolean that is *)
(* none.                                                                    *)
MCDefaults ==
    {Base,
     [Base EXCEPT !.required = "true", !.identity = "release"],
     [Base EXCEPT !.required = "false", !.mode = "key", !.key = "cosign.pub"],
     [Base EXCEPT !.min_digest_age = Unset],
     [Base EXCEPT !.pinned = QuotedEmpty],
     [Base EXCEPT !.allow_first_seen_pull = "yes"]}

Rule(match) == [NewRule EXCEPT !.match = match]

MCRules ==
    {[Rule("*:latest") EXCEPT !.action = "deny"],
     [Rule("docker.io/library/*") EXCEPT !.min_digest_age = "14d",
                                         !.allow_first_seen_pull = "true"],
     [Rule("ghcr.io/*") EXCEPT !.action = "allow", !.required = "true"],
     [Rule("*") EXCEPT !.required = "true", !.key = "cosign.pub"],
     [Rule("*") EXCEPT !.identity_regex = "ci", !.identity = QuotedEmpty],
     [Rule("ghcr.io/*") EXCEPT !.required = "true", !.identity_regex = "ci"],
     [Rule("nginx:*") EXCEPT !.action = "permit"]}

MCDocuments ==
    {[version |-> "1", default |-> d, rules |-> r, audit |-> "ribat.jsonl",
      state |-> [backend |-> "sqlite", path |-> "state.db"]] :
        d \in MCDefaults, r \in UNION {[1..n -> MCRules] : n \in 0..2}}

DocumentedLayouts ==
    {[order |-> o, item |-> 2, step |-> 2, matchFirst |-> TRUE] : o \in Orders}
OtherLayouts ==
    {[order |-> <<"default_policy", "rules", "audit", "state">>, item |-> i, step |-> s,
      matchFirst |-> f] : i \in {0, 2, 4}, s \in {2, 4}, f \in BOOLEAN}

MCPatterns ==
    [m \in {r.match : r \in MCRules} |->
        CASE m = "*:latest" -> <<"*", ":", "latest">>
          [] m = "docker.io/library/*" -> <<"docker.io", "/", "library", "/", "*">>
          [] m = "ghcr.io/*" -> <<"ghcr.io", "/", "*">>
          [] m = "*" -> <<"*">>
          [] m = "nginx:*" -> <<"nginx", ":", "*">>]

MCReferences ==
    {Written(<<"nginx">>, "", ""), Written(<<"nginx">>, "1.25", ""),
     Written(<<"team", "app">>, "", "sha256:a"),
     Written(<<"ghcr.io", "app">>, "latest", "sha256:a"),
     Written(<<"localhost:5000", "app">>, "", ""),
     Written(<<"ghcr.io">>, "", ""), Written(<<"App">>, "", ""),
     Written(<<"nginx">>, ".1", ""), Written(<<"ghcr.io", "app">>, "", "a")}
=============================================================================
