-------------------------- MODULE PolicyFileProofs --------------------------
(***************************************************************************)
(* Theorems about PolicyFile: what the parser has understood is typed after *)
(* every line of any file, an accepted policy can be run whichever image it *)
(* is asked for, all spellings of an image get the same policy, and a file  *)
(* in the documented layout that is accepted means what it says.            *)
(***************************************************************************)
EXTENDS PolicyFile, TLAPS, SequenceTheorems, FiniteSetTheorems, WellFoundedInduction

-----------------------------------------------------------------------------
(* References.                                                              *)

LEMMA Literals ==
    /\ "docker.io" \in Words /\ "docker.io" # ""
    /\ "library" \in Words /\ "library" # ""
BY ComponentsAssumption

(* What ParseReference returns for a reference it takes.                    *)
LEMMA ParsedFields ==
    ASSUME NEW w \in References, ParseReference(w).ok
    PROVE  LET n == NormalizeName(w.name) IN
           /\ w.name # <<>> /\ WellFormed(n)
           /\ w.tag \notin BadSuffixes /\ w.digest \notin BadSuffixes
           /\ \A i \in DOMAIN w.name : w.name[i] # ""
           /\ ParseReference(w) =
                 [ok |-> TRUE, registry |-> n.registry, repository |-> n.repository,
                  digest |-> w.digest,
                  tag |-> IF w.tag = "" /\ w.digest = "" THEN "latest" ELSE w.tag]
           /\ ParseReference(w).registry = n.registry
           /\ ParseReference(w).repository = n.repository
           /\ ParseReference(w).digest = w.digest
           /\ ParseReference(w).tag =
                 IF w.tag = "" /\ w.digest = "" THEN "latest" ELSE w.tag
BY DEF ParseReference, NoReference

(* Where the name of a reference is normalized to the same registry and     *)
(* repository, it is the same reference.                                    *)
LEMMA SameReference ==
    ASSUME NEW w \in References, ParseReference(w).ok,
           NEW v, v.name # <<>>, \A i \in DOMAIN v.name : v.name[i] # "",
           NormalizeName(v.name) = NormalizeName(w.name), v.digest = w.digest,
           v.tag \in {w.tag, ParseReference(w).tag}
    PROVE  ParseReference(v) = ParseReference(w)
<1> DEFINE n == NormalizeName(w.name)
           tag == IF w.tag = "" /\ w.digest = "" THEN "latest" ELSE w.tag
<1> HIDE DEF n, tag
<1>1. /\ WellFormed(n)
      /\ ParseReference(w) =
            [ok |-> TRUE, registry |-> n.registry, repository |-> n.repository,
             digest |-> w.digest, tag |-> tag]
      /\ ParseReference(w).tag = tag
  BY ParsedFields DEF n, tag
<1>2. (IF v.tag = "" /\ v.digest = "" THEN "latest" ELSE v.tag) = tag
  <2>1. v.tag \in {w.tag, tag} /\ v.digest = w.digest
    BY <1>1
  <2> QED BY <2>1 DEF tag
<1>3. /\ NormalizeName(v.name) = n
      /\ ~(v.name = <<>> \/ \E i \in DOMAIN v.name : v.name[i] = "")
  BY DEF n
<1>4. {v.tag, v.digest} \cap BadSuffixes = {}
  <2>1. w.tag \notin BadSuffixes /\ w.digest \notin BadSuffixes
    BY ParsedFields
  <2>2. tag \notin BadSuffixes
    BY <2>1, ComponentsAssumption DEF tag
  <2> QED BY <1>1, <2>1, <2>2
<1> QED BY <1>1, <1>2, <1>3, <1>4 DEF ParseReference

(* A component before a name.                                               *)
Before(a, s) == <<a>> \o s

LEMMA Prefixed ==
    ASSUME NEW s \in Seq(Words), NEW a \in Words
    PROVE  /\ Before(a, s) \in Seq(Words) /\ Before(a, s) # <<>>
           /\ Len(Before(a, s)) = Len(s) + 1
           /\ Before(a, s)[1] = a /\ Tail(Before(a, s)) = s
           /\ a # "" /\ (\A i \in DOMAIN s : s[i] # "") =>
                 \A i \in DOMAIN Before(a, s) : Before(a, s)[i] # ""
<1> DEFINE t == Before(a, s)
           one == <<a>>
<1>1. one \in Seq(Words) /\ Len(one) = 1 /\ one[1] = a
  OBVIOUS
<1>2. Len(s) \in Nat /\ DOMAIN s = 1..Len(s)
  BY LenProperties
<1>3. t = one \o s
  BY DEF Before
<1> HIDE DEF t, one
<1>4. /\ t \in Seq(Words) /\ Len(t) = Len(s) + 1
      /\ \A i \in 1..Len(t) : t[i] = IF i <= 1 THEN one[i] ELSE s[i - 1]
  <2>1. /\ t \in Seq(Words) /\ Len(t) = Len(one) + Len(s)
        /\ \A i \in 1..Len(one) + Len(s) :
              t[i] = IF i <= Len(one) THEN one[i] ELSE s[i - Len(one)]
    BY <1>1, <1>3, ConcatProperties, Zenon
  <2> QED BY <1>1, <1>2, <2>1
<1>5. t # <<>> /\ DOMAIN t = 1..Len(t)
  BY <1>2, <1>4, EmptySeq, LenProperties
<1>6. t[1] = a /\ \A i \in 2..Len(t) : t[i] = s[i - 1]
  BY <1>1, <1>2, <1>4
<1>7. Tail(t) = s
  <2>1. /\ Tail(t) \in Seq(Words) /\ Len(Tail(t)) = Len(s)
        /\ \A i \in 1..Len(Tail(t)) : Tail(t)[i] = t[i + 1]
    BY <1>2, <1>4, <1>5, HeadTailProperties
  <2>2. \A i \in 1..Len(Tail(t)) : Tail(t)[i] = s[i]
    <3> TAKE i \in 1..Len(Tail(t))
    <3>1. t[i + 1] = s[(i + 1) - 1] /\ (i + 1) - 1 = i
      BY <1>2, <1>4, <1>6, <2>1
    <3> QED BY <2>1, <3>1
  <2> QED BY <2>1, <2>2, SeqEqual
<1>8. ASSUME a # "", \A i \in DOMAIN s : s[i] # "", NEW i \in DOMAIN t
      PROVE  t[i] # ""
  <2>1. CASE i = 1
    BY <1>6, <1>8, <2>1
  <2>2. CASE i # 1
    <3>1. i \in 2..Len(t) /\ i - 1 \in 1..Len(s)
      BY <1>2, <1>4, <1>5, <2>2
    <3> QED BY <1>2, <1>6, <1>8, <3>1
  <2> QED BY <2>1, <2>2
<1> QED BY <1>4, <1>5, <1>6, <1>7, <1>8 DEF t

LEMMA PrefixedTwice ==
    ASSUME NEW s \in Seq(Words), NEW a \in Words, NEW b \in Words
    PROVE  <<a, b>> \o s = Before(a, Before(b, s))
<1> DEFINE one == <<a>>
           two == <<b>>
<1>1. one \in Seq(Words) /\ two \in Seq(Words)
  OBVIOUS
<1>2. <<a, b>> = one \o two
  <2> DEFINE pair == <<a, b>>
  <2>1. /\ pair \in Seq(Words) /\ Len(pair) = 2 /\ pair[1] = a /\ pair[2] = b
        /\ Len(one) = 1 /\ Len(two) = 1 /\ one[1] = a /\ two[1] = b
    OBVIOUS
  <2> HIDE DEF one, two, pair
  <2>2. /\ one \o two \in Seq(Words) /\ Len(one \o two) = Len(one) + Len(two)
        /\ \A i \in 1..Len(one) + Len(two) :
              (one \o two)[i] = IF i <= Len(one) THEN one[i] ELSE two[i - Len(one)]
    BY <1>1, ConcatProperties, Zenon
  <2>3. /\ Len(one \o two) = 2
        /\ (one \o two)[1] = a /\ (one \o two)[2] = b
    BY <2>1, <2>2
  <2>4. \A i \in 1..Len(pair) : pair[i] = (one \o two)[i]
    BY <2>1, <2>3
  <2>5. pair = one \o two
    BY <2>1, <2>2, <2>3, <2>4, SeqEqual
  <2> QED BY <2>5 DEF pair
<1> HIDE DEF one, two
<1>3. (one \o two) \o s = one \o (two \o s)
  BY <1>1, ConcatAssociative
<1> QED BY <1>2, <1>3 DEF one, two, Before

(* An official image has no registry in its name.                           *)
LEMMA SingleName ==
    ASSUME NEW name \in Seq(Words), Len(name) = 1, WellFormed(NormalizeName(name))
    PROVE  /\ name[1] \notin Registries
           /\ NormalizeName(name) =
                 [registry |-> "docker.io", repository |-> Before("library", name)]
<1>1. ASSUME name[1] \in Registries PROVE FALSE
  <2>1. Tail(name) = <<>>
    <3>1. name # <<>>
      BY EmptySeq
    <3>2. Tail(name) \in Seq(Words) /\ Len(Tail(name)) = 0
      BY <3>1, HeadTailProperties
    <3> QED BY <3>2, EmptySeq
  <2> QED BY <1>1, <2>1 DEF NormalizeName, WellFormed
<1> QED BY <1>1 DEF NormalizeName, Before

(* A name behind its registry is normalized to both.                        *)
LEMMA FullName ==
    ASSUME NEW name \in Seq(Words), NEW registry \in Registries \cap Words
    PROVE  NormalizeName(Before(registry, name)) =
              [registry |-> registry, repository |-> name]
BY Prefixed DEF NormalizeName

LEMMA NormalizedTypes ==
    ASSUME NEW name \in Seq(Words), name # <<>>
    PROVE  /\ NormalizeName(name).registry \in Registries \cap Words
           /\ NormalizeName(name).repository \in Seq(Words)
<1>1. CASE name[1] \in Registries
  <2>1. name[1] \in Words /\ Tail(name) \in Seq(Words)
    BY EmptySeq, ElementOfSeq, HeadTailProperties
  <2> QED BY <1>1, <2>1 DEF NormalizeName
<1>2. CASE name[1] \notin Registries
  <2>1. Before("library", name) \in Seq(Words)
    BY Literals, Prefixed
  <2> QED BY <1>2, <2>1, Literals, ComponentsAssumption DEF NormalizeName, Before
<1> QED BY <1>1, <1>2

(* Parsing the form that decisions are stored under gives the reference it  *)
(* was made from.                                                           *)
LEMMA CanonicalSame ==
    ASSUME NEW w \in References, ParseReference(w).ok
    PROVE  ParseReference(Canonical(ParseReference(w))) = ParseReference(w)
<1> DEFINE n == NormalizeName(w.name)
           v == Canonical(ParseReference(w))
<1>1. /\ w.name \in Seq(Words) /\ w.name # <<>> /\ WellFormed(n)
      /\ v.name = Before(n.registry, n.repository) /\ v.digest = w.digest
      /\ v.tag = ParseReference(w).tag
  BY ParsedFields, ReferencesAssumption DEF Canonical, Written, Before
<1>2. n.registry \in Registries \cap Words /\ n.repository \in Seq(Words)
  BY <1>1, NormalizedTypes
<1>3. NormalizeName(v.name) = n
  <2>1. NormalizeName(v.name) = [registry |-> n.registry, repository |-> n.repository]
    BY <1>1, <1>2, FullName
  <2> QED BY <2>1 DEF NormalizeName
<1>4. v.name # <<>> /\ \A i \in DOMAIN v.name : v.name[i] # ""
  <2>1. /\ n.registry # ""
        /\ \A i \in DOMAIN n.repository : n.repository[i] # ""
    BY <1>1, ComponentsAssumption DEF WellFormed
  <2> HIDE DEF n, v
  <2>2. n.registry \in Words /\ n.repository \in Seq(Words)
    BY <1>2
  <2>3. v.name = Before(n.registry, n.repository)
    BY <1>1
  <2>4. Before(n.registry, n.repository) # <<>>
    BY <2>2, Prefixed
  <2>5. \A i \in DOMAIN Before(n.registry, n.repository) : Before(n.registry, n.repository)[i] # ""
    BY <2>1, <2>2, Prefixed
  <2> QED BY <2>3, <2>4, <2>5
<1> HIDE DEF v
<1>5. ParseReference(v) = ParseReference(w)
  BY <1>1, <1>3, <1>4, SameReference
<1> QED BY <1>5 DEF v

(* A component more in front.                                               *)
LEMMA LongerName ==
    ASSUME NEW w \in References, ParseReference(w).ok, NEW a \in Words, a # ""
    PROVE  /\ Before(a, w.name) \in Seq(Words) /\ Before(a, w.name) # <<>>
           /\ Len(Before(a, w.name)) = Len(w.name) + 1 /\ Before(a, w.name)[1] = a
           /\ \A i \in DOMAIN Before(a, w.name) : Before(a, w.name)[i] # ""
<1>1. w.name \in Seq(Words) /\ \A i \in DOMAIN w.name : w.name[i] # ""
  BY ParsedFields, ReferencesAssumption
<1> QED BY <1>1, Prefixed

LEMMA SpellingsSame ==
    ASSUME NEW w \in References, ParseReference(w).ok, NEW v \in Spellings(w)
    PROVE  ParseReference(v) = ParseReference(w)
<1> DEFINE n == NormalizeName(w.name)
<1>1. /\ w = [name |-> w.name, tag |-> w.tag, digest |-> w.digest]
      /\ w.name \in Seq(Words) /\ w.name # <<>> /\ WellFormed(n)
      /\ \A i \in DOMAIN w.name : w.name[i] # ""
  BY ParsedFields, ReferencesAssumption
<1>2. CASE v = w
  BY <1>2
<1>3. CASE v = Canonical(ParseReference(w))
  BY <1>3, CanonicalSame
<1>4. CASE w.tag = "" /\ w.digest = "" /\ v = [w EXCEPT !.tag = "latest"]
  <2>1. v.name = w.name /\ v.digest = w.digest /\ v.tag = "latest"
    BY <1>1, <1>4
  <2>2. ParseReference(w).tag = "latest"
    BY <1>4, ParsedFields
  <2> QED BY <1>1, <2>1, <2>2, SameReference
<1>5. CASE Len(w.name) = 1 /\ v = [w EXCEPT !.name = <<"library">> \o @]
  <2> DEFINE short == Before("library", w.name)
  <2>1. v.name = short /\ v.digest = w.digest /\ v.tag = w.tag
    BY <1>1, <1>5 DEF Before
  <2>2. /\ short # <<>> /\ \A i \in DOMAIN short : short[i] # ""
        /\ short[1] = "library"
    BY LongerName, Literals
  <2>3. n = [registry |-> "docker.io", repository |-> short]
    BY <1>1, <1>5, SingleName
  <2> HIDE DEF short, n
  <2>4. NormalizeName(v.name) = n
    <3>1. Len(short) # 1 /\ short[1] \notin Registries
      <4>1. Len(w.name) = 1
        BY <1>5
      <4>2. Len(short) # 1
        <5>1. Len(short) = Len(w.name) + 1
          BY LongerName, Literals DEF short
        <5> QED BY <4>1, <5>1
      <4>3. short[1] \notin Registries
        BY <2>2, ComponentsAssumption
      <4> QED BY <4>2, <4>3
    <3>2. NormalizeName(short) = n
      BY <2>3, <3>1 DEF NormalizeName
    <3> QED BY <2>1, <3>2
  <2>5. v.name # <<>> /\ \A i \in DOMAIN v.name : v.name[i] # ""
    BY <2>1, <2>2
  <2> QED BY <2>1, <2>4, <2>5, SameReference DEF n
<1>6. CASE /\ Len(w.name) = 1
           /\ v = [w EXCEPT !.name = <<"docker.io", "library">> \o @]
  <2> DEFINE short == Before("library", w.name)
             long == Before("docker.io", short)
  <2>1. v.name = long /\ v.digest = w.digest /\ v.tag = w.tag
    <3>1. /\ v.name = <<"docker.io", "library">> \o w.name
          /\ v.digest = w.digest /\ v.tag = w.tag
      BY <1>1, <1>6
    <3> QED BY <1>1, <3>1, Literals, PrefixedTwice
  <2>2. /\ short \in Seq(Words)
        /\ short # <<>> /\ \A i \in DOMAIN short : short[i] # ""
    BY LongerName, Literals
  <2>3. n = [registry |-> "docker.io", repository |-> short]
    BY <1>1, <1>6, SingleName
  <2> HIDE DEF short, n
  <2>4. /\ long # <<>> /\ \A i \in DOMAIN long : long[i] # ""
        /\ NormalizeName(long) = n
    BY <2>2, <2>3, Prefixed, FullName, Literals, ComponentsAssumption
  <2> HIDE DEF long
  <2>5. /\ v.name # <<>> /\ \A i \in DOMAIN v.name : v.name[i] # ""
        /\ NormalizeName(v.name) = n
    BY <2>1, <2>4
  <2> QED BY <2>1, <2>5, SameReference DEF n
<1>7. CASE /\ Len(w.name) # 1 /\ w.name[1] \notin Registries
           /\ v = [w EXCEPT !.name = <<"docker.io">> \o @]
  <2> DEFINE long == Before("docker.io", w.name)
  <2>1. v.name = long /\ v.digest = w.digest /\ v.tag = w.tag
    BY <1>1, <1>7 DEF Before
  <2>2. long # <<>> /\ \A i \in DOMAIN long : long[i] # ""
    BY LongerName, Literals
  <2>3. NormalizeName(long) = n
    <3>1. n = [registry |-> "docker.io", repository |-> w.name]
      BY <1>7 DEF NormalizeName
    <3> QED BY <1>1, <3>1, FullName, Literals, ComponentsAssumption
  <2> HIDE DEF long, n
  <2>4. /\ v.name # <<>> /\ \A i \in DOMAIN v.name : v.name[i] # ""
        /\ NormalizeName(v.name) = n
    BY <2>1, <2>2, <2>3
  <2> QED BY <2>1, <2>4, SameReference DEF n
<1> QED BY <1>2, <1>3, <1>4, <1>5, <1>6, <1>7 DEF Spellings

(* Every spelling of an image (docker.io before an official image's short   *)
(* name is none) parses to the same reference, and has the same policy in   *)
(* force, whatever the file says and whatever its rules match               *)
(* (ParseReference and normalizeName, reference.go:36-152;                  *)
(* EffectivePolicyFor, matcher.go:16).                                      *)
THEOREM SpellingsAgree == Spec => []SpellingIrrelevant
<1>1. SpellingIrrelevant
  <2>1. ASSUME NEW w \in References, ParseReference(w).ok, NEW v \in Spellings(w)
        PROVE  /\ ParseReference(v) = ParseReference(w)
               /\ PolicyInForce(v) = PolicyInForce(w)
    BY <2>1, SpellingsSame DEF PolicyInForce
  <2> QED BY <2>1 DEF SpellingIrrelevant
<1> QED BY <1>1, PTL

-----------------------------------------------------------------------------
(* The policy of an image.                                                  *)

LEMMA LeastIndex ==
    ASSUME NEW indices \in SUBSET Nat, indices # {}
    PROVE  Least(indices) \in indices
<1> DEFINE R == OpToRel(<, Nat)
<1>1. IsWellFoundedOn(R, Nat)
  BY NatLessThanWellFounded
<1>2. ASSUME NEW i \in Nat, NEW j \in Nat, j < i PROVE <<j, i>> \in R
  BY <1>2 DEF OpToRel
<1> HIDE DEF R
<1>3. PICK i \in indices : \A j \in indices : ~(<<j, i>> \in R)
  BY <1>1, WFMin
<1>4. ASSUME NEW j \in indices PROVE i <= j
  <2>1. ~(<<j, i>> \in R) /\ i \in Nat /\ j \in Nat
    BY <1>3
  <2>2. ~(j < i)
    BY <1>2, <2>1, Zenon
  <2> QED BY <2>1, <2>2
<1> QED BY <1>4 DEF Least

(* The policy of an image is the default one, or that with one of the rules *)
(* laid over it.                                                            *)
LEMMA EffectiveForms ==
    ASSUME NEW default, NEW rules, DOMAIN rules \subseteq Nat, NEW ref
    PROVE  \/ EffectivePolicyFor(default, rules, ref) = default
           \/ \E i \in DOMAIN rules :
                 EffectivePolicyFor(default, rules, ref) = Overlay(default, rules[i])
<1> DEFINE matching == {i \in DOMAIN rules : MatchPattern(Patterns[rules[i].match], ref)}
<1>1. CASE matching = {}
  BY <1>1 DEF EffectivePolicyFor
<1>2. CASE matching # {}
  <2>1. Least(matching) \in matching
    BY <1>2, LeastIndex
  <2>2. EffectivePolicyFor(default, rules, ref) = Overlay(default, rules[Least(matching)])
    BY <1>2 DEF EffectivePolicyFor
  <2> QED BY <2>1, <2>2
<1> QED BY <1>1, <1>2

(* What validateCosignPolicy accepts, CosignVerifyArgs can be asked for.    *)
LEMMA ValidIsUsable ==
    ASSUME NEW p, ValidCosign(p), p.required = "true"
    PROVE  Cardinality(Signers(p)) = 1
<1>1. \E signer : Signers(p) = {signer}
  <2>1. CASE p.mode = "key" \/ (p.mode = "" /\ p.key # "")
    <3>1. Signers(p) = {p.key}
      BY <2>1 DEF ValidCosign, Signers
    <3> QED BY <3>1
  <2>2. CASE ~(p.mode = "key" \/ (p.mode = "" /\ p.key # ""))
    <3>1. (p.identity = "") # (p.identity_regex = "")
      BY <2>2 DEF ValidCosign
    <3>2. Signers(p) = {p.identity, p.identity_regex} \ {""}
      BY <2>2 DEF ValidCosign, Signers
    <3> DEFINE a == p.identity
               b == p.identity_regex
    <3>3. (a = "") # (b = "") /\ Signers(p) = {a, b} \ {""}
      BY <3>1, <3>2
    <3> HIDE DEF a, b
    <3>4. {a, b} \ {""} = {a} \/ {a, b} \ {""} = {b}
      BY <3>3
    <3> QED BY <3>3, <3>4
  <2> QED BY <2>1, <2>2
<1> QED BY <1>1, FS_Singleton

-----------------------------------------------------------------------------
(* A document as lines.                                                     *)

PolicyFields ==
    {"action", "min_digest_age", "allow_first_seen_pull", "pinned", "resolution",
     "signature", "required", "mode", "key", "issuer", "identity", "identity_regex"}
RuleFields ==
    {"match", "action", "min_digest_age", "allow_first_seen_pull",
     "required", "mode", "key", "issuer", "identity", "identity_regex"}

LEMMA FieldNames == DOMAIN ZeroPolicy = PolicyFields /\ DOMAIN NewRule = RuleFields
<1>1. DOMAIN ZeroPolicy = PolicyFields
  BY DEF ZeroPolicy, PolicyFields
<1>2. DOMAIN NewRule = RuleFields
  BY DEF NewRule, RuleFields, MutableKeys, CosignKeys
<1> QED BY <1>1, <1>2

LEMMA Literal ==
    /\ Keywords \subseteq Texts /\ "" \in Words /\ Unset \in Texts
    /\ Texts \subseteq Words
<1>1. \A k \in Keywords : k # ""
  BY DEF Keywords, BlockNames, MutableKeys, CosignKeys, ActionBlock
<1>2. Unset # "" /\ Unset \in Words
  BY WordsAssumption DEF Unset
<1> QED BY <1>1, <1>2, WordsAssumption DEF Texts

LEMMA LineTyped ==
    /\ \A indent \in Columns, key \in Words, value \in Words :
          Line(indent, key, value) \in Lines
    /\ Blank \in Lines
<1>1. \A indent \in Columns, key \in Words, value \in Words :
         Line(indent, key, value) \in Lines
  BY DEF Line, Lines
<1>2. 0 \in Columns
  BY DEF Columns
<1> QED BY <1>1, <1>2, Literal DEF Blank

LEMMA HeadingTyped ==
    ASSUME NEW indent \in Columns, NEW key \in Keywords
    PROVE  /\ Line(indent, key, "") \in Lines
           /\ \A value \in Texts : Setting(indent, key, value) \in Lines
           /\ \A settings, fields : Heading(indent, key, settings, fields) \in Lines
BY Literal, LineTyped DEF Setting, Heading


LEMMA Names ==
    /\ "default_policy" \in Keywords /\ "rules" \in Keywords
    /\ "audit" \in Keywords /\ "state" \in Keywords
    /\ "version" \in Keywords /\ "match" \in Keywords
    /\ "mutable_tags" \in Keywords /\ "signatures" \in Keywords
    /\ "cosign" \in Keywords /\ "backend" \in Keywords /\ "path" \in Keywords
    /\ "digest_pinned_images" \in Keywords
    /\ "failed_registry_resolution" \in Keywords
    /\ "failed_signature_check" \in Keywords /\ "action" \in Keywords
    /\ "min_digest_age" \in Keywords /\ "allow_first_seen_pull" \in Keywords
    /\ "required" \in Keywords /\ "mode" \in Keywords /\ "key" \in Keywords
    /\ "issuer" \in Keywords /\ "identity" \in Keywords
    /\ "identity_regex" \in Keywords
BY DEF Keywords, BlockNames, MutableKeys, CosignKeys, ActionBlock

LEMMA DefaultLine ==
    ASSUME NEW d, NEW w
    PROVE  LET t == DefaultLines(d, w) IN
           /\ Len(t) = 19 /\ DOMAIN t = 1..19 /\ t = [l \in 1..19 |-> t[l]]
           /\ t[1] = Line(0, "default_policy", "")
           /\ t[2] = Heading(w, "mutable_tags", d, MutableKeys)
           /\ t[3] = Setting(2 * w, "action", d.action)
           /\ t[4] = Setting(2 * w, "min_digest_age", d.min_digest_age)
           /\ t[5] = Setting(2 * w, "allow_first_seen_pull", d.allow_first_seen_pull)
           /\ t[6] = Line(w, "digest_pinned_images", "")
           /\ t[7] = Setting(2 * w, "action", d.pinned)
           /\ t[8] = Line(w, "failed_registry_resolution", "")
           /\ t[9] = Setting(2 * w, "action", d.resolution)
           /\ t[10] = Line(w, "failed_signature_check", "")
           /\ t[11] = Setting(2 * w, "action", d.signature)
           /\ t[12] = Heading(w, "signatures", d, CosignKeys)
           /\ t[13] = Heading(2 * w, "cosign", d, CosignKeys)
           /\ t[14] = Setting(3 * w, "required", d.required)
           /\ t[15] = Setting(3 * w, "mode", d.mode)
           /\ t[16] = Setting(3 * w, "key", d.key)
           /\ t[17] = Setting(3 * w, "issuer", d.issuer)
           /\ t[18] = Setting(3 * w, "identity", d.identity)
           /\ t[19] = Setting(3 * w, "identity_regex", d.identity_regex)
BY DEF DefaultLines

(* A function on the first n numbers is a sequence.                         *)
LEMMA FunctionIsSeq ==
    ASSUME NEW S, NEW n \in Nat, NEW f \in [1..n -> S]
    PROVE  f \in Seq(S) /\ Len(f) = n
<1>1. f \in Seq(S)
  BY SeqDef
<1>2. Len(f) \in Nat /\ 1..Len(f) = 1..n
  BY <1>1, LenProperties
<1> QED BY <1>1, <1>2

LEMMA DefaultTyped ==
    ASSUME NEW d \in [DOMAIN ZeroPolicy -> Texts], NEW w \in 1..4
    PROVE  DefaultLines(d, w) \in Seq(Lines) /\ Len(DefaultLines(d, w)) = 19
<1>1. /\ 0 \in Columns /\ w \in Columns /\ 2 * w \in Columns /\ 3 * w \in Columns
  BY DEF Columns
<1>2. \A k \in PolicyFields : d[k] \in Texts
  BY FieldNames
<1>3. /\ d.action \in Texts /\ d.min_digest_age \in Texts
      /\ d.allow_first_seen_pull \in Texts /\ d.pinned \in Texts
      /\ d.resolution \in Texts /\ d.signature \in Texts /\ d.required \in Texts
      /\ d.mode \in Texts /\ d.key \in Texts /\ d.issuer \in Texts
      /\ d.identity \in Texts /\ d.identity_regex \in Texts
  BY <1>2 DEF PolicyFields
<1> DEFINE t == DefaultLines(d, w)
<1>4. \A l \in 1..19 : t[l] \in Lines
  <2>1. /\ Line(0, "default_policy", "") \in Lines
        /\ Heading(w, "mutable_tags", d, MutableKeys) \in Lines
        /\ Line(w, "digest_pinned_images", "") \in Lines
        /\ Line(w, "failed_registry_resolution", "") \in Lines
        /\ Line(w, "failed_signature_check", "") \in Lines
        /\ Heading(w, "signatures", d, CosignKeys) \in Lines
        /\ Heading(2 * w, "cosign", d, CosignKeys) \in Lines
    BY <1>1, HeadingTyped, Names
  <2>2. /\ Setting(2 * w, "action", d.action) \in Lines
        /\ Setting(2 * w, "min_digest_age", d.min_digest_age) \in Lines
        /\ Setting(2 * w, "allow_first_seen_pull", d.allow_first_seen_pull) \in Lines
        /\ Setting(2 * w, "action", d.pinned) \in Lines
        /\ Setting(2 * w, "action", d.resolution) \in Lines
        /\ Setting(2 * w, "action", d.signature) \in Lines
        /\ Setting(3 * w, "required", d.required) \in Lines
        /\ Setting(3 * w, "mode", d.mode) \in Lines
        /\ Setting(3 * w, "key", d.key) \in Lines
        /\ Setting(3 * w, "issuer", d.issuer) \in Lines
        /\ Setting(3 * w, "identity", d.identity) \in Lines
        /\ Setting(3 * w, "identity_regex", d.identity_regex) \in Lines
    BY <1>1, <1>3, HeadingTyped, Names
  <2>3. /\ t[1] \in Lines /\ t[2] \in Lines /\ t[3] \in Lines /\ t[4] \in Lines
        /\ t[5] \in Lines /\ t[6] \in Lines /\ t[7] \in Lines /\ t[8] \in Lines
        /\ t[9] \in Lines /\ t[10] \in Lines /\ t[11] \in Lines /\ t[12] \in Lines
        /\ t[13] \in Lines /\ t[14] \in Lines /\ t[15] \in Lines
        /\ t[16] \in Lines /\ t[17] \in Lines /\ t[18] \in Lines
        /\ t[19] \in Lines
    BY <2>1, <2>2, DefaultLine
  <2> HIDE DEF t
  <2> QED BY <2>3
<1>5. Len(t) = 19 /\ t = [l \in 1..19 |-> t[l]]
  BY DefaultLine
<1> HIDE DEF t
<1>6. t \in Seq(Lines)
  <2>1. t \in [1..19 -> Lines]
    BY <1>4, <1>5
  <2> QED BY <2>1, FunctionIsSeq
<1> QED BY <1>5, <1>6 DEF t

(* The lines of a rule before one of them gets the "- ".                    *)
Fields(r, c, w) ==
    <<Heading(c, "mutable_tags", r, MutableKeys),
      Setting(c + w, "action", r.action),
      Setting(c + w, "min_digest_age", r.min_digest_age),
      Setting(c + w, "allow_first_seen_pull", r.allow_first_seen_pull),
      Heading(c, "signatures", r, CosignKeys),
      Heading(c + w, "cosign", r, CosignKeys),
      Setting(c + 2 * w, "required", r.required),
      Setting(c + 2 * w, "mode", r.mode), Setting(c + 2 * w, "key", r.key),
      Setting(c + 2 * w, "issuer", r.issuer),
      Setting(c + 2 * w, "identity", r.identity),
      Setting(c + 2 * w, "identity_regex", r.identity_regex)>>

LEMMA FieldLine ==
    ASSUME NEW r, NEW c, NEW w
    PROVE  LET t == Fields(r, c, w) IN
           /\ Len(t) = 12 /\ t = [l \in 1..12 |-> t[l]]
           /\ t[1] = Heading(c, "mutable_tags", r, MutableKeys)
           /\ t[2] = Setting(c + w, "action", r.action)
           /\ t[3] = Setting(c + w, "min_digest_age", r.min_digest_age)
           /\ t[4] = Setting(c + w, "allow_first_seen_pull", r.allow_first_seen_pull)
           /\ t[5] = Heading(c, "signatures", r, CosignKeys)
           /\ t[6] = Heading(c + w, "cosign", r, CosignKeys)
           /\ t[7] = Setting(c + 2 * w, "required", r.required)
           /\ t[8] = Setting(c + 2 * w, "mode", r.mode)
           /\ t[9] = Setting(c + 2 * w, "key", r.key)
           /\ t[10] = Setting(c + 2 * w, "issuer", r.issuer)
           /\ t[11] = Setting(c + 2 * w, "identity", r.identity)
           /\ t[12] = Setting(c + 2 * w, "identity_regex", r.identity_regex)
BY DEF Fields

LEMMA FieldsTyped ==
    ASSUME NEW r \in [DOMAIN NewRule -> Texts], NEW c \in 0..6, NEW w \in 1..4
    PROVE  Fields(r, c, w) \in Seq(Lines) /\ Len(Fields(r, c, w)) = 12
<1>1. c \in Columns /\ c + w \in Columns /\ c + 2 * w \in Columns
  BY DEF Columns
<1>2. \A k \in RuleFields : r[k] \in Texts
  BY FieldNames
<1>3. /\ r.action \in Texts /\ r.min_digest_age \in Texts
      /\ r.allow_first_seen_pull \in Texts /\ r.required \in Texts
      /\ r.mode \in Texts /\ r.key \in Texts /\ r.issuer \in Texts
      /\ r.identity \in Texts /\ r.identity_regex \in Texts
  BY <1>2 DEF RuleFields
<1> DEFINE t == Fields(r, c, w)
<1>4. \A l \in 1..12 : t[l] \in Lines
  <2>1. /\ Heading(c, "mutable_tags", r, MutableKeys) \in Lines
        /\ Heading(c, "signatures", r, CosignKeys) \in Lines
        /\ Heading(c + w, "cosign", r, CosignKeys) \in Lines
    BY <1>1, HeadingTyped, Names
  <2>2. /\ Setting(c + w, "action", r.action) \in Lines
        /\ Setting(c + w, "min_digest_age", r.min_digest_age) \in Lines
        /\ Setting(c + w, "allow_first_seen_pull", r.allow_first_seen_pull) \in Lines
        /\ Setting(c + 2 * w, "required", r.required) \in Lines
        /\ Setting(c + 2 * w, "mode", r.mode) \in Lines
        /\ Setting(c + 2 * w, "key", r.key) \in Lines
        /\ Setting(c + 2 * w, "issuer", r.issuer) \in Lines
        /\ Setting(c + 2 * w, "identity", r.identity) \in Lines
        /\ Setting(c + 2 * w, "identity_regex", r.identity_regex) \in Lines
    BY <1>1, <1>3, HeadingTyped, Names
  <2>3. /\ t[1] \in Lines /\ t[2] \in Lines /\ t[3] \in Lines /\ t[4] \in Lines
        /\ t[5] \in Lines /\ t[6] \in Lines /\ t[7] \in Lines /\ t[8] \in Lines
        /\ t[9] \in Lines /\ t[10] \in Lines /\ t[11] \in Lines /\ t[12] \in Lines
    BY <2>1, <2>2, FieldLine
  <2> HIDE DEF t
  <2> QED BY <2>3
<1>5. Len(t) = 12 /\ t = [l \in 1..12 |-> t[l]]
  BY FieldLine
<1> HIDE DEF t
<1>6. t \in Seq(Lines)
  <2>1. t \in [1..12 -> Lines]
    BY <1>4, <1>5
  <2> QED BY <2>1, FunctionIsSeq
<1> QED BY <1>5, <1>6 DEF t

LEMMA RuleTyped ==
    ASSUME NEW r \in [DOMAIN NewRule -> Texts], NEW how \in Layouts
    PROVE  /\ \A l \in 1..RuleSize : RuleLines(r, how)[l] \in Lines
<1>1. /\ how.item \in 0..4 /\ how.item + 2 \in 0..6 /\ how.step \in 1..4
  BY LayoutsAssumption
<1> DEFINE match == <<Line(how.item + 2, "match", r.match)>>
           fields == Fields(r, how.item + 2, how.step)
           lines == IF how.matchFirst THEN match \o fields ELSE fields \o match
           first == CHOOSE i \in DOMAIN lines :
                       lines[i] # Blank /\ \A j \in 1..i - 1 : lines[j] = Blank
<1>2. RuleLines(r, how) =
         [lines EXCEPT ![first].dash = TRUE, ![first].indent = how.item]
  BY DEF RuleLines, Fields
<1>3. match \in Seq(Lines) /\ Len(match) = 1
  <2>1. r.match \in Words
    BY FieldNames, Literal DEF RuleFields
  <2>2. Line(how.item + 2, "match", r.match) \in Lines
    <3>1. how.item + 2 \in Columns
      BY <1>1 DEF Columns
    <3>2. "match" \in Words
      BY Literal, Names
    <3> QED BY <2>1, <3>1, <3>2, LineTyped
  <2> HIDE DEF Line
  <2> QED BY <2>2
<1>4. fields \in Seq(Lines) /\ Len(fields) = 12
  BY <1>1, FieldsTyped
<1> HIDE DEF match, fields
<1>5. lines \in Seq(Lines) /\ Len(lines) = 13
  <2>1. /\ match \o fields \in Seq(Lines) /\ Len(match \o fields) = Len(match) + Len(fields)
        /\ fields \o match \in Seq(Lines) /\ Len(fields \o match) = Len(fields) + Len(match)
    BY <1>3, <1>4, ConcatProperties, Zenon
  <2> QED BY <1>3, <1>4, <2>1
<1> HIDE DEF lines, first
<1>6. \A l \in 1..13 : lines[l] \in Lines /\ l \in DOMAIN lines
  BY <1>5, ElementOfSeq, LenProperties
<1>7. \A l \in 1..13 : RuleLines(r, how)[l] \in Lines
  <2> TAKE l \in 1..13
  <2>1. \/ RuleLines(r, how)[l] = lines[l]
        \/ RuleLines(r, how)[l] = [lines[l] EXCEPT !.dash = TRUE, !.indent = how.item]
    BY <1>2, <1>6
  <2>2. how.item \in Columns
    BY <1>1 DEF Columns
  <2> QED BY <1>6, <2>1, <2>2 DEF Lines
<1> QED BY <1>7 DEF RuleSize

LEMMA FirstColumn == 0 \in Columns
BY DEF Columns

LEMMA ShortSeq ==
    ASSUME NEW S, NEW a \in S, NEW b \in S, NEW c \in S
    PROVE  /\ <<a>> \in Seq(S) /\ Len(<<a>>) = 1 /\ <<a>>[1] = a
           /\ <<a, b>> \in Seq(S) /\ Len(<<a, b>>) = 2
           /\ <<a, b, c>> \in Seq(S) /\ Len(<<a, b, c>>) = 3
OBVIOUS

(* The rules: their key, then RuleSize lines a rule.                        *)
LEMMA Division ==
    \A n \in Nat, l \in 1..RuleSize :
        /\ (RuleSize * n + l - 1) \div RuleSize = n
        /\ (RuleSize * n + l - 1) % RuleSize = l - 1
BY DEF RuleSize

LEMMA RulesLine ==
    ASSUME NEW rules \in Seq([DOMAIN NewRule -> Texts]), NEW how \in Layouts
    PROVE  /\ RulesLines(rules, how) \in Seq(Lines)
           /\ Len(RulesLines(rules, how)) = 1 + RuleSize * Len(rules)
           /\ RulesLines(rules, how)[1] = Line(0, "rules", "")
           /\ \A n \in 0..Len(rules) - 1, l \in 1..RuleSize :
                 RulesLines(rules, how)[1 + RuleSize * n + l] =
                    RuleLines(rules[n + 1], how)[l]
<1> DEFINE N == RuleSize * Len(rules)
           head == <<Line(0, "rules", "")>>
           Rule(l) == RuleLines(rules[1 + ((l - 1) \div RuleSize)], how)[1 + ((l - 1) % RuleSize)]
           items == [l \in 1..N |-> Rule(l)]
<1>1. Len(rules) \in Nat /\ RuleSize = 13 /\ N \in Nat
  BY LenProperties DEF RuleSize
<1>2. \A l \in 1..N : 1 + ((l - 1) \div RuleSize) \in 1..Len(rules)
                      /\ 1 + ((l - 1) % RuleSize) \in 1..RuleSize
  BY <1>1
<1>3. \A l \in 1..N : Rule(l) \in Lines
  <2> TAKE l \in 1..N
  <2> DEFINE n == 1 + ((l - 1) \div RuleSize)
             m == 1 + ((l - 1) % RuleSize)
  <2>1. n \in 1..Len(rules) /\ m \in 1..RuleSize
    BY <1>2
  <2> HIDE DEF n, m
  <2>2. rules[n] \in [DOMAIN NewRule -> Texts]
    BY <2>1, ElementOfSeq, Zenon
  <2>3. RuleLines(rules[n], how)[m] \in Lines
    BY <2>1, <2>2, RuleTyped
  <2> QED BY <2>3 DEF n, m
<1> HIDE DEF Rule
<1>4. items \in Seq(Lines) /\ Len(items) = N
  <2> HIDE DEF N
  <2>1. items \in [1..N -> Lines]
    BY <1>3
  <2> QED BY <1>1, <2>1, FunctionIsSeq
<1>5. head \in Seq(Lines) /\ Len(head) = 1 /\ head[1] = Line(0, "rules", "")
  <2>1. Line(0, "rules", "") \in Lines
    BY FirstColumn, HeadingTyped, Names
  <2> HIDE DEF Line
  <2> QED BY <2>1, ShortSeq, Zenon
<1>6. RulesLines(rules, how) = head \o items
  BY DEF RulesLines, Rule
<1>7. \A l \in 1..N : items[l] = Rule(l)
  OBVIOUS
<1> HIDE DEF items, head
<1>8. /\ head \o items \in Seq(Lines) /\ Len(head \o items) = Len(head) + Len(items)
      /\ \A i \in 1..Len(head) + Len(items) :
            (head \o items)[i] = IF i <= Len(head) THEN head[i] ELSE items[i - Len(head)]
  BY <1>4, <1>5, ConcatProperties, Zenon
<1>9. ASSUME NEW n \in 0..Len(rules) - 1, NEW l \in 1..RuleSize
      PROVE  (head \o items)[1 + RuleSize * n + l] = RuleLines(rules[n + 1], how)[l]
  <2>1. n \in Nat /\ RuleSize * n + l \in 1..N
    BY <1>1
  <2>2. (head \o items)[1 + RuleSize * n + l] = items[RuleSize * n + l]
    <3> DEFINE i == 1 + RuleSize * n + l
    <3>1. /\ i \in 1..1 + N /\ ~(i <= 1) /\ i - 1 = RuleSize * n + l
      BY <1>1, <2>1
    <3> HIDE DEF i, N
    <3> QED BY <1>4, <1>5, <1>8, <3>1 DEF i
  <2>3. Rule(RuleSize * n + l) = RuleLines(rules[n + 1], how)[l]
    <3>1. /\ (RuleSize * n + l - 1) \div RuleSize = n
          /\ (RuleSize * n + l - 1) % RuleSize = l - 1
      BY <2>1, Division
    <3>2. 1 + n = n + 1 /\ 1 + (l - 1) = l
      BY <1>1
    <3>3. Rule(RuleSize * n + l) = RuleLines(rules[1 + n], how)[1 + (l - 1)]
      <4>1. ASSUME NEW i, i = RuleSize * n + l
            PROVE  Rule(i) = RuleLines(rules[1 + n], how)[1 + (l - 1)]
        <5>1. (i - 1) \div RuleSize = n /\ (i - 1) % RuleSize = l - 1
          BY <1>1, <2>1, <4>1
        <5> QED BY ONLY <5>1 DEF Rule
      <4> HIDE DEF Rule
      <4> QED BY <4>1
    <3> QED BY <3>2, <3>3
  <2> QED BY <1>7, <2>1, <2>2, <2>3
<1>10. (head \o items)[1] = Line(0, "rules", "")
  <2>1. 1 \in 1..1 + N /\ 1 <= 1
    BY <1>1
  <2> QED BY <1>4, <1>5, <1>8, <2>1
<1> QED BY <1>1, <1>4, <1>5, <1>6, <1>8, <1>9, <1>10

(* The blocks: how long they are, and what stands in the first two lines    *)
(* of the small ones.                                                       *)
Size(doc, name) ==
    CASE name = "default_policy" -> 19
      [] name = "rules" -> 1 + RuleSize * Len(doc.rules)
      [] name = "audit" -> 2
      [] name = "state" -> 3

LEMMA DocumentTyped ==
    ASSUME NEW doc \in Documents
    PROVE  /\ doc.version \in Texts /\ doc.audit \in Texts
           /\ doc.state.backend \in Texts /\ doc.state.path \in Texts
           /\ doc.default \in [DOMAIN ZeroPolicy -> Texts]
           /\ doc.rules \in Seq([DOMAIN NewRule -> Texts]) /\ Len(doc.rules) \in Nat
           /\ \A n \in 1..Len(doc.rules) : doc.rules[n] \in [DOMAIN NewRule -> Texts]
<1>1. /\ doc.version \in Texts /\ doc.audit \in Texts
      /\ doc.state.backend \in Texts /\ doc.state.path \in Texts
      /\ doc.default \in [DOMAIN ZeroPolicy -> Texts]
      /\ doc.rules \in Seq([DOMAIN NewRule -> Texts])
  BY DocumentsAssumption
<1> QED BY <1>1, LenProperties, ElementOfSeq

LEMMA LayoutTyped ==
    ASSUME NEW how \in Layouts
    PROVE  /\ how.item \in 0..4 /\ how.step \in 1..4 /\ how.order \in Orders
           /\ \A b \in 1..4 : how.order[b] \in BlockNames
           /\ \A b, c \in 1..4 : how.order[b] = how.order[c] => b = c
BY LayoutsAssumption DEF Orders

LEMMA SmallBlock ==
    ASSUME NEW doc, NEW how
    PROVE  /\ Len(Block(doc, how, "audit")) = 2
           /\ Block(doc, how, "audit")[1] = Line(0, "audit", "")
           /\ Block(doc, how, "audit")[2] = Line(how.step, "path", doc.audit)
           /\ Len(Block(doc, how, "state")) = 3
           /\ Block(doc, how, "state")[1] = Line(0, "state", "")
           /\ Block(doc, how, "state")[2] = Line(how.step, "backend", doc.state.backend)
           /\ Block(doc, how, "state")[3] = Line(how.step, "path", doc.state.path)
BY DEF Block

LEMMA BlockTyped ==
    ASSUME NEW doc \in Documents, NEW how \in Layouts, NEW name \in BlockNames
    PROVE  /\ Block(doc, how, name) \in Seq(Lines)
           /\ Len(Block(doc, how, name)) = Size(doc, name)
           /\ Size(doc, name) \in Nat /\ Size(doc, name) >= 1
<1>1. Len(doc.rules) \in Nat /\ RuleSize = 13 /\ how.step \in 1..4 /\ how.step \in Columns
  BY DocumentTyped, LayoutTyped DEF RuleSize, Columns
<1>2. CASE name = "default_policy"
  <2>1. Block(doc, how, name) = DefaultLines(doc.default, how.step) /\ Size(doc, name) = 19
    BY <1>2 DEF Block, Size
  <2> QED BY <1>1, <2>1, DocumentTyped, DefaultTyped
<1>3. CASE name = "rules"
  <2>1. /\ Block(doc, how, name) = RulesLines(doc.rules, how)
        /\ Size(doc, name) = 1 + RuleSize * Len(doc.rules)
    BY <1>3 DEF Block, Size
  <2>2. 1 + RuleSize * Len(doc.rules) \in Nat /\ 1 + RuleSize * Len(doc.rules) >= 1
    BY <1>1
  <2> QED BY <2>1, <2>2, DocumentTyped, RulesLine
<1>4. CASE name = "audit" \/ name = "state"
  <2>1. /\ Line(0, "audit", "") \in Lines /\ Line(0, "state", "") \in Lines
        /\ Line(how.step, "path", doc.audit) \in Lines
        /\ Line(how.step, "backend", doc.state.backend) \in Lines
        /\ Line(how.step, "path", doc.state.path) \in Lines
    <3>1. /\ doc.audit \in Words /\ doc.state.backend \in Words
          /\ doc.state.path \in Words
          /\ "path" \in Words /\ "backend" \in Words
      BY DocumentTyped, Literal, Names
    <3> QED BY <1>1, <3>1, FirstColumn, LineTyped, HeadingTyped, Names
  <2> HIDE DEF Line
  <2>2. CASE name = "audit"
    <3>1. Block(doc, how, name) =
                <<Line(0, "audit", ""), Line(how.step, "path", doc.audit)>>
      BY <2>2 DEF Block
    <3>2. Block(doc, how, name) \in Seq(Lines) /\ Len(Block(doc, how, name)) = 2
      BY <2>1, <3>1, ShortSeq, Zenon
    <3>3. Size(doc, name) = 2
      BY <2>2 DEF Size
    <3> QED BY <3>2, <3>3
  <2>3. CASE name = "state"
    <3> DEFINE key == Line(0, "state", "")
               backend == Line(how.step, "backend", doc.state.backend)
               path == Line(how.step, "path", doc.state.path)
    <3>1. Block(doc, how, name) = <<key, backend, path>>
      BY <2>3 DEF Block
    <3>2. key \in Lines /\ backend \in Lines /\ path \in Lines
      BY <2>1
    <3> HIDE DEF key, backend, path
    <3>4. Block(doc, how, name) \in Seq(Lines) /\ Len(Block(doc, how, name)) = 3
      BY <3>1, <3>2, ShortSeq
    <3>3. Size(doc, name) = 3
      BY <2>3 DEF Size
    <3> QED BY <3>3, <3>4
  <2> QED BY <1>4, <2>2, <2>3
<1> QED BY <1>2, <1>3, <1>4 DEF BlockNames

(* Where the lines of a block stand in the file.                            *)
Offset(doc, how, b) ==
    1 + (IF b > 1 THEN Size(doc, how.order[1]) ELSE 0)
      + (IF b > 2 THEN Size(doc, how.order[2]) ELSE 0)
      + (IF b > 3 THEN Size(doc, how.order[3]) ELSE 0)
Place(how, name) == CHOOSE b \in 1..4 : how.order[b] = name

LEMMA Joined ==
    ASSUME NEW S, NEW s \in Seq(S), NEW t \in Seq(S)
    PROVE  /\ s \o t \in Seq(S) /\ Len(s \o t) = Len(s) + Len(t)
           /\ \A i \in 1..Len(s) : (s \o t)[i] = s[i]
           /\ \A i \in 1..Len(t) : (s \o t)[Len(s) + i] = t[i]
<1>1. Len(s) \in Nat /\ Len(t) \in Nat
  BY LenProperties
<1>2. /\ s \o t \in Seq(S) /\ Len(s \o t) = Len(s) + Len(t)
      /\ \A i \in 1..Len(s) + Len(t) :
            (s \o t)[i] = IF i <= Len(s) THEN s[i] ELSE t[i - Len(s)]
  BY ConcatProperties
<1>3. ASSUME NEW i \in 1..Len(s) PROVE (s \o t)[i] = s[i]
  BY <1>1, <1>2
<1>4. ASSUME NEW i \in 1..Len(t) PROVE (s \o t)[Len(s) + i] = t[i]
  <2>1. /\ Len(s) + i \in 1..Len(s) + Len(t) /\ ~(Len(s) + i <= Len(s))
        /\ (Len(s) + i) - Len(s) = i
    BY <1>1
  <2> QED BY <1>2, <2>1
<1> QED BY <1>2, <1>3, <1>4

LEMMA FileLines ==
    ASSUME NEW doc \in Documents, NEW how \in Layouts
    PROVE  /\ FileOf(doc, how) \in Seq(Lines)
           /\ Len(FileOf(doc, how)) = Offset(doc, how, 4) + Size(doc, how.order[4])
           /\ FileOf(doc, how)[1] = Line(0, "version", doc.version)
           /\ \A b \in 1..4 : \A r \in 1..Size(doc, how.order[b]) :
                 FileOf(doc, how)[Offset(doc, how, b) + r] =
                    Block(doc, how, how.order[b])[r]
<1> DEFINE head == <<Line(0, "version", doc.version)>>
           B(b) == Block(doc, how, how.order[b])
           S(b) == Size(doc, how.order[b])
           s1 == B(1)
           s2 == B(2)
           s3 == B(3)
           s4 == B(4)
           f1 == head \o s1
           f2 == f1 \o s2
           f3 == f2 \o s3
           f4 == f3 \o s4
<1>1. \A b \in 1..4 : B(b) \in Seq(Lines) /\ Len(B(b)) = S(b) /\ S(b) \in Nat
  BY LayoutTyped, BlockTyped
<1>2. head \in Seq(Lines) /\ Len(head) = 1 /\ head[1] = Line(0, "version", doc.version)
  <2>1. Line(0, "version", doc.version) \in Lines
    <3>1. doc.version \in Words /\ "version" \in Words
      BY DocumentTyped, Literal, Names
    <3> QED BY <3>1, FirstColumn, LineTyped
  <2> HIDE DEF Line
  <2> QED BY <2>1, ShortSeq
<1>3. f4 = FileOf(doc, how)
  BY DEF FileOf
<1>4. /\ Offset(doc, how, 1) = 1 /\ Offset(doc, how, 2) = 1 + S(1)
      /\ Offset(doc, how, 3) = 1 + S(1) + S(2)
      /\ Offset(doc, how, 4) = 1 + S(1) + S(2) + S(3)
  BY <1>1 DEF Offset
<1>5. /\ s1 \in Seq(Lines) /\ Len(s1) = S(1) /\ S(1) \in Nat
      /\ s2 \in Seq(Lines) /\ Len(s2) = S(2) /\ S(2) \in Nat
      /\ s3 \in Seq(Lines) /\ Len(s3) = S(3) /\ S(3) \in Nat
      /\ s4 \in Seq(Lines) /\ Len(s4) = S(4) /\ S(4) \in Nat
  BY <1>1
<1> HIDE DEF head, f1, f2, f3, f4, s1, s2, s3, s4, S
<1>6. /\ f1 \in Seq(Lines) /\ Len(f1) = 1 + S(1)
      /\ f1[1] = head[1]
      /\ \A r \in 1..S(1) : f1[1 + r] = s1[r]
  <2>1. /\ head \o s1 \in Seq(Lines) /\ Len(head \o s1) = Len(head) + Len(s1)
        /\ \A i \in 1..Len(head) : (head \o s1)[i] = head[i]
        /\ \A i \in 1..Len(s1) : (head \o s1)[Len(head) + i] = s1[i]
    <3>1. head \in Seq(Lines) /\ s1 \in Seq(Lines)
      BY <1>2, <1>5
    <3> QED BY <3>1, Joined
  <2> QED BY <1>2, <1>5, <2>1 DEF f1
<1>7. /\ f2 \in Seq(Lines) /\ Len(f2) = 1 + S(1) + S(2)
      /\ \A i \in 1..1 + S(1) : f2[i] = f1[i]
      /\ \A r \in 1..S(2) : f2[1 + S(1) + r] = s2[r]
  <2>1. /\ f1 \o s2 \in Seq(Lines) /\ Len(f1 \o s2) = Len(f1) + Len(s2)
        /\ \A i \in 1..Len(f1) : (f1 \o s2)[i] = f1[i]
        /\ \A i \in 1..Len(s2) : (f1 \o s2)[Len(f1) + i] = s2[i]
    <3>1. f1 \in Seq(Lines) /\ s2 \in Seq(Lines)
      BY <1>6, <1>5
    <3> QED BY <3>1, Joined
  <2> QED BY <1>6, <1>5, <2>1 DEF f2
<1>8. /\ f3 \in Seq(Lines) /\ Len(f3) = 1 + S(1) + S(2) + S(3)
      /\ \A i \in 1..1 + S(1) + S(2) : f3[i] = f2[i]
      /\ \A r \in 1..S(3) : f3[1 + S(1) + S(2) + r] = s3[r]
  <2>1. /\ f2 \o s3 \in Seq(Lines) /\ Len(f2 \o s3) = Len(f2) + Len(s3)
        /\ \A i \in 1..Len(f2) : (f2 \o s3)[i] = f2[i]
        /\ \A i \in 1..Len(s3) : (f2 \o s3)[Len(f2) + i] = s3[i]
    <3>1. f2 \in Seq(Lines) /\ s3 \in Seq(Lines)
      BY <1>7, <1>5
    <3> QED BY <3>1, Joined
  <2> QED BY <1>7, <1>5, <2>1 DEF f3
<1>9. /\ f4 \in Seq(Lines) /\ Len(f4) = 1 + S(1) + S(2) + S(3) + S(4)
      /\ \A i \in 1..1 + S(1) + S(2) + S(3) : f4[i] = f3[i]
      /\ \A r \in 1..S(4) : f4[1 + S(1) + S(2) + S(3) + r] = s4[r]
  <2>1. /\ f3 \o s4 \in Seq(Lines) /\ Len(f3 \o s4) = Len(f3) + Len(s4)
        /\ \A i \in 1..Len(f3) : (f3 \o s4)[i] = f3[i]
        /\ \A i \in 1..Len(s4) : (f3 \o s4)[Len(f3) + i] = s4[i]
    <3>1. f3 \in Seq(Lines) /\ s4 \in Seq(Lines)
      BY <1>8, <1>5
    <3> QED BY <3>1, Joined
  <2> QED BY <1>8, <1>5, <2>1 DEF f4
<1>10. f4[1] = head[1]
  <2>1. 1 \in 1..1 + S(1) /\ 1 \in 1..1 + S(1) + S(2) /\ 1 \in 1..1 + S(1) + S(2) + S(3)
    BY <1>5
  <2> QED BY <1>6, <1>7, <1>8, <1>9, <2>1
<1>11. ASSUME NEW b \in 1..4, NEW r \in 1..S(b)
       PROVE  f4[Offset(doc, how, b) + r] = B(b)[r]
  <2>1. CASE b = 1
    <3>1. /\ r \in 1..S(1) /\ 1 + r \in 1..1 + S(1) /\ 1 + r \in 1..1 + S(1) + S(2)
          /\ 1 + r \in 1..1 + S(1) + S(2) + S(3)
      BY <1>5, <1>11, <2>1
    <3>2. B(b) = s1
      BY <2>1 DEF s1
    <3> HIDE DEF B
    <3> QED BY <1>4, <1>6, <1>7, <1>8, <1>9, <2>1, <3>1, <3>2
  <2>2. CASE b = 2
    <3>1. /\ r \in 1..S(2) /\ 1 + S(1) + r \in 1..1 + S(1) + S(2)
          /\ 1 + S(1) + r \in 1..1 + S(1) + S(2) + S(3)
      BY <1>5, <1>11, <2>2
    <3>2. B(b) = s2
      BY <2>2 DEF s2
    <3> HIDE DEF B
    <3> QED BY <1>4, <1>7, <1>8, <1>9, <2>2, <3>1, <3>2
  <2>3. CASE b = 3
    <3>1. r \in 1..S(3) /\ 1 + S(1) + S(2) + r \in 1..1 + S(1) + S(2) + S(3)
      BY <1>5, <1>11, <2>3
    <3>2. B(b) = s3
      BY <2>3 DEF s3
    <3> HIDE DEF B
    <3> QED BY <1>4, <1>8, <1>9, <2>3, <3>1, <3>2
  <2>4. CASE b = 4
    <3>1. r \in 1..S(4)
      BY <1>11, <2>4
    <3>2. B(b) = s4
      BY <2>4 DEF s4
    <3> HIDE DEF B
    <3> QED BY <1>4, <1>9, <2>4, <3>1, <3>2
  <2> QED BY <2>1, <2>2, <2>3, <2>4
<1> QED BY <1>2, <1>3, <1>4, <1>9, <1>10, <1>11 DEF S

(* How many lines of a block are among the first n of the file.             *)
Passed(doc, how, n, name) ==
    LET before == Offset(doc, how, Place(how, name))
    IN  IF n <= before THEN 0
        ELSE IF n <= before + Size(doc, name) THEN n - before ELSE Size(doc, name)

LEMMA Places ==
    ASSUME NEW how \in Layouts
    PROVE  /\ \A b \in 1..4 : Place(how, how.order[b]) = b
           /\ \A name \in BlockNames :
                 Place(how, name) \in 1..4 /\ how.order[Place(how, name)] = name
<1>1. /\ \A b \in 1..4 : how.order[b] \in BlockNames
      /\ \A b, c \in 1..4 : how.order[b] = how.order[c] => b = c
  BY LayoutTyped
<1>2. ASSUME NEW b \in 1..4 PROVE Place(how, how.order[b]) = b
  BY <1>1 DEF Place
<1>3. ASSUME NEW name \in BlockNames PROVE \E b \in 1..4 : how.order[b] = name
  <2>1. /\ how.order[1] \in BlockNames /\ how.order[2] \in BlockNames
        /\ how.order[3] \in BlockNames /\ how.order[4] \in BlockNames
        /\ how.order[1] # how.order[2] /\ how.order[1] # how.order[3]
        /\ how.order[1] # how.order[4] /\ how.order[2] # how.order[3]
        /\ how.order[2] # how.order[4] /\ how.order[3] # how.order[4]
    BY <1>1
  <2> QED BY <2>1 DEF BlockNames
<1>4. ASSUME NEW name \in BlockNames
      PROVE  Place(how, name) \in 1..4 /\ how.order[Place(how, name)] = name
  BY <1>3 DEF Place
<1> QED BY <1>2, <1>4

LEMMA Offsets ==
    ASSUME NEW doc \in Documents, NEW how \in Layouts
    PROVE  /\ \A b \in 1..4 : Offset(doc, how, b) \in Nat /\ Offset(doc, how, b) >= 1
           /\ \A b, c \in 1..4 : b < c =>
                 Offset(doc, how, b) + Size(doc, how.order[b]) <= Offset(doc, how, c)
           /\ Offset(doc, how, 1) = 1
           /\ \A n \in Nat : n >= 1 /\ n < Len(FileOf(doc, how)) =>
                 \E b \in 1..4 : /\ Offset(doc, how, b) <= n
                                 /\ n < Offset(doc, how, b) + Size(doc, how.order[b])
           /\ \A b \in 1..4 :
                 Offset(doc, how, b) + Size(doc, how.order[b]) <= Len(FileOf(doc, how))
<1> DEFINE S(b) == Size(doc, how.order[b])
<1>1. \A b \in 1..4 : S(b) \in Nat /\ S(b) >= 1
  BY LayoutTyped, BlockTyped
<1>2. S(1) \in Nat /\ S(2) \in Nat /\ S(3) \in Nat /\ S(4) \in Nat
  BY <1>1
<1>3. /\ Offset(doc, how, 1) = 1 /\ Offset(doc, how, 2) = 1 + S(1)
      /\ Offset(doc, how, 3) = 1 + S(1) + S(2)
      /\ Offset(doc, how, 4) = 1 + S(1) + S(2) + S(3)
  BY <1>2 DEF Offset
<1>4. Len(FileOf(doc, how)) = Offset(doc, how, 4) + S(4)
  BY FileLines
<1> HIDE DEF S
<1>5. \A b \in 1..4 : Offset(doc, how, b) \in Nat /\ Offset(doc, how, b) >= 1
  BY <1>2, <1>3
<1>6. \A b, c \in 1..4 : b < c => Offset(doc, how, b) + S(b) <= Offset(doc, how, c)
  <2> SUFFICES ASSUME NEW b \in 1..4, NEW c \in 1..4, b < c
               PROVE  Offset(doc, how, b) + S(b) <= Offset(doc, how, c)
    OBVIOUS
  <2>1. CASE b = 1
    BY <1>2, <1>3, <2>1
  <2>2. CASE b = 2
    BY <1>2, <1>3, <2>2
  <2>3. CASE b = 3
    BY <1>2, <1>3, <2>3
  <2> QED BY <2>1, <2>2, <2>3
<1>7. ASSUME NEW n \in Nat, n >= 1, n < Len(FileOf(doc, how))
      PROVE  \E b \in 1..4 : Offset(doc, how, b) <= n /\ n < Offset(doc, how, b) + S(b)
  <2>1. \/ Offset(doc, how, 1) <= n /\ n < Offset(doc, how, 1) + S(1)
        \/ Offset(doc, how, 2) <= n /\ n < Offset(doc, how, 2) + S(2)
        \/ Offset(doc, how, 3) <= n /\ n < Offset(doc, how, 3) + S(3)
        \/ Offset(doc, how, 4) <= n /\ n < Offset(doc, how, 4) + S(4)
    BY <1>2, <1>3, <1>4, <1>7
  <2> QED BY <2>1
<1>8. \A b \in 1..4 : Offset(doc, how, b) + S(b) <= Len(FileOf(doc, how))
  <2> TAKE b \in 1..4
  <2>1. b = 4 \/ b < 4
    OBVIOUS
  <2>2. CASE b = 4
    BY <1>2, <1>3, <1>4, <2>2
  <2>3. CASE b < 4
    BY <1>2, <1>3, <1>4, <1>6, <2>3
  <2> QED BY <2>1, <2>2, <2>3
<1> QED BY <1>3, <1>5, <1>6, <1>7, <1>8 DEF S

(* The line after the first n, for n > 0, is the next one of one block; of  *)
(* the blocks before it all lines have passed and of those behind it none.  *)
LEMMA NextLine ==
    ASSUME NEW doc \in Documents, NEW how \in Layouts, NEW n \in Nat,
           n >= 1, n < Len(FileOf(doc, how))
    PROVE  \E name \in BlockNames :
              /\ Passed(doc, how, n, name) \in 0..Size(doc, name) - 1
              /\ FileOf(doc, how)[n + 1] =
                    Block(doc, how, name)[Passed(doc, how, n, name) + 1]
              /\ Passed(doc, how, n + 1, name) = Passed(doc, how, n, name) + 1
              /\ \A other \in BlockNames \ {name} :
                    /\ Passed(doc, how, n + 1, other) = Passed(doc, how, n, other)
                    /\ Place(how, other) < Place(how, name) =>
                          Passed(doc, how, n, other) = Size(doc, other)
                    /\ Place(how, name) < Place(how, other) =>
                          Passed(doc, how, n, other) = 0
<1>1. PICK b \in 1..4 : /\ Offset(doc, how, b) <= n
                        /\ n < Offset(doc, how, b) + Size(doc, how.order[b])
  BY Offsets
<1> DEFINE name == how.order[b]
           before == Offset(doc, how, b)
           r == n - before
<1>2. name \in BlockNames /\ Place(how, name) = b
  BY LayoutTyped, Places
<1>3. Size(doc, name) \in Nat /\ before \in Nat
  BY <1>2, BlockTyped, Offsets
<1>4. Passed(doc, how, n, name) = r /\ Passed(doc, how, n + 1, name) = r + 1
  <2> HIDE DEF name, before
  <2>1. before <= n /\ n < before + Size(doc, name)
    BY <1>1 DEF before, name
  <2>2. Offset(doc, how, Place(how, name)) = before
    BY <1>2 DEF before
  <2> QED BY <1>3, <2>1, <2>2 DEF Passed
<1>5. r \in 0..Size(doc, name) - 1
  BY <1>1, <1>3
<1>6. FileOf(doc, how)[n + 1] = Block(doc, how, name)[r + 1]
  <2>1. r + 1 \in 1..Size(doc, name) /\ before + (r + 1) = n + 1
    BY <1>3, <1>5
  <2>2. \A i \in 1..Size(doc, name) : FileOf(doc, how)[before + i] = Block(doc, how, name)[i]
    BY FileLines
  <2> QED BY <2>1, <2>2
<1>7. ASSUME NEW other \in BlockNames \ {name}
      PROVE  /\ Passed(doc, how, n + 1, other) = Passed(doc, how, n, other)
             /\ Place(how, other) < Place(how, name) =>
                   Passed(doc, how, n, other) = Size(doc, other)
             /\ Place(how, name) < Place(how, other) =>
                   Passed(doc, how, n, other) = 0
  <2> DEFINE c == Place(how, other)
             o == Offset(doc, how, c)
  <2>1. c \in 1..4 /\ how.order[c] = other
    BY Places
  <2>2. c # b /\ o \in Nat /\ Size(doc, other) \in Nat
    BY <2>1, Offsets, BlockTyped
  <2>3. CASE c < b
    <3>1. o + Size(doc, other) <= before
      BY <2>1, <2>3, Offsets
    <3> HIDE DEF c, o
    <3>2. o + Size(doc, other) <= n
      BY <1>1, <1>3, <2>2, <3>1
    <3>3. Offset(doc, how, Place(how, other)) = o
      BY DEF o, c
    <3>4. Passed(doc, how, n, other) = Size(doc, other)
      BY <2>2, <3>2, <3>3 DEF Passed
    <3>5. Passed(doc, how, n + 1, other) = Size(doc, other)
      BY <2>2, <3>2, <3>3 DEF Passed
    <3> QED BY <1>2, <2>1, <2>3, <3>4, <3>5 DEF c
  <2>4. CASE b < c
    <3>1. before + Size(doc, name) <= o
      BY <2>1, <2>4, Offsets
    <3> HIDE DEF c, o
    <3>2. n + 1 <= o /\ n <= o
      BY <1>1, <1>3, <2>2, <3>1
    <3>3. Offset(doc, how, Place(how, other)) = o
      BY DEF o, c
    <3>4. Passed(doc, how, n, other) = 0 /\ Passed(doc, how, n + 1, other) = 0
      BY <3>2, <3>3 DEF Passed
    <3> QED BY <1>2, <2>1, <2>4, <3>4 DEF c
  <2> QED BY <2>1, <2>2, <2>3, <2>4
<1> QED BY <1>2, <1>4, <1>5, <1>6, <1>7

(* Before the first block nothing has passed, at the end everything has.    *)
LEMMA Ends ==
    ASSUME NEW doc \in Documents, NEW how \in Layouts, NEW name \in BlockNames
    PROVE  /\ Passed(doc, how, 0, name) = 0 /\ Passed(doc, how, 1, name) = 0
           /\ Passed(doc, how, Len(FileOf(doc, how)), name) = Size(doc, name)
<1> DEFINE o == Offset(doc, how, Place(how, name))
           n == Len(FileOf(doc, how))
<1>1. Place(how, name) \in 1..4 /\ how.order[Place(how, name)] = name
  BY Places
<1>2. /\ o \in Nat /\ o >= 1 /\ Size(doc, name) \in Nat /\ n \in Nat
      /\ o + Size(doc, name) <= n
  BY <1>1, Offsets, BlockTyped, FileLines, LenProperties
<1> HIDE DEF n
<1>3. /\ Passed(doc, how, 0, name) = 0 /\ Passed(doc, how, 1, name) = 0
      /\ Passed(doc, how, n, name) = Size(doc, name)
  BY <1>2 DEF Passed
<1> QED BY <1>3 DEF n

-----------------------------------------------------------------------------
(* What the parser has understood, line after line.                         *)

(* A line of the file, and where its parts are looked up.                   *)
LEMMA LinesOfFile ==
    ASSUME file \in Seq(Lines)
    PROVE  /\ Len(file) \in Nat
           /\ \A i \in 1..Len(file) :
                 /\ file[i].indent \in Columns /\ file[i].dash \in BOOLEAN
                 /\ file[i].key \in Words /\ file[i].value \in Words
                 /\ Scalar(file[i].value) \in Words
<1>1. Len(file) \in Nat /\ \A i \in 1..Len(file) : file[i] \in Lines
  BY LenProperties, ElementOfSeq
<1>2. "" \in Words
  BY WordsAssumption
<1>3. \A value \in Words : Scalar(value) \in Words
  BY <1>2 DEF Scalar
<1> QED BY <1>1, <1>3 DEF Lines

(* A value that is parsed where it has to be keeps a rule typed.            *)
LEMMA RuleSet ==
    ASSUME NEW rule \in RuleTypes, NEW field \in RuleFields, NEW value \in Words,
           ~Unparsable(field, value)
    PROVE  [rule EXCEPT ![field] = value] \in RuleTypes
<1> DEFINE new == [rule EXCEPT ![field] = value]
<1>1. rule \in [RuleFields -> Words]
  BY FieldNames DEF RuleTypes
<1>2. /\ new \in [RuleFields -> Words]
      /\ \A k \in RuleFields : new[k] = IF k = field THEN value ELSE rule[k]
  BY <1>1
<1>3. {"min_digest_age", "allow_first_seen_pull", "required"} \subseteq RuleFields
  BY DEF RuleFields
<1> HIDE DEF new
<1>4. /\ new["min_digest_age"] \in Ages \cup {Unset}
      /\ new["allow_first_seen_pull"] \in Booleans \cup {Unset}
      /\ new["required"] \in Booleans \cup {Unset}
  BY <1>2, <1>3 DEF RuleTypes, Unparsable
<1> QED BY <1>2, <1>4, FieldNames DEF RuleTypes, new

LEMMA DefaultSet ==
    ASSUME NEW default \in DefaultTypes, NEW field \in PolicyFields, NEW value \in Words,
           ~Unparsable(field, value)
    PROVE  [default EXCEPT ![field] = value] \in DefaultTypes
<1> DEFINE new == [default EXCEPT ![field] = value]
<1>1. default \in [PolicyFields -> Words]
  BY FieldNames DEF DefaultTypes
<1>2. /\ new \in [PolicyFields -> Words]
      /\ \A k \in PolicyFields : new[k] = IF k = field THEN value ELSE default[k]
  BY <1>1
<1>3. {"min_digest_age", "allow_first_seen_pull", "required"} \subseteq PolicyFields
  BY DEF PolicyFields
<1> HIDE DEF new
<1>4. /\ new["min_digest_age"] \in Ages
      /\ new["allow_first_seen_pull"] \in Booleans /\ new["required"] \in Booleans
  BY <1>2, <1>3 DEF DefaultTypes, Unparsable
<1> QED BY <1>2, <1>4, FieldNames DEF DefaultTypes, new

LEMMA FieldTypes ==
    /\ \A known, indent, key : RuleField(known, indent, key) \in RuleFields \cup {""}
    /\ \A known, key : DefaultField(known, key) \in PolicyFields \cup {""}
<1>1. /\ MutableKeys \cup CosignKeys \subseteq RuleFields \cap PolicyFields
      /\ "match" \in RuleFields /\ {"pinned", "resolution", "signature"} \subseteq PolicyFields
  BY DEF MutableKeys, CosignKeys, RuleFields, PolicyFields
<1>2. \A block \in DOMAIN ActionBlock : ActionBlock[block] \in PolicyFields
  BY <1>1 DEF ActionBlock
<1>3. ASSUME NEW known, NEW key PROVE DefaultField(known, key) \in PolicyFields \cup {""}
  BY <1>1, <1>2 DEF DefaultField
<1>4. ASSUME NEW known, NEW indent, NEW key
      PROVE  RuleField(known, indent, key) \in RuleFields \cup {""}
  BY <1>1 DEF RuleField
<1> QED BY <1>3, <1>4

LEMMA ZeroTypes == NewRule \in RuleTypes /\ ZeroPolicy \in DefaultTypes
<1>1. NewRule \in RuleTypes
  BY WordsAssumption DEF NewRule, RuleTypes, Unset, MutableKeys, CosignKeys
<1>2. ZeroPolicy \in [PolicyFields -> Words]
  <2>1. "" \in Words /\ "0d" \in Words /\ "false" \in Words
    BY WordsAssumption
  <2>2. \A k \in PolicyFields : ZeroPolicy[k] \in {"", "0d", "false"}
    <3>1. /\ ZeroPolicy["action"] = "" /\ ZeroPolicy["min_digest_age"] = "0d"
          /\ ZeroPolicy["allow_first_seen_pull"] = "false"
          /\ ZeroPolicy["pinned"] = "" /\ ZeroPolicy["resolution"] = ""
          /\ ZeroPolicy["signature"] = "" /\ ZeroPolicy["required"] = "false"
          /\ ZeroPolicy["mode"] = "" /\ ZeroPolicy["key"] = ""
          /\ ZeroPolicy["issuer"] = "" /\ ZeroPolicy["identity"] = ""
          /\ ZeroPolicy["identity_regex"] = ""
      BY DEF ZeroPolicy
    <3> QED BY ONLY <3>1, Zenon DEF PolicyFields
  <2>3. ZeroPolicy = [k \in DOMAIN ZeroPolicy |-> ZeroPolicy[k]]
    BY DEF ZeroPolicy
  <2> QED BY <2>1, <2>2, <2>3, FieldNames
<1>3. /\ ZeroPolicy.min_digest_age \in Ages
      /\ ZeroPolicy.allow_first_seen_pull \in Booleans /\ ZeroPolicy.required \in Booleans
  BY DEF ZeroPolicy, Ages, Booleans
<1> QED BY <1>1, <1>2, <1>3, FieldNames DEF DefaultTypes

(* A list's last element, and what changing it does.                        *)
LEMMA LastChanged ==
    ASSUME NEW S, NEW list \in Seq(S), list # <<>>
    PROVE  /\ list[Len(list)] \in S
           /\ \A e \in S : /\ [list EXCEPT ![Len(list)] = e] \in Seq(S)
                           /\ Len([list EXCEPT ![Len(list)] = e]) = Len(list)
<1>1. \A n \in Nat \ {0} : n \in 1..n
  OBVIOUS
<1>2. Len(list) \in Nat \ {0}
  BY EmptySeq, Zenon
<1>3. Len(list) \in 1..Len(list)
  BY <1>1, <1>2, Zenon
<1>4. list[Len(list)] \in S
  BY <1>3, ElementOfSeq, Zenon
<1>5. ASSUME NEW e \in S
      PROVE  /\ [list EXCEPT ![Len(list)] = e] \in Seq(S)
             /\ Len([list EXCEPT ![Len(list)] = e]) = Len(list)
  <2>1. \A i \in 1..Len(list) : /\ [list EXCEPT ![i] = e] \in Seq(S)
                               /\ Len([list EXCEPT ![i] = e]) = Len(list)
    BY <1>5, ExceptSeq
  <2> QED BY <1>3, <2>1, Zenon
<1> QED BY <1>4, <1>5

(* What the three actions that read a line do to the configuration.         *)
LEMMA RulesUnderstood ==
    ASSUME config \in Configs, outcome = "none", NEW rules \in Seq(RuleTypes),
           NEW field \in RuleFields \cup {""}, NEW value \in Words,
           field # "" => rules # <<>>, SetRuleField(rules, field, value)
    PROVE  /\ config' \in Configs /\ Len(config'.rules) = Len(rules)
           /\ outcome' \in {"none", "rejected"}
<1> DEFINE last == rules[Len(rules)]
           filled == [rules EXCEPT ![Len(rules)] = [last EXCEPT ![field] = value]]
<1>1. \A list \in Seq(RuleTypes) :
         /\ [config EXCEPT !.rules = list] \in Configs
         /\ [config EXCEPT !.rules = list].rules = list
  BY DEF Configs
<1>2. CASE field = "" \/ Unparsable(field, value)
  BY <1>1, <1>2 DEF SetRuleField, Understand, Reject
<1>3. CASE field # "" /\ ~Unparsable(field, value)
  <2> DEFINE new == [last EXCEPT ![field] = value]
  <2>1. rules # <<>>
    BY <1>3
  <2>2. last \in RuleTypes
    BY ONLY <2>1, rules \in Seq(RuleTypes), LastChanged, Zenon
  <2>3. new \in RuleTypes
    BY <1>3, <2>2, RuleSet
  <2>4. filled \in Seq(RuleTypes) /\ Len(filled) = Len(rules)
    <3> HIDE DEF new
    <3>1. /\ [rules EXCEPT ![Len(rules)] = new] \in Seq(RuleTypes)
          /\ Len([rules EXCEPT ![Len(rules)] = new]) = Len(rules)
      BY ONLY <2>1, <2>3, rules \in Seq(RuleTypes), LastChanged, Zenon
    <3>2. filled = [rules EXCEPT ![Len(rules)] = new]
      BY DEF new
    <3> QED BY ONLY <3>1, <3>2, Zenon
  <2>5. config' = [config EXCEPT !.rules = filled] /\ outcome' = outcome
    BY <1>3 DEF SetRuleField, Understand
  <2> HIDE DEF filled
  <2> QED BY <1>1, <2>4, <2>5
<1> QED BY <1>2, <1>3

LEMMA ValueUnderstood ==
    ASSUME config \in Configs, outcome = "none", NEW known, NEW indent, NEW key,
           NEW value \in Words, SetValue(known, indent, key, value)
    PROVE  /\ config' \in Configs /\ config'.rules = config.rules
           /\ outcome' \in {"none", "rejected"}
<1> DEFINE field == DefaultField(known, key)
<1>1. \/ config' = config
      \/ config' = [config EXCEPT !.version = value]
      \/ config' = [config EXCEPT !.audit = value]
      \/ key \in DOMAIN config.state /\ config' = [config EXCEPT !.state[key] = value]
      \/ /\ field # "" /\ ~Unparsable(field, value)
         /\ config' = [config EXCEPT !.default[field] = value]
  BY DEF SetValue, Understand, Reject
<1>2. outcome' \in {"none", "rejected"}
  BY DEF SetValue, Understand, Reject
<1>3. field # "" => field \in PolicyFields
  BY FieldTypes
<1> HIDE DEF field
<1>4. /\ config.state \in [backend : Words, path : Words]
      /\ config.default \in DefaultTypes
      /\ DOMAIN config.state = {"backend", "path"}
  BY DEF Configs
<1>5. CASE config' = config
  BY <1>2, <1>5
<1>6. CASE config' = [config EXCEPT !.version = value]
  <2>1. config' \in Configs
    BY ONLY config \in Configs, value \in Words, <1>6 DEF Configs
  <2>2. config'.rules = config.rules
    BY ONLY config \in Configs, <1>6 DEF Configs
  <2> QED BY <1>2, <2>1, <2>2
<1>7. CASE config' = [config EXCEPT !.audit = value]
  <2>1. config' \in Configs
    BY ONLY config \in Configs, value \in Words, <1>7 DEF Configs
  <2>2. config'.rules = config.rules
    BY ONLY config \in Configs, <1>7 DEF Configs
  <2> QED BY <1>2, <2>1, <2>2
<1>8. CASE key \in DOMAIN config.state /\ config' = [config EXCEPT !.state[key] = value]
  <2> DEFINE new == [config.state EXCEPT ![key] = value]
  <2>1. new \in [backend : Words, path : Words]
    BY ONLY <1>4, <1>8, value \in Words
  <2>2. config' = [config EXCEPT !.state = new]
    BY ONLY <1>8
  <2> HIDE DEF new
  <2>3. config' \in Configs
    BY ONLY config \in Configs, <2>1, <2>2 DEF Configs
  <2>4. config'.rules = config.rules
    BY ONLY config \in Configs, <2>2 DEF Configs
  <2> QED BY <1>2, <2>3, <2>4
<1>9. CASE /\ field # "" /\ ~Unparsable(field, value)
           /\ config' = [config EXCEPT !.default[field] = value]
  <2> DEFINE new == [config.default EXCEPT ![field] = value]
  <2>1. new \in DefaultTypes
    BY <1>3, <1>4, <1>9, DefaultSet
  <2>2. config' = [config EXCEPT !.default = new]
    BY ONLY <1>9
  <2> HIDE DEF new
  <2>3. config' \in Configs
    BY ONLY config \in Configs, <2>1, <2>2 DEF Configs
  <2>4. config'.rules = config.rules
    BY ONLY config \in Configs, <2>2 DEF Configs
  <2> QED BY <1>2, <2>3, <2>4
<1> QED BY <1>1, <1>5, <1>6, <1>7, <1>8, <1>9

LEMMA TypedStep ==
    ASSUME TypeOK, [Next]_vars
    PROVE  TypeOK'
<1>1. /\ document \in Documents /\ layout \in Layouts
      /\ file \in Seq(Lines) /\ Len(file) \in Nat
      /\ paths \in [Indents -> Words] /\ config \in Configs
      /\ config.rules \in Seq(RuleTypes) /\ Len(config.rules) \in Nat
      /\ next \in 1..Len(file) + 1 /\ currentRule \in 0..Len(config.rules)
  BY LinesOfFile, LenProperties DEF TypeOK, Configs
<1>2. ASSUME Reading
      PROVE  /\ outcome = "none" /\ next \in 1..Len(file)
             /\ next + 1 \in 1..Len(file) + 1
             /\ file[next].indent \in Columns /\ file[next].key \in Words
             /\ Scalar(file[next].value) \in Words
  <2>1. outcome = "none" /\ next \in 1..Len(file) /\ next + 1 \in 1..Len(file) + 1
    BY <1>1, <1>2 DEF Reading
  <2> QED BY <1>1, <2>1, LinesOfFile
<1>3. ASSUME NEW indent \in Columns
      PROVE  /\ ClearDeeper(indent) \in [Indents -> Words] /\ indent \in Indents
             /\ \A key \in Words :
                   [ClearDeeper(indent) EXCEPT ![indent] = key] \in [Indents -> Words]
  <2>1. \A i \in Indents : (IF i >= indent THEN "" ELSE paths[i]) \in Words
    BY ONLY <1>1, WordsAssumption, Zenon
  <2>2. ClearDeeper(indent) \in [Indents -> Words]
    BY ONLY <2>1 DEF ClearDeeper
  <2>3. indent \in Indents
    BY <1>3 DEF Columns, Indents
  <2> HIDE DEF ClearDeeper
  <2>4. \A key \in Words :
           [ClearDeeper(indent) EXCEPT ![indent] = key] \in [Indents -> Words]
    BY ONLY <2>2, <2>3
  <2> QED BY <2>2, <2>3, <2>4
<1>4. CASE ReadBlank
  BY <1>1, <1>2, <1>4 DEF ReadBlank, TypeOK
<1>5. CASE ReadItem
  <2> DEFINE line == file[next]
             rules == Append(config.rules, NewRule)
             field == RuleField(paths, line.indent + 2, line.key)
  <2>1. /\ Reading /\ next' = next + 1 /\ UNCHANGED <<document, layout, file, paths>>
        /\ \/ /\ currentRule' = Len(config.rules) + 1
              /\ SetRuleField(rules, field, Scalar(line.value))
           \/ UNCHANGED <<currentRule, config, outcome>>
    BY <1>5 DEF ReadItem
  <2>2. /\ rules \in Seq(RuleTypes) /\ Len(rules) = Len(config.rules) + 1 /\ rules # <<>>
    BY <1>1, ZeroTypes, AppendProperties
  <2>3. field \in RuleFields \cup {""}
    BY FieldTypes
  <2> HIDE DEF rules, field
  <2>4. CASE /\ currentRule' = Len(config.rules) + 1
             /\ SetRuleField(rules, field, Scalar(line.value))
    <3>1. /\ config' \in Configs /\ Len(config'.rules) = Len(rules)
          /\ outcome' \in {"none", "rejected"}
      BY <1>1, <1>2, <2>1, <2>2, <2>3, <2>4, RulesUnderstood
    <3>2. currentRule' \in 0..Len(config'.rules)
      BY <1>1, <2>2, <2>4, <3>1
    <3> QED BY <1>1, <1>2, <2>1, <3>1, <3>2 DEF TypeOK
  <2>5. CASE UNCHANGED <<currentRule, config, outcome>>
    BY <1>1, <1>2, <2>1, <2>5 DEF TypeOK
  <2> QED BY <2>1, <2>4, <2>5
<1>6. CASE ReadKey
  <2>1. /\ Reading /\ next' = next + 1
        /\ paths' = [ClearDeeper(file[next].indent) EXCEPT ![file[next].indent] = file[next].key]
        /\ UNCHANGED <<document, layout, file, currentRule, config, outcome>>
    BY <1>6 DEF ReadKey
  <2>2. paths' \in [Indents -> Words]
    BY <1>2, <1>3, <2>1
  <2> QED BY <1>1, <1>2, <2>1, <2>2 DEF TypeOK
<1>7. CASE ReadValue
  <2> DEFINE line == file[next]
             known == ClearDeeper(line.indent)
             field == RuleField(known, line.indent, line.key)
  <2>1. /\ Reading /\ next' = next + 1 /\ UNCHANGED <<document, layout, file>>
        /\ paths' = known /\ currentRule' \in {0, currentRule}
        /\ \/ currentRule # 0 /\ SetRuleField(config.rules, field, Scalar(line.value))
           \/ SetValue(known, line.indent, line.key, Scalar(line.value))
    BY <1>7 DEF ReadValue
  <2>2. /\ config' \in Configs /\ Len(config'.rules) = Len(config.rules)
        /\ outcome' \in {"none", "rejected"}
    <3>1. field \in RuleFields \cup {""}
      BY FieldTypes
    <3> HIDE DEF field
    <3>2. CASE currentRule # 0 /\ SetRuleField(config.rules, field, Scalar(line.value))
      <4>1. config.rules # <<>>
        BY <1>1, <3>2, EmptySeq
      <4> QED BY <1>1, <1>2, <2>1, <3>1, <3>2, <4>1, RulesUnderstood
    <3>3. CASE SetValue(known, line.indent, line.key, Scalar(line.value))
      BY <1>1, <1>2, <2>1, <3>3, ValueUnderstood
    <3> QED BY <2>1, <3>2, <3>3
  <2>3. currentRule' \in 0..Len(config'.rules)
    BY <1>1, <2>1, <2>2
  <2>4. paths' \in [Indents -> Words]
    BY <1>2, <1>3, <2>1
  <2> QED BY <1>1, <1>2, <2>1, <2>2, <2>3, <2>4 DEF TypeOK
<1>8. CASE Finish
  BY <1>1, <1>8 DEF Finish, TypeOK
<1>9. CASE UNCHANGED vars
  BY <1>1, <1>9 DEF vars, TypeOK
<1> QED BY <1>4, <1>5, <1>6, <1>7, <1>8, <1>9 DEF Next

(* What has been understood is typed after every line, whatever the file    *)
(* says (yamlPolicyParser.parse, config.go:221-409).                        *)
THEOREM PolicyTypeCorrect == Spec => []TypeOK
<1>1. Init => TypeOK
  <2>1. ASSUME Init PROVE TypeOK
    <3>1. /\ document \in Documents /\ layout \in Layouts
          /\ file \in Seq(Lines) /\ Len(file) \in Nat
          /\ next = 1 /\ currentRule = 0 /\ config = ZeroConfig /\ outcome = "none"
      BY <2>1, FileLines, LinesOfFile DEF Init
    <3>2. "" \in Words /\ "0" \in Words
      BY WordsAssumption
    <3>3. config \in Configs /\ config.rules = <<>>
      BY <3>1, <3>2, ZeroTypes, EmptySeq DEF ZeroConfig, Configs
    <3>4. paths \in [Indents -> Words]
      BY <2>1, <3>2 DEF Init
    <3> QED BY <3>1, <3>3, <3>4, EmptySeq DEF TypeOK
  <2> QED BY <2>1
<1> QED BY <1>1, TypedStep, PTL DEF Spec

-----------------------------------------------------------------------------
(* A policy that was accepted.                                              *)

AcceptedValid == outcome = "accepted" => Valid

(* A policy in force that requires a signature names one key or one         *)
(* identity, whichever half of it a rule gives: what is validated is what   *)
(* the rule is laid over the default to (Config.validate, config.go:137-152,*)
(* against applyRule, matcher.go:36, and CosignVerifyArgs, cosign.go:54).   *)
THEOREM EveryPolicyIsUsable == Spec => []EveryPolicyUsable
<1>1. Init => AcceptedValid
  BY DEF Init, AcceptedValid
<1>2. ASSUME AcceptedValid, [Next]_vars PROVE AcceptedValid'
  <2>1. CASE ReadBlank \/ ReadItem \/ ReadKey \/ ReadValue
    <3>1. outcome = "none" /\ outcome' \in {outcome, "rejected"}
      BY <2>1 DEF ReadBlank, ReadItem, ReadKey, ReadValue, Reading, SetRuleField, SetValue,
                  Understand, Reject
    <3> QED BY <3>1 DEF AcceptedValid
  <2>2. CASE Finish
    <3>1. UNCHANGED config /\ outcome' = IF Valid THEN "accepted" ELSE "rejected"
      BY <2>2 DEF Finish
    <3>2. Valid' <=> Valid
      BY <3>1 DEF Valid, ValidRule
    <3> QED BY <3>1, <3>2 DEF AcceptedValid
  <2>3. CASE UNCHANGED vars
    BY <1>2, <2>3 DEF vars, AcceptedValid, Valid, ValidRule
  <2> QED BY <1>2, <2>1, <2>2, <2>3 DEF Next
<1>3. TypeOK /\ AcceptedValid => EveryPolicyUsable
  <2>1. ASSUME TypeOK, Valid, NEW w \in References, PolicyInForce(w).required = "true"
        PROVE  Cardinality(Signers(PolicyInForce(w))) = 1
    <3>1. /\ ValidCosign(config.default)
          /\ \A i \in DOMAIN config.rules :
                ValidCosign(Overlay(config.default, config.rules[i]))
      BY <2>1 DEF Valid, ValidRule
    <3>2. DOMAIN config.rules \subseteq Nat
      BY <2>1, LenProperties DEF TypeOK, Configs
    <3>3. ValidCosign(PolicyInForce(w))
      BY <3>1, <3>2, EffectiveForms DEF PolicyInForce
    <3> QED BY <2>1, <3>3, ValidIsUsable
  <2> QED BY <2>1 DEF AcceptedValid, EveryPolicyUsable
<1> QED BY <1>1, <1>2, <1>3, PolicyTypeCorrect, PTL DEF Spec

-----------------------------------------------------------------------------
(* The documented layout: what has been understood of a document when so    *)
(* many lines of each of its blocks have passed.                            *)
DefaultAt ==
    [action |-> 3, min_digest_age |-> 4, allow_first_seen_pull |-> 5, pinned |-> 7,
     resolution |-> 9, signature |-> 11, required |-> 14, mode |-> 15, key |-> 16,
     issuer |-> 17, identity |-> 18, identity_regex |-> 19]
RuleAt ==
    [match |-> 1, action |-> 3, min_digest_age |-> 4, allow_first_seen_pull |-> 5,
     required |-> 8, mode |-> 9, key |-> 10, issuer |-> 11, identity |-> 12,
     identity_regex |-> 13]
DefaultRead(d, r) ==
    [k \in PolicyFields |->
        IF DefaultAt[k] <= r /\ d[k] # Unset THEN Scalar(d[k]) ELSE ZeroPolicy[k]]
RuleRead(rule, r) ==
    [k \in RuleFields |->
        IF RuleAt[k] <= r /\ (k = "match" \/ rule[k] # Unset)
        THEN Scalar(rule[k]) ELSE NewRule[k]]
RulesRead(rules, r, understood) ==
    LET n == Len(understood)
    IN  /\ n <= Len(rules) /\ r <= RuleSize * n + 1
        /\ n > 0 => r > RuleSize * (n - 1) + 1
        /\ \A m \in 1..n :
              understood[m] = RuleRead(rules[m], r - 1 - RuleSize * (m - 1))

Passing(name) == Passed(document, layout, next - 1, name)
ConfigRead ==
    /\ config.version = Scalar(document.version)
    /\ config.default = DefaultRead(document.default, Passing("default_policy"))
    /\ RulesRead(document.rules, Passing("rules"), config.rules)
    /\ config.audit = IF Passing("audit") >= 2 THEN Scalar(document.audit) ELSE ""
    /\ config.state.backend =
          IF Passing("state") >= 2 THEN Scalar(document.state.backend) ELSE ""
    /\ config.state.path =
          IF Passing("state") >= 3 THEN Scalar(document.state.path) ELSE ""

(* The keys that stand above the lines to come: of the block, and of the    *)
(* settings in it, with r lines of it read, the first heading in its line m *)
(* and the other two from line g on, at column c and behind it.             *)
Given(s, fields) == \E k \in fields : s[k] # Unset
SettingsKeys(known, s, c, r, m, g) ==
    /\ r \in m..m + 2 /\ Given(s, MutableKeys) => known[c] = "mutable_tags"
    /\ r \in g..g + 6 /\ Given(s, CosignKeys) => known[c] = "signatures"
    /\ r \in g + 1..g + 6 /\ Given(s, CosignKeys) => known[c + 2] = "cosign"
DefaultKeys(known, d, r) ==
    /\ r = 6 => known[2] = "digest_pinned_images"
    /\ r = 8 => known[2] = "failed_registry_resolution"
    /\ r = 10 => known[2] = "failed_signature_check"
    /\ SettingsKeys(known, d, 2, r, 2, 12)
RulesKeys(known, rules, r) ==
    \A n \in 0..Len(rules) - 1 :
        SettingsKeys(known, rules[n + 1], 4, r - 1 - RuleSize * n, 2, 6)
KeysRead ==
    /\ \A name \in BlockNames :
          Passing(name) \in 1..Size(document, name) - 1 => paths[0] = name
    /\ Passing("default_policy") < 19 =>
          DefaultKeys(paths, document.default, Passing("default_policy"))
    /\ Passing("rules") < Size(document, "rules") =>
          RulesKeys(paths, document.rules, Passing("rules"))

(* Rules in front of the default policy take its values away from it.       *)
RulesFirst ==
    document.rules # <<>> /\ Place(layout, "rules") < Place(layout, "default_policy")

UnderstoodSoFar ==
    /\ file = FileOf(document, layout)
    /\ next = 1 => config = ZeroConfig /\ currentRule = 0
    /\ Documented(layout) /\ next > 1 =>
          /\ KeysRead
          /\ currentRule # 0 <=> Passing("rules") > 1
          /\ outcome # "rejected" =>
                IF RulesFirst THEN config.default.action = "" ELSE ConfigRead
    /\ outcome = "accepted" => next = Len(file) + 1 /\ Valid

-----------------------------------------------------------------------------
(* What the parser does with a line it is given.                            *)

LEMMA ReadingPlace ==
    ASSUME TypeOK, Reading
    PROVE  next \in 1..Len(file) /\ next # Len(file) + 1
<1>1. Len(file) \in Nat
  BY LinesOfFile DEF TypeOK
<1>2. next \in 1..Len(file) + 1
  BY DEF TypeOK
<1> QED BY <1>1, <1>2 DEF Reading

LEMMA LineParts ==
    ASSUME NEW line, NEW indent, NEW key, NEW value, line = Line(indent, key, value)
    PROVE  /\ ~line.dash /\ line.key = key /\ line.value = value
           /\ line.indent = indent
<1>1. ~Line(indent, key, value).dash
  BY DEF Line
<1>2. /\ Line(indent, key, value).key = key /\ Line(indent, key, value).value = value
      /\ Line(indent, key, value).indent = indent
  BY DEF Line
<1> QED BY <1>1, <1>2

LEMMA ReadsBlank ==
    ASSUME TypeOK, Reading, Next, file[next] = Blank
    PROVE  /\ next' = next + 1
           /\ UNCHANGED <<document, layout, file, paths, currentRule, config, outcome>>
<1>1. ~file[next].dash /\ file[next].key = ""
  <2>1. file[next] = Line(0, "", "")
    BY DEF Blank
  <2>2. ~Line(0, "", "").dash /\ Line(0, "", "").key = ""
    BY DEF Line
  <2> QED BY <2>1, <2>2, Zenon
<1>2. ~ReadItem /\ ~ReadKey /\ ~ReadValue
  BY <1>1 DEF ReadItem, ReadKey, ReadValue
<1>3. ~Finish
  BY ReadingPlace DEF Finish
<1>4. ReadBlank
  BY <1>2, <1>3 DEF Next
<1> QED BY <1>4 DEF ReadBlank

LEMMA ReadsKey ==
    ASSUME TypeOK, Reading, Next, NEW indent, NEW key, key # "",
           file[next] = Line(indent, key, "")
    PROVE  /\ next' = next + 1 /\ paths' = [ClearDeeper(indent) EXCEPT ![indent] = key]
           /\ UNCHANGED <<document, layout, file, currentRule, config, outcome>>
<1>1. /\ ~file[next].dash /\ file[next].key = key /\ file[next].value = ""
      /\ file[next].indent = indent
  BY LineParts
<1>2. next # Len(file) + 1
  BY ReadingPlace
<1>3. ReadKey
  <2>1. ~ReadBlank /\ ~ReadItem /\ ~ReadValue /\ ~Finish
    BY <1>1, <1>2 DEF ReadBlank, ReadItem, ReadValue, Finish
  <2> QED BY <2>1 DEF Next
<1> QED BY <1>1, <1>3 DEF ReadKey

LEMMA ReadsValue ==
    ASSUME TypeOK, Reading, Next, NEW indent, NEW key, key # "", NEW value, value # "",
           file[next] = Line(indent, key, value)
    PROVE  LET known == ClearDeeper(indent) IN
           /\ next' = next + 1 /\ UNCHANGED <<document, layout, file>>
           /\ paths' = known
           /\ currentRule' = IF indent = 0 THEN 0 ELSE currentRule
           /\ IF currentRule # 0 /\ indent > 2
              THEN SetRuleField(config.rules, RuleField(known, indent, key), Scalar(value))
              ELSE SetValue(known, indent, key, Scalar(value))
<1>1. /\ ~file[next].dash /\ file[next].key = key /\ file[next].value = value
      /\ file[next].indent = indent
  BY LineParts
<1>2. next # Len(file) + 1
  BY ReadingPlace
<1>3. ReadValue
  <2>1. ~ReadBlank /\ ~ReadItem /\ ~ReadKey /\ ~Finish
    BY <1>1, <1>2 DEF ReadBlank, ReadItem, ReadKey, Finish
  <2> QED BY <2>1 DEF Next
<1> QED BY <1>1, <1>3 DEF ReadValue

LEMMA ReadsItem ==
    ASSUME TypeOK, Reading, Next, NEW indent, NEW key, NEW value,
           file[next].dash, file[next].indent = indent, file[next].key = key,
           file[next].value = value, paths[indent - 2] = "rules"
    PROVE  /\ next' = next + 1 /\ UNCHANGED <<document, layout, file, paths>>
           /\ currentRule' = Len(config.rules) + 1
           /\ SetRuleField(Append(config.rules, NewRule),
                           RuleField(paths, indent + 2, key), Scalar(value))
<1>1. ReadItem
  <2>1. ~ReadBlank /\ ~ReadKey /\ ~ReadValue /\ ~Finish
    BY ReadingPlace DEF ReadBlank, ReadKey, ReadValue, Finish
  <2> QED BY <2>1 DEF Next
<1> QED BY <1>1 DEF ReadItem

(* What is known where, after a key and after a value.                      *)
LEMMA PathsAfter ==
    ASSUME TypeOK, NEW indent \in Columns, NEW key
    PROVE  /\ \A i \in Indents : i < indent =>
                 /\ ClearDeeper(indent)[i] = paths[i]
                 /\ [ClearDeeper(indent) EXCEPT ![indent] = key][i] = paths[i]
           /\ [ClearDeeper(indent) EXCEPT ![indent] = key][indent] = key
<1>1. indent \in Indents
  BY DEF Columns, Indents
<1>2. \A i \in Indents : i < indent => ~(i >= indent)
  BY DEF Columns, Indents
<1> DEFINE known == ClearDeeper(indent)
<1>3. /\ known = [i \in Indents |-> known[i]]
      /\ \A i \in Indents : i < indent => known[i] = paths[i]
  BY <1>2 DEF ClearDeeper
<1> HIDE DEF known
<1>4. /\ \A i \in Indents : i < indent => i # indent
      /\ \A i \in Indents :
            [known EXCEPT ![indent] = key][i] = IF i = indent THEN key ELSE known[i]
  <2>1. \A i \in Indents : i < indent => i # indent
    BY DEF Columns, Indents
  <2> QED BY ONLY <1>3, <2>1
<1> QED BY <1>1, <1>3, <1>4 DEF known

LEMMA SmallColumns ==
    /\ {0, 2, 4, 6, 8} \subseteq Columns
    /\ {0, 2, 4, 6, 8} \subseteq Indents
BY DEF Columns, Indents

(* A heading is there if one of its settings is, a setting if it is set.    *)
LEMMA ReadsHeading ==
    ASSUME TypeOK, Reading, Next, NEW indent \in Columns, NEW key, key # "",
           NEW s, NEW fields, file[next] = Heading(indent, key, s, fields)
    PROVE  /\ next' = next + 1
           /\ UNCHANGED <<document, layout, file, currentRule, config, outcome>>
           /\ Given(s, fields) => paths'[indent] = key
           /\ \A i \in Indents : i < indent => paths'[i] = paths[i]
<1>1. CASE Given(s, fields)
  <2>1. file[next] = Line(indent, key, "")
    BY <1>1 DEF Given, Heading
  <2>2. /\ next' = next + 1 /\ paths' = [ClearDeeper(indent) EXCEPT ![indent] = key]
        /\ UNCHANGED <<document, layout, file, currentRule, config, outcome>>
    BY <2>1, ReadsKey
  <2> DEFINE new == [ClearDeeper(indent) EXCEPT ![indent] = key]
  <2>3. (\A i \in Indents : i < indent => new[i] = paths[i]) /\ new[indent] = key
    <3>1. /\ \A i \in Indents : i < indent =>
                ClearDeeper(indent)[i] = paths[i] /\ new[i] = paths[i]
          /\ new[indent] = key
      BY ONLY TypeOK, indent \in Columns, PathsAfter
    <3> QED BY <3>1
  <2> HIDE DEF new
  <2>4. paths' = new
    BY <2>2 DEF new
  <2> QED BY <2>2, <2>3, <2>4
<1>2. CASE ~Given(s, fields)
  <2>1. file[next] = Blank
    BY <1>2 DEF Given, Heading
  <2>2. /\ next' = next + 1
        /\ UNCHANGED <<document, layout, file, paths, currentRule, config, outcome>>
    BY <2>1, ReadsBlank
  <2> QED BY <1>2, <2>2
<1> QED BY <1>1, <1>2

LEMMA ReadsSetting ==
    ASSUME TypeOK, Reading, Next, NEW indent \in {4, 6, 8}, NEW key, key # "",
           NEW value \in Texts, file[next] = Setting(indent, key, value)
    PROVE  LET known == ClearDeeper(indent) IN
           /\ next' = next + 1 /\ UNCHANGED <<document, layout, file, currentRule>>
           /\ \A i \in Indents : i < indent => paths'[i] = paths[i] /\ known[i] = paths[i]
           /\ value = Unset => UNCHANGED <<config, outcome>>
           /\ value # Unset =>
                 IF currentRule # 0
                 THEN SetRuleField(config.rules, RuleField(known, indent, key), Scalar(value))
                 ELSE SetValue(known, indent, key, Scalar(value))
<1>1. indent \in Columns /\ indent # 0 /\ indent > 2
  <2>1. indent \in Columns
    BY ONLY indent \in {4, 6, 8} DEF Columns
  <2>2. indent # 0 /\ indent > 2
    BY ONLY indent \in {4, 6, 8}
  <2> QED BY <2>1, <2>2
<1>2. \A i \in Indents : i < indent => ClearDeeper(indent)[i] = paths[i]
  BY <1>1, PathsAfter
<1>3. CASE value = Unset
  <2>1. file[next] = Blank
    BY <1>3 DEF Setting
  <2>2. /\ next' = next + 1
        /\ UNCHANGED <<document, layout, file, paths, currentRule, config, outcome>>
    BY <2>1, ReadsBlank
  <2> QED BY <1>2, <1>3, <2>2
<1>4. CASE value # Unset
  <2>1. file[next] = Line(indent, key, value) /\ value # ""
    BY <1>4 DEF Setting, Texts
  <2> DEFINE known == ClearDeeper(indent)
  <2>2. /\ next' = next + 1 /\ UNCHANGED <<document, layout, file>>
        /\ paths' = known
        /\ currentRule' = IF indent = 0 THEN 0 ELSE currentRule
        /\ IF currentRule # 0 /\ indent > 2
           THEN SetRuleField(config.rules, RuleField(known, indent, key), Scalar(value))
           ELSE SetValue(known, indent, key, Scalar(value))
    BY <2>1, ReadsValue
  <2> HIDE DEF known
  <2>3. \A i \in Indents : i < indent => known[i] = paths[i]
    BY <1>2 DEF known
  <2>4. /\ next' = next + 1 /\ UNCHANGED <<document, layout, file, currentRule>>
        /\ \A i \in Indents : i < indent => paths'[i] = paths[i] /\ known[i] = paths[i]
        /\ IF currentRule # 0
           THEN SetRuleField(config.rules, RuleField(known, indent, key), Scalar(value))
           ELSE SetValue(known, indent, key, Scalar(value))
    BY <1>1, <2>2, <2>3
  <2> QED BY <1>4, <2>4 DEF known
<1> QED BY <1>3, <1>4

-----------------------------------------------------------------------------
(* The default policy.                                                      *)

DefaultColumn(k) == IF k \in CosignKeys THEN 6 ELSE 4
DefaultKey(k) == IF k \in {"pinned", "resolution", "signature"} THEN "action" ELSE k

LEMMA DefaultPositions ==
    /\ \A k \in PolicyFields : DefaultAt[k] \in {3, 4, 5, 7, 9, 11, 14, 15, 16, 17, 18, 19}
    /\ \A l \in {3, 4, 5, 7, 9, 11, 14, 15, 16, 17, 18, 19} :
          \E k \in PolicyFields : DefaultAt[k] = l
    /\ \A j, k \in PolicyFields : DefaultAt[j] = DefaultAt[k] => j = k
    /\ \A k \in PolicyFields :
          /\ k \in MutableKeys <=> DefaultAt[k] \in 3..5
          /\ k \in CosignKeys <=> DefaultAt[k] \in 14..19
          /\ k = "pinned" <=> DefaultAt[k] = 7
          /\ k = "resolution" <=> DefaultAt[k] = 9
          /\ k = "signature" <=> DefaultAt[k] = 11
<1>1. /\ DefaultAt["action"] = 3 /\ DefaultAt["min_digest_age"] = 4
      /\ DefaultAt["allow_first_seen_pull"] = 5 /\ DefaultAt["pinned"] = 7
      /\ DefaultAt["resolution"] = 9 /\ DefaultAt["signature"] = 11
      /\ DefaultAt["required"] = 14 /\ DefaultAt["mode"] = 15 /\ DefaultAt["key"] = 16
      /\ DefaultAt["issuer"] = 17 /\ DefaultAt["identity"] = 18
      /\ DefaultAt["identity_regex"] = 19
  BY DEF DefaultAt
<1>2. \A k \in PolicyFields : DefaultAt[k] \in {3, 4, 5, 7, 9, 11, 14, 15, 16, 17, 18, 19}
  BY <1>1 DEF PolicyFields
<1>3. \A l \in {3, 4, 5, 7, 9, 11, 14, 15, 16, 17, 18, 19} :
         \E k \in PolicyFields : DefaultAt[k] = l
  BY <1>1 DEF PolicyFields
<1>4. \A j, k \in PolicyFields : DefaultAt[j] = DefaultAt[k] => j = k
  BY <1>1 DEF PolicyFields
<1>5. \A k \in PolicyFields :
         /\ k \in MutableKeys <=> DefaultAt[k] \in 3..5
         /\ k \in CosignKeys <=> DefaultAt[k] \in 14..19
         /\ k = "pinned" <=> DefaultAt[k] = 7
         /\ k = "resolution" <=> DefaultAt[k] = 9
         /\ k = "signature" <=> DefaultAt[k] = 11
  BY <1>1 DEF PolicyFields, MutableKeys, CosignKeys
<1> QED BY <1>2, <1>3, <1>4, <1>5

LEMMA DefaultSettings ==
    ASSUME NEW d, NEW k \in PolicyFields
    PROVE  DefaultLines(d, 2)[DefaultAt[k]] = Setting(DefaultColumn(k), DefaultKey(k), d[k])
<1> DEFINE t == DefaultLines(d, 2)
<1>1. /\ t[3] = Setting(4, "action", d.action)
      /\ t[4] = Setting(4, "min_digest_age", d.min_digest_age)
      /\ t[5] = Setting(4, "allow_first_seen_pull", d.allow_first_seen_pull)
      /\ t[7] = Setting(4, "action", d.pinned)
      /\ t[9] = Setting(4, "action", d.resolution)
      /\ t[11] = Setting(4, "action", d.signature)
      /\ t[14] = Setting(6, "required", d.required)
      /\ t[15] = Setting(6, "mode", d.mode)
      /\ t[16] = Setting(6, "key", d.key)
      /\ t[17] = Setting(6, "issuer", d.issuer)
      /\ t[18] = Setting(6, "identity", d.identity)
      /\ t[19] = Setting(6, "identity_regex", d.identity_regex)
  <2>1. /\ t[3] = Setting(2 * 2, "action", d.action)
        /\ t[4] = Setting(2 * 2, "min_digest_age", d.min_digest_age)
        /\ t[5] = Setting(2 * 2, "allow_first_seen_pull", d.allow_first_seen_pull)
        /\ t[7] = Setting(2 * 2, "action", d.pinned)
        /\ t[9] = Setting(2 * 2, "action", d.resolution)
        /\ t[11] = Setting(2 * 2, "action", d.signature)
        /\ t[14] = Setting(3 * 2, "required", d.required)
        /\ t[15] = Setting(3 * 2, "mode", d.mode)
        /\ t[16] = Setting(3 * 2, "key", d.key)
        /\ t[17] = Setting(3 * 2, "issuer", d.issuer)
        /\ t[18] = Setting(3 * 2, "identity", d.identity)
        /\ t[19] = Setting(3 * 2, "identity_regex", d.identity_regex)
    BY DefaultLine
  <2> HIDE DEF t
  <2>2. 2 * 2 = 4 /\ 3 * 2 = 6
    OBVIOUS
  <2> QED BY <2>1, <2>2
<1> HIDE DEF t
<1>2. t[DefaultAt[k]] = Setting(DefaultColumn(k), DefaultKey(k), d[k])
  <2>1. CASE k \in {"action", "min_digest_age", "allow_first_seen_pull"}
    BY <1>1, <2>1 DEF DefaultAt, DefaultColumn, DefaultKey, CosignKeys
  <2>2. CASE k \in {"pinned", "resolution", "signature"}
    BY <1>1, <2>2 DEF DefaultAt, DefaultColumn, DefaultKey, CosignKeys
  <2>3. CASE k \in CosignKeys
    BY <1>1, <2>3 DEF DefaultAt, DefaultColumn, DefaultKey, CosignKeys
  <2> QED BY <2>1, <2>2, <2>3 DEF PolicyFields, CosignKeys
<1> QED BY <1>2 DEF t

(* The keys above a setting say which field it is.                          *)
LEMMA DefaultFieldKnown ==
    ASSUME NEW d, NEW k \in PolicyFields, d[k] # Unset, NEW known,
           DefaultKeys(known, d, DefaultAt[k] - 1), known[0] = "default_policy"
    PROVE  DefaultField(known, DefaultKey(k)) = k /\ DefaultKey(k) # ""
<1>1. CASE k \in MutableKeys
  <2>1. DefaultAt[k] - 1 \in 2..2 + 2 /\ Given(d, MutableKeys)
    BY <1>1, DefaultPositions DEF Given
  <2>2. known[2] = "mutable_tags"
    BY <2>1 DEF DefaultKeys, SettingsKeys
  <2>3. DefaultKey(k) = k /\ k # ""
    BY <1>1 DEF MutableKeys, DefaultKey
  <2> QED BY <1>1, <2>2, <2>3 DEF DefaultField, ActionBlock
<1>2. CASE k \in CosignKeys
  <2>1. /\ DefaultAt[k] - 1 \in 12..12 + 6 /\ DefaultAt[k] - 1 \in 12 + 1..12 + 6
        /\ Given(d, CosignKeys)
    BY <1>2, DefaultPositions DEF Given
  <2>2. known[2] = "signatures" /\ known[2 + 2] = "cosign" /\ 2 + 2 = 4
    BY <2>1 DEF DefaultKeys, SettingsKeys
  <2>3. DefaultKey(k) = k /\ k # ""
    BY <1>2 DEF CosignKeys, DefaultKey
  <2> QED BY <1>2, <2>2, <2>3 DEF DefaultField, ActionBlock
<1>3. CASE k \in {"pinned", "resolution", "signature"}
  <2>1. /\ k = "pinned" => known[2] = "digest_pinned_images"
        /\ k = "resolution" => known[2] = "failed_registry_resolution"
        /\ k = "signature" => known[2] = "failed_signature_check"
    BY DefaultPositions DEF DefaultKeys
  <2>2. DefaultKey(k) = "action"
    BY <1>3 DEF DefaultKey
  <2>3. /\ "digest_pinned_images" \in DOMAIN ActionBlock
        /\ ActionBlock["digest_pinned_images"] = "pinned"
        /\ "failed_registry_resolution" \in DOMAIN ActionBlock
        /\ ActionBlock["failed_registry_resolution"] = "resolution"
        /\ "failed_signature_check" \in DOMAIN ActionBlock
        /\ ActionBlock["failed_signature_check"] = "signature"
    BY DEF ActionBlock
  <2>4. known[2] \in DOMAIN ActionBlock /\ ActionBlock[known[2]] = k
    BY <1>3, <2>1, <2>3
  <2> QED BY <2>2, <2>4 DEF DefaultField
<1> QED BY <1>1, <1>2, <1>3 DEF PolicyFields, MutableKeys, CosignKeys

(* What one line more adds.                                                 *)
LEMMA DefaultReadMore ==
    ASSUME NEW d, NEW r \in Nat
    PROVE  /\ (\A k \in PolicyFields : DefaultAt[k] # r + 1) =>
                 DefaultRead(d, r + 1) = DefaultRead(d, r)
           /\ \A k \in PolicyFields : DefaultAt[k] = r + 1 =>
                 DefaultRead(d, r + 1) =
                    IF d[k] = Unset THEN DefaultRead(d, r)
                    ELSE [DefaultRead(d, r) EXCEPT ![k] = Scalar(d[k])]
<1>1. \A k \in PolicyFields : DefaultAt[k] \in Nat
  BY DefaultPositions
<1>2. \A k \in PolicyFields :
         DefaultAt[k] # r + 1 => (DefaultAt[k] <= r + 1 <=> DefaultAt[k] <= r)
  BY <1>1
<1>3. \A k \in PolicyFields :
         DefaultAt[k] = r + 1 => DefaultAt[k] <= r + 1 /\ ~(DefaultAt[k] <= r)
  BY <1>1
<1>4. ASSUME \A k \in PolicyFields : DefaultAt[k] # r + 1
      PROVE  DefaultRead(d, r + 1) = DefaultRead(d, r)
  BY <1>2, <1>4 DEF DefaultRead
<1>5. ASSUME NEW k \in PolicyFields, DefaultAt[k] = r + 1
      PROVE  DefaultRead(d, r + 1) =
                IF d[k] = Unset THEN DefaultRead(d, r)
                ELSE [DefaultRead(d, r) EXCEPT ![k] = Scalar(d[k])]
  <2>1. \A j \in PolicyFields \ {k} : DefaultAt[j] <= r + 1 <=> DefaultAt[j] <= r
    BY <1>2, <1>5, DefaultPositions
  <2>2. DefaultAt[k] <= r + 1 /\ ~(DefaultAt[k] <= r)
    BY <1>3, <1>5
  <2>3. CASE d[k] = Unset
    BY <2>1, <2>2, <2>3 DEF DefaultRead
  <2>4. CASE d[k] # Unset
    BY <2>1, <2>2, <2>4 DEF DefaultRead
  <2> QED BY <2>3, <2>4
<1> QED BY <1>4, <1>5

(* A value for a rule changes the rules alone, one for the default policy   *)
(* that alone.                                                              *)
LEMMA RuleFieldKeeps ==
    ASSUME config \in Configs, outcome = "none", NEW rules, NEW field, NEW value,
           SetRuleField(rules, field, value)
    PROVE  /\ config'.version = config.version /\ config'.default = config.default
           /\ config'.audit = config.audit /\ config'.state = config.state
<1>1. \E list : config' = [config EXCEPT !.rules = list]
  BY DEF SetRuleField, Understand, Reject
<1> QED BY <1>1 DEF Configs

LEMMA DefaultUnderstood ==
    ASSUME config \in Configs, outcome = "none", NEW known, NEW indent, indent # 0,
           NEW key, NEW value, known[0] = "default_policy",
           NEW field \in PolicyFields, DefaultField(known, key) = field,
           SetValue(known, indent, key, value)
    PROVE  \/ outcome' = "rejected"
           \/ config' = [config EXCEPT !.default = [config.default EXCEPT ![field] = value]]
<1>1. field # ""
  BY DEF PolicyFields
<1>2. \/ outcome' = "rejected"
      \/ config' = [config EXCEPT !.default[field] = value]
  BY <1>1 DEF SetValue, Understand, Reject
<1> QED BY <1>2

(* The keys above the lines to come, after a line of the default policy.    *)
LEMMA DefaultKeysKept ==
    ASSUME NEW d, NEW k \in PolicyFields, NEW known, NEW new,
           DefaultKeys(known, d, DefaultAt[k] - 1),
           new[2] = known[2], k \in CosignKeys => new[4] = known[4]
    PROVE  DefaultKeys(new, d, DefaultAt[k])
<1> DEFINE l == DefaultAt[k]
<1>1. l \in {3, 4, 5, 7, 9, 11, 14, 15, 16, 17, 18, 19} /\ (l > 13 => k \in CosignKeys)
  BY DefaultPositions
<1> HIDE DEF l
<1>2. /\ l \in 2..2 + 2 => l - 1 \in 2..2 + 2
      /\ l \in 12..12 + 6 => l - 1 \in 12..12 + 6 /\ l - 1 \in 12 + 1..12 + 6 /\ l > 13
      /\ l \in 12 + 1..12 + 6 => l \in 12..12 + 6
      /\ l # 6 /\ l # 8 /\ l # 10 /\ 2 + 2 = 4
  BY <1>1
<1>3. DefaultKeys(known, d, l - 1)
  BY DEF l
<1>4. /\ l \in 2..2 + 2 /\ Given(d, MutableKeys) => new[2] = "mutable_tags"
      /\ l \in 12..12 + 6 /\ Given(d, CosignKeys) => new[2] = "signatures"
      /\ l \in 12 + 1..12 + 6 /\ Given(d, CosignKeys) => new[2 + 2] = "cosign"
  BY <1>1, <1>2, <1>3 DEF DefaultKeys, SettingsKeys
<1> QED BY <1>2, <1>4 DEF DefaultKeys, SettingsKeys, l

LEMMA DefaultHeadings ==
    ASSUME NEW d, NEW known
    PROVE  /\ DefaultKeys(known, d, 0) /\ DefaultKeys(known, d, 1)
           /\ (Given(d, MutableKeys) => known[2] = "mutable_tags") => DefaultKeys(known, d, 2)
           /\ known[2] = "digest_pinned_images" => DefaultKeys(known, d, 6)
           /\ known[2] = "failed_registry_resolution" => DefaultKeys(known, d, 8)
           /\ known[2] = "failed_signature_check" => DefaultKeys(known, d, 10)
           /\ (Given(d, CosignKeys) => known[2] = "signatures") => DefaultKeys(known, d, 12)
           /\ (Given(d, CosignKeys) => known[2] = "signatures" /\ known[4] = "cosign") =>
                 DefaultKeys(known, d, 13)
           /\ DefaultKeys(known, d, 12) => (Given(d, CosignKeys) => known[2] = "signatures")
<1>1. 2 + 2 = 4 /\ 12 + 6 = 18 /\ 12 + 1 = 13
  OBVIOUS
<1>2. \A r \in {0, 1, 6, 8, 10} : r \notin 2..4 /\ r \notin 12..18 /\ r \notin 13..18
  OBVIOUS
<1>3. /\ 2 \in 2..4 /\ 2 \notin 12..18 /\ 2 \notin 13..18
      /\ 12 \notin 2..4 /\ 12 \in 12..18 /\ 12 \notin 13..18
      /\ 13 \notin 2..4 /\ 13 \in 12..18 /\ 13 \in 13..18
  OBVIOUS
<1> QED BY <1>1, <1>2, <1>3 DEF DefaultKeys, SettingsKeys

LEMMA DefaultHeads ==
    ASSUME NEW d
    PROVE  LET t == DefaultLines(d, 2) IN
           /\ t[1] = Line(0, "default_policy", "")
           /\ t[2] = Heading(2, "mutable_tags", d, MutableKeys)
           /\ t[6] = Line(2, "digest_pinned_images", "")
           /\ t[8] = Line(2, "failed_registry_resolution", "")
           /\ t[10] = Line(2, "failed_signature_check", "")
           /\ t[12] = Heading(2, "signatures", d, CosignKeys)
           /\ t[13] = Heading(4, "cosign", d, CosignKeys)
<1>1. 2 * 2 = 4
  OBVIOUS
<1> QED BY <1>1 DEF DefaultLines

LEMMA DefaultStep ==
    ASSUME TypeOK, Reading, Next, NEW d \in [PolicyFields -> Texts], NEW r \in 0..18,
           file[next] = DefaultLines(d, 2)[r + 1],
           r > 0 => paths[0] = "default_policy", DefaultKeys(paths, d, r)
    PROVE  /\ next' = next + 1 /\ UNCHANGED <<document, layout, file, currentRule>>
           /\ paths'[0] = "default_policy" /\ DefaultKeys(paths', d, r + 1)
           /\ outcome' # "rejected" =>
                 IF currentRule # 0 THEN config'.default = config.default
                 ELSE config.default = DefaultRead(d, r) =>
                         config' = [config EXCEPT !.default = DefaultRead(d, r + 1)]
<1> DEFINE l == r + 1
           t == DefaultLines(d, 2)
<1>0. config \in Configs /\ outcome = "none"
  BY DEF TypeOK, Reading
<1>1. CASE \E k \in PolicyFields : DefaultAt[k] = l
  <2>1. PICK k \in PolicyFields : DefaultAt[k] = l
    BY <1>1
  <2> DEFINE c == DefaultColumn(k)
             known == ClearDeeper(c)
  <2>2. /\ c \in {4, 6, 8} /\ DefaultKey(k) # "" /\ d[k] \in Texts
        /\ file[next] = Setting(c, DefaultKey(k), d[k])
    <3>1. DefaultKey(k) # ""
      BY DEF DefaultKey, PolicyFields
    <3>2. file[next] = Setting(c, DefaultKey(k), d[k])
      BY <2>1, DefaultSettings
    <3> QED BY <3>1, <3>2 DEF DefaultColumn
  <2>3. /\ next' = next + 1 /\ UNCHANGED <<document, layout, file, currentRule>>
        /\ \A i \in Indents : i < c => paths'[i] = paths[i] /\ known[i] = paths[i]
        /\ d[k] = Unset => UNCHANGED <<config, outcome>>
        /\ d[k] # Unset =>
              IF currentRule # 0
              THEN SetRuleField(config.rules, RuleField(known, c, DefaultKey(k)), Scalar(d[k]))
              ELSE SetValue(known, c, DefaultKey(k), Scalar(d[k]))
    BY <2>2, ReadsSetting
  <2>4. /\ 0 \in Indents /\ 2 \in Indents /\ 4 \in Indents
        /\ 0 < c /\ 2 < c /\ (k \in CosignKeys => 4 < c) /\ c # 0
    BY SmallColumns DEF DefaultColumn
  <2> HIDE DEF c, known
  <2>5. /\ paths'[0] = paths[0] /\ paths'[2] = paths[2] /\ known[0] = paths[0]
        /\ known[2] = paths[2] /\ (k \in CosignKeys => paths'[4] = paths[4] /\ known[4] = paths[4])
    BY <2>3, <2>4
  <2>6. paths[0] = "default_policy" /\ l - 1 = r
    <3>1. l > 1
      BY <2>1, DefaultPositions
    <3> QED BY <3>1
  <2>7. DefaultKeys(paths', d, l)
    <3>1. DefaultKeys(paths, d, DefaultAt[k] - 1)
      BY <2>1, <2>6
    <3> QED BY <2>1, <2>5, <3>1, DefaultKeysKept
  <2>8. ASSUME outcome' # "rejected", currentRule # 0 PROVE config'.default = config.default
    <3>1. CASE d[k] = Unset
      BY <2>3, <3>1
    <3>2. CASE d[k] # Unset
      BY <1>0, <2>3, <2>8, <3>2, RuleFieldKeeps
    <3> QED BY <3>1, <3>2
  <2>9. ASSUME outcome' # "rejected", currentRule = 0, config.default = DefaultRead(d, r)
        PROVE  config' = [config EXCEPT !.default = DefaultRead(d, l)]
    <3>1. DefaultRead(d, l) = IF d[k] = Unset THEN DefaultRead(d, r)
                              ELSE [DefaultRead(d, r) EXCEPT ![k] = Scalar(d[k])]
      BY <2>1, DefaultReadMore
    <3>2. CASE d[k] = Unset
      <4>1. config' = config /\ DefaultRead(d, l) = config.default
        BY <2>3, <2>9, <3>1, <3>2
      <4> QED BY ONLY <1>0, <4>1 DEF Configs
    <3>3. CASE d[k] # Unset
      <4>1. DefaultField(known, DefaultKey(k)) = k
        <5>1. DefaultKeys(paths, d, DefaultAt[k] - 1)
          BY <2>1, <2>6
        <5>2. DefaultField(paths, DefaultKey(k)) = k
          BY <2>6, <3>3, <5>1, DefaultFieldKnown
        <5>3. CASE k \in CosignKeys
          BY <2>5, <5>2, <5>3 DEF DefaultField
        <5>4. CASE k \notin CosignKeys
          <6>1. DefaultKey(k) \notin CosignKeys
            BY <5>4 DEF DefaultKey, CosignKeys
          <6> QED BY <2>5, <5>2, <6>1 DEF DefaultField
        <5> QED BY <5>3, <5>4
      <4>2. SetValue(known, c, DefaultKey(k), Scalar(d[k]))
        BY <2>3, <2>9, <3>3
      <4>3. config' = [config EXCEPT !.default = [config.default EXCEPT ![k] = Scalar(d[k])]]
        <5>1. known[0] = "default_policy" /\ c # 0
          BY <2>4, <2>5, <2>6
        <5>2. \/ outcome' = "rejected"
              \/ config' = [config EXCEPT !.default = [config.default EXCEPT ![k] = Scalar(d[k])]]
          BY <1>0, <4>1, <4>2, <5>1, DefaultUnderstood
        <5> QED BY <2>9, <5>2
      <4>4. [config.default EXCEPT ![k] = Scalar(d[k])] = DefaultRead(d, l)
        BY <2>9, <3>1, <3>3
      <4> QED BY <4>3, <4>4
    <3> QED BY <3>2, <3>3
  <2> QED BY <2>3, <2>5, <2>6, <2>7, <2>8, <2>9
<1>2. CASE ~\E k \in PolicyFields : DefaultAt[k] = l
  <2>1. l \in {1, 2, 6, 8, 10, 12, 13}
    BY <1>2, DefaultPositions
  <2>2. /\ next' = next + 1
        /\ UNCHANGED <<document, layout, file, currentRule, config, outcome>>
        /\ paths'[0] = "default_policy" /\ DefaultKeys(paths', d, l)
    <3>1. CASE l = 1
      <4>1. file[next] = Line(0, "default_policy", "")
        <5>1. t[1] = Line(0, "default_policy", "")
          BY DefaultHeads
        <5> QED BY <3>1, <5>1
      <4>2. /\ next' = next + 1
            /\ paths' = [ClearDeeper(0) EXCEPT ![0] = "default_policy"]
            /\ UNCHANGED <<document, layout, file, currentRule, config, outcome>>
        BY <4>1, ReadsKey
      <4>3. paths'[0] = "default_policy"
        BY <4>2, PathsAfter, SmallColumns
      <4> QED BY <3>1, <4>2, <4>3, DefaultHeadings
    <3>2. CASE l \in {6, 8, 10}
      <4> DEFINE key == IF l = 6 THEN "digest_pinned_images"
                        ELSE IF l = 8 THEN "failed_registry_resolution"
                        ELSE "failed_signature_check"
      <4>1. file[next] = Line(2, key, "") /\ key # ""
        <5>1. /\ t[6] = Line(2, "digest_pinned_images", "")
              /\ t[8] = Line(2, "failed_registry_resolution", "")
              /\ t[10] = Line(2, "failed_signature_check", "")
          BY DefaultHeads
        <5> HIDE DEF t
        <5>2. file[next] = t[l]
          BY DEF t
        <5> QED BY <3>2, <5>1, <5>2
      <4> HIDE DEF key
      <4>2. /\ next' = next + 1 /\ paths' = [ClearDeeper(2) EXCEPT ![2] = key]
            /\ UNCHANGED <<document, layout, file, currentRule, config, outcome>>
        BY <4>1, ReadsKey
      <4>3. paths'[0] = paths[0] /\ paths'[2] = key
        BY <4>2, PathsAfter, SmallColumns
      <4>4. paths[0] = "default_policy"
        BY <3>2
      <4> QED BY <3>2, <4>2, <4>3, <4>4, DefaultHeadings DEF key
    <3>3. CASE l \in {2, 12, 13}
      <4> DEFINE c == IF l = 13 THEN 4 ELSE 2
                 fields == IF l = 2 THEN MutableKeys ELSE CosignKeys
                 key == IF l = 2 THEN "mutable_tags"
                        ELSE IF l = 12 THEN "signatures" ELSE "cosign"
      <4>1. file[next] = Heading(c, key, d, fields) /\ key # ""
        <5>1. /\ t[2] = Heading(2, "mutable_tags", d, MutableKeys)
              /\ t[12] = Heading(2, "signatures", d, CosignKeys)
              /\ t[13] = Heading(4, "cosign", d, CosignKeys)
          BY DefaultHeads
        <5> HIDE DEF t
        <5>2. file[next] = t[l]
          BY DEF t
        <5> QED BY <3>3, <5>1, <5>2
      <4> HIDE DEF key, fields
      <4>2. /\ next' = next + 1
            /\ UNCHANGED <<document, layout, file, currentRule, config, outcome>>
            /\ Given(d, fields) => paths'[c] = key
            /\ \A i \in Indents : i < c => paths'[i] = paths[i]
        <5>1. c \in Columns
          BY SmallColumns
        <5> HIDE DEF c
        <5> QED BY <4>1, <5>1, ReadsHeading
      <4>3. paths'[0] = paths[0] /\ (l = 13 => paths'[2] = paths[2])
        BY <4>2, SmallColumns
      <4>4. paths[0] = "default_policy"
        BY <3>3
      <4>5. CASE l = 2
        BY <4>2, <4>3, <4>4, <4>5, DefaultHeadings DEF key, fields
      <4>6. CASE l = 12
        BY <4>2, <4>3, <4>4, <4>6, DefaultHeadings DEF key, fields
      <4>7. CASE l = 13
        <5>1. DefaultKeys(paths, d, 12)
          BY <4>7
        <5>2. Given(d, CosignKeys) => paths'[2] = "signatures" /\ paths'[4] = "cosign"
          BY <4>2, <4>3, <4>7, <5>1, DefaultHeadings DEF key, fields
        <5> QED BY <4>2, <4>3, <4>4, <4>7, <5>2, DefaultHeadings
      <4> QED BY <3>3, <4>5, <4>6, <4>7
    <3> QED BY <2>1, <3>1, <3>2, <3>3
  <2>3. DefaultRead(d, l) = DefaultRead(d, r)
    BY <1>2, DefaultReadMore
  <2>4. config.default = DefaultRead(d, r) =>
           config' = [config EXCEPT !.default = DefaultRead(d, l)]
    <3> SUFFICES ASSUME config.default = DefaultRead(d, r)
                 PROVE  config' = [config EXCEPT !.default = DefaultRead(d, l)]
      OBVIOUS
    <3>1. config' = config /\ DefaultRead(d, l) = config.default
      BY <2>2, <2>3
    <3> QED BY ONLY <1>0, <3>1 DEF Configs
  <2> QED BY <2>2, <2>4
<1> QED BY <1>1, <1>2

-----------------------------------------------------------------------------
(* A rule.                                                                  *)

RuleColumn(k) == IF k \in CosignKeys THEN 8 ELSE 6

LEMMA RulePositions ==
    /\ RuleAt["match"] = 1
    /\ \A k \in RuleFields \ {"match"} : RuleAt[k] \in {3, 4, 5, 8, 9, 10, 11, 12, 13}
    /\ \A l \in {3, 4, 5, 8, 9, 10, 11, 12, 13} :
          \E k \in RuleFields \ {"match"} : RuleAt[k] = l
    /\ \A j, k \in RuleFields : RuleAt[j] = RuleAt[k] => j = k
    /\ \A k \in RuleFields \ {"match"} :
          /\ k \in MutableKeys <=> RuleAt[k] \in 3..5
          /\ k \in CosignKeys <=> RuleAt[k] \in 8..13
<1>1. /\ RuleAt["match"] = 1 /\ RuleAt["action"] = 3 /\ RuleAt["min_digest_age"] = 4
      /\ RuleAt["allow_first_seen_pull"] = 5
      /\ RuleAt["required"] = 8 /\ RuleAt["mode"] = 9 /\ RuleAt["key"] = 10
      /\ RuleAt["issuer"] = 11 /\ RuleAt["identity"] = 12
      /\ RuleAt["identity_regex"] = 13
  BY DEF RuleAt
<1>2. \A k \in RuleFields \ {"match"} : RuleAt[k] \in {3, 4, 5, 8, 9, 10, 11, 12, 13}
  BY <1>1 DEF RuleFields
<1>3. \A l \in {3, 4, 5, 8, 9, 10, 11, 12, 13} :
         \E k \in RuleFields \ {"match"} : RuleAt[k] = l
  BY <1>1 DEF RuleFields
<1>4. \A j, k \in RuleFields : RuleAt[j] = RuleAt[k] => j = k
  BY <1>1 DEF RuleFields
<1>5. \A k \in RuleFields \ {"match"} :
         /\ k \in MutableKeys <=> RuleAt[k] \in 3..5
         /\ k \in CosignKeys <=> RuleAt[k] \in 8..13
  BY <1>1 DEF RuleFields, MutableKeys, CosignKeys
<1> QED BY <1>1, <1>2, <1>3, <1>4, <1>5

LEMMA Dashed ==
    ASSUME NEW c, NEW indent, NEW key, NEW value
    PROVE  LET line == [Line(c, key, value) EXCEPT !.dash = TRUE, !.indent = indent] IN
           line.dash /\ line.indent = indent /\ line.key = key /\ line.value = value
BY DEF Line

(* The lines of a rule in the documented layout.                            *)
LEMMA DocumentedRule ==
    ASSUME NEW s \in [DOMAIN NewRule -> Texts], NEW how \in Layouts, Documented(how)
    PROVE  /\ RuleLines(s, how)[1].dash /\ RuleLines(s, how)[1].indent = 2
           /\ RuleLines(s, how)[1].key = "match" /\ RuleLines(s, how)[1].value = s.match
           /\ \A i \in 1..12 : RuleLines(s, how)[i + 1] = Fields(s, 4, 2)[i]
<1>1. how.item = 2 /\ how.step = 2 /\ how.matchFirst /\ how.item + 2 = 4
  BY DEF Documented
<1> DEFINE key == Line(how.item + 2, "match", s.match)
           match == <<key>>
           fields == Fields(s, how.item + 2, how.step)
           lines == IF how.matchFirst THEN match \o fields ELSE fields \o match
           first == CHOOSE i \in DOMAIN lines :
                       lines[i] # Blank /\ \A j \in 1..i - 1 : lines[j] = Blank
<1>2. RuleLines(s, how) =
         [lines EXCEPT ![first].dash = TRUE, ![first].indent = how.item]
  BY DEF RuleLines, Fields
<1>3. match \in Seq(Lines) /\ Len(match) = 1 /\ match[1] = key /\ key # Blank
  <2>1. key \in Lines /\ key # Blank
    <3>1. s.match \in Words /\ "match" \in Words /\ 4 \in Columns
      BY FieldNames, Literal, Names, SmallColumns DEF RuleFields
    <3>2. key \in Lines
      BY <1>1, <3>1, LineTyped
    <3>3. key.key = "match" /\ Blank.key = ""
      BY DEF Line, Blank
    <3> QED BY <3>2, <3>3
  <2> HIDE DEF key
  <2> QED BY <2>1, ShortSeq
<1>4. fields \in Seq(Lines) /\ Len(fields) = 12
  BY <1>1, FieldsTyped
<1> HIDE DEF key, match, fields
<1>5. /\ lines \in Seq(Lines) /\ Len(lines) = 13 /\ lines[1] = key
      /\ \A i \in 1..12 : lines[i + 1] = fields[i]
  <2>0. lines = match \o fields
    BY <1>1
  <2> HIDE DEF lines
  <2>1. /\ lines \in Seq(Lines) /\ Len(lines) = Len(match) + Len(fields)
        /\ \A i \in 1..Len(match) : lines[i] = match[i]
        /\ \A i \in 1..Len(fields) : lines[Len(match) + i] = fields[i]
    <3>1. match \in Seq(Lines) /\ fields \in Seq(Lines)
      BY <1>3, <1>4
    <3> QED BY <2>0, <3>1, Joined
  <2>2. \A i \in 1..12 : 1 + i = i + 1
    OBVIOUS
  <2> QED BY <1>3, <1>4, <2>1, <2>2
<1> HIDE DEF lines
<1>6. DOMAIN lines = 1..13 /\ lines[1] # Blank
  BY <1>3, <1>5, LenProperties
<1>7. first = 1
  <2>1. /\ 1 \in DOMAIN lines /\ lines[1] # Blank
        /\ \A j \in 1..1 - 1 : lines[j] = Blank
    BY <1>6
  <2>2. ASSUME NEW i \in DOMAIN lines, i # 1, \A j \in 1..i - 1 : lines[j] = Blank
        PROVE  FALSE
    <3>1. 1 \in 1..i - 1
      BY <1>6, <2>2
    <3> QED BY <1>6, <2>2, <3>1
  <2> QED BY <2>1, <2>2
<1> HIDE DEF first
<1>8. \A l \in 1..13 :
         RuleLines(s, how)[l] =
            IF l = first THEN [lines[l] EXCEPT !.dash = TRUE, !.indent = how.item]
            ELSE lines[l]
  <2> TAKE l \in 1..13
  <2>1. l \in DOMAIN lines
    BY <1>6
  <2>2. CASE l = first
    BY <1>2, <2>1, <2>2
  <2>3. CASE l # first
    BY <1>2, <2>1, <2>3
  <2> QED BY <2>2, <2>3
<1>9. RuleLines(s, how)[1] = [key EXCEPT !.dash = TRUE, !.indent = 2]
  <2>1. 1 \in 1..13
    OBVIOUS
  <2> QED BY <1>1, <1>5, <1>7, <1>8, <2>1
<1>10. \A i \in 1..12 : RuleLines(s, how)[i + 1] = lines[i + 1]
  <2>1. \A i \in 1..12 : i + 1 \in 1..13 /\ i + 1 # 1
    OBVIOUS
  <2> QED BY ONLY <1>7, <1>8, <2>1
<1>11. LET line == [key EXCEPT !.dash = TRUE, !.indent = 2] IN
       line.dash /\ line.indent = 2 /\ line.key = "match" /\ line.value = s.match
  BY Dashed DEF key
<1>12. fields = Fields(s, 4, 2)
  <2>1. \A c, w : c = 4 /\ w = 2 => Fields(s, c, w) = Fields(s, 4, 2)
    OBVIOUS
  <2> QED BY <1>1, <2>1 DEF fields
<1> QED BY <1>5, <1>9, <1>10, <1>11, <1>12

LEMMA DocumentedFields ==
    ASSUME NEW s
    PROVE  LET t == Fields(s, 4, 2) IN
           /\ t[1] = Heading(4, "mutable_tags", s, MutableKeys)
           /\ t[5] = Heading(4, "signatures", s, CosignKeys)
           /\ t[6] = Heading(6, "cosign", s, CosignKeys)
           /\ \A k \in RuleFields \ {"match"} :
                 t[RuleAt[k] - 1] = Setting(RuleColumn(k), k, s[k])
<1> DEFINE t == Fields(s, 4, 2)
<1>1. /\ t[1] = Heading(4, "mutable_tags", s, MutableKeys)
      /\ t[5] = Heading(4, "signatures", s, CosignKeys)
      /\ t[6] = Heading(6, "cosign", s, CosignKeys)
  <2>1. 4 + 2 = 6
    OBVIOUS
  <2> QED BY <2>1 DEF Fields
<1>2. /\ t[2] = Setting(6, "action", s.action)
      /\ t[3] = Setting(6, "min_digest_age", s.min_digest_age)
      /\ t[4] = Setting(6, "allow_first_seen_pull", s.allow_first_seen_pull)
      /\ t[7] = Setting(8, "required", s.required)
      /\ t[8] = Setting(8, "mode", s.mode)
      /\ t[9] = Setting(8, "key", s.key)
      /\ t[10] = Setting(8, "issuer", s.issuer)
      /\ t[11] = Setting(8, "identity", s.identity)
      /\ t[12] = Setting(8, "identity_regex", s.identity_regex)
  <2>1. 4 + 2 = 6 /\ 4 + 2 * 2 = 8
    OBVIOUS
  <2> QED BY <2>1 DEF Fields
<1> HIDE DEF t
<1>3. ASSUME NEW k \in RuleFields \ {"match"}
      PROVE  t[RuleAt[k] - 1] = Setting(RuleColumn(k), k, s[k])
  <2>1. CASE k \in {"action", "min_digest_age", "allow_first_seen_pull"}
    BY <1>2, <2>1 DEF RuleAt, RuleColumn, CosignKeys
  <2>2. CASE k \in CosignKeys
    BY <1>2, <2>2 DEF RuleAt, RuleColumn, CosignKeys
  <2> QED BY <2>1, <2>2 DEF RuleFields, CosignKeys
<1> QED BY <1>1, <1>3 DEF t

LEMMA RuleReadMore ==
    ASSUME NEW s, NEW r \in Nat
    PROVE  /\ (\A k \in RuleFields : RuleAt[k] # r + 1) => RuleRead(s, r + 1) = RuleRead(s, r)
           /\ \A k \in RuleFields \ {"match"} : RuleAt[k] = r + 1 =>
                 RuleRead(s, r + 1) =
                    IF s[k] = Unset THEN RuleRead(s, r)
                    ELSE [RuleRead(s, r) EXCEPT ![k] = Scalar(s[k])]
<1>1. \A k \in RuleFields : RuleAt[k] \in Nat
  BY RulePositions
<1>2. \A k \in RuleFields : RuleAt[k] # r + 1 => (RuleAt[k] <= r + 1 <=> RuleAt[k] <= r)
  BY <1>1
<1>3. \A k \in RuleFields : RuleAt[k] = r + 1 => RuleAt[k] <= r + 1 /\ ~(RuleAt[k] <= r)
  BY <1>1
<1>4. ASSUME \A k \in RuleFields : RuleAt[k] # r + 1
      PROVE  RuleRead(s, r + 1) = RuleRead(s, r)
  BY <1>2, <1>4 DEF RuleRead
<1>5. ASSUME NEW k \in RuleFields \ {"match"}, RuleAt[k] = r + 1
      PROVE  RuleRead(s, r + 1) =
                IF s[k] = Unset THEN RuleRead(s, r)
                ELSE [RuleRead(s, r) EXCEPT ![k] = Scalar(s[k])]
  <2>1. \A j \in RuleFields \ {k} : RuleAt[j] <= r + 1 <=> RuleAt[j] <= r
    BY <1>2, <1>5, RulePositions
  <2>2. RuleAt[k] <= r + 1 /\ ~(RuleAt[k] <= r)
    BY <1>3, <1>5
  <2>3. CASE s[k] = Unset
    BY <1>5, <2>1, <2>2, <2>3 DEF RuleRead
  <2>4. CASE s[k] # Unset
    BY <1>5, <2>1, <2>2, <2>4 DEF RuleRead
  <2> QED BY <2>3, <2>4
<1> QED BY <1>4, <1>5

LEMMA RuleReadEnds ==
    ASSUME NEW s
    PROVE  /\ RuleRead(s, 1) = [NewRule EXCEPT !["match"] = Scalar(s["match"])]
           /\ \A r \in Nat : r >= RuleSize => RuleRead(s, r) = RuleRead(s, RuleSize)
<1>1. \A k \in RuleFields : RuleAt[k] \in 1..13 /\ (RuleAt[k] <= 1 <=> k = "match")
  BY RulePositions DEF RuleFields
<1>2. RuleRead(s, 1) = [NewRule EXCEPT !["match"] = Scalar(s["match"])]
  <2>1. NewRule = [k \in RuleFields |-> NewRule[k]]
    BY FieldNames DEF NewRule
  <2>2. RuleRead(s, 1) =
           [k \in RuleFields |-> IF k = "match" THEN Scalar(s["match"]) ELSE NewRule[k]]
    BY <1>1 DEF RuleRead
  <2> QED BY <2>1, <2>2
<1>3. ASSUME NEW r \in Nat, r >= RuleSize PROVE RuleRead(s, r) = RuleRead(s, RuleSize)
  <2>1. \A k \in RuleFields : RuleAt[k] <= r /\ RuleAt[k] <= RuleSize
    BY <1>1, <1>3 DEF RuleSize
  <2> QED BY <2>1 DEF RuleRead
<1> QED BY <1>2, <1>3

(* The keys above a setting of a rule say which field it is.                *)
LEMMA RuleFieldKnown ==
    ASSUME NEW s, NEW k \in RuleFields \ {"match"}, s[k] # Unset, NEW known,
           SettingsKeys(known, s, 4, RuleAt[k] - 1, 2, 6)
    PROVE  RuleField(known, RuleColumn(k), k) = k
<1>1. CASE k \in MutableKeys
  <2>1. RuleAt[k] - 1 \in 2..2 + 2 /\ Given(s, MutableKeys)
    BY <1>1, RulePositions DEF Given
  <2>2. known[4] = "mutable_tags"
    BY <2>1 DEF SettingsKeys
  <2>3. RuleColumn(k) - 2 = 4
    BY <1>1 DEF RuleColumn, MutableKeys, CosignKeys
  <2> QED BY <1>1, <2>2, <2>3 DEF RuleField
<1>2. CASE k \in CosignKeys
  <2>1. /\ RuleAt[k] - 1 \in 6..6 + 6 /\ RuleAt[k] - 1 \in 6 + 1..6 + 6
        /\ Given(s, CosignKeys)
    BY <1>2, RulePositions DEF Given
  <2>2. known[4] = "signatures" /\ known[4 + 2] = "cosign" /\ 4 + 2 = 6
    BY <2>1 DEF SettingsKeys
  <2>3. RuleColumn(k) - 4 = 4 /\ RuleColumn(k) - 2 = 6
    BY <1>2 DEF RuleColumn
  <2> QED BY <1>2, <2>2, <2>3 DEF RuleField
<1> QED BY <1>1, <1>2 DEF RuleFields, MutableKeys, CosignKeys

LEMMA RuleKeysKept ==
    ASSUME NEW s, NEW k \in RuleFields \ {"match"}, NEW known, NEW new,
           SettingsKeys(known, s, 4, RuleAt[k] - 1, 2, 6),
           new[4] = known[4], k \in CosignKeys => new[6] = known[6]
    PROVE  SettingsKeys(new, s, 4, RuleAt[k], 2, 6)
<1> DEFINE l == RuleAt[k]
<1>1. l \in {3, 4, 5, 8, 9, 10, 11, 12, 13} /\ (l > 7 => k \in CosignKeys)
  BY RulePositions
<1> HIDE DEF l
<1>2. /\ l \in 2..2 + 2 => l - 1 \in 2..2 + 2
      /\ l \in 6..6 + 6 => l - 1 \in 6..6 + 6 /\ l - 1 \in 6 + 1..6 + 6 /\ l > 7
      /\ l \in 6 + 1..6 + 6 => l \in 6..6 + 6
      /\ 4 + 2 = 6
  BY <1>1
<1>3. SettingsKeys(known, s, 4, l - 1, 2, 6)
  BY DEF l
<1> QED BY <1>1, <1>2, <1>3 DEF SettingsKeys, l

LEMMA RuleHeadings ==
    ASSUME NEW s, NEW known
    PROVE  /\ SettingsKeys(known, s, 4, 1, 2, 6)
           /\ (Given(s, MutableKeys) => known[4] = "mutable_tags") =>
                 SettingsKeys(known, s, 4, 2, 2, 6)
           /\ (Given(s, CosignKeys) => known[4] = "signatures") =>
                 SettingsKeys(known, s, 4, 6, 2, 6)
           /\ (Given(s, CosignKeys) => known[4] = "signatures" /\ known[6] = "cosign") =>
                 SettingsKeys(known, s, 4, 7, 2, 6)
           /\ SettingsKeys(known, s, 4, 6, 2, 6) =>
                 (Given(s, CosignKeys) => known[4] = "signatures")
<1>1. 4 + 2 = 6 /\ 2 + 2 = 4 /\ 6 + 6 = 12 /\ 6 + 1 = 7
  OBVIOUS
<1>2. /\ 1 \notin 2..4 /\ 1 \notin 6..12 /\ 1 \notin 7..12
      /\ 2 \in 2..4 /\ 2 \notin 6..12 /\ 2 \notin 7..12
      /\ 6 \notin 2..4 /\ 6 \in 6..12 /\ 6 \notin 7..12
      /\ 7 \notin 2..4 /\ 7 \in 6..12 /\ 7 \in 7..12
  OBVIOUS
<1> QED BY <1>1, <1>2 DEF SettingsKeys

(* The last rule is the one a value goes to.                                *)
LEMMA RuleUnderstood ==
    ASSUME config \in Configs, outcome = "none", NEW rules, NEW value,
           NEW field \in RuleFields, SetRuleField(rules, field, value),
           outcome' # "rejected"
    PROVE  config' = [config EXCEPT !.rules =
              [rules EXCEPT ![Len(rules)] = [rules[Len(rules)] EXCEPT ![field] = value]]]
<1>1. field # ""
  BY DEF RuleFields
<1>2. config' = [config EXCEPT !.rules = [rules EXCEPT ![Len(rules)][field] = value]]
  BY <1>1 DEF SetRuleField, Understand, Reject
<1> QED BY <1>2

LEMMA LastKept ==
    ASSUME NEW S, NEW list \in Seq(S)
    PROVE  [list EXCEPT ![Len(list)] = list[Len(list)]] = list
OBVIOUS

LEMMA RuleStep ==
    ASSUME TypeOK, Reading, Next, NEW s \in [RuleFields -> Texts], NEW j \in 1..12,
           file[next] = Fields(s, 4, 2)[j], currentRule # 0, paths[0] = "rules",
           SettingsKeys(paths, s, 4, j, 2, 6)
    PROVE  /\ next' = next + 1 /\ UNCHANGED <<document, layout, file, currentRule>>
           /\ paths'[0] = "rules" /\ SettingsKeys(paths', s, 4, j + 1, 2, 6)
           /\ config'.default = config.default
           /\ outcome' # "rejected" /\ config.rules[Len(config.rules)] = RuleRead(s, j) =>
                 config' = [config EXCEPT !.rules =
                    [config.rules EXCEPT ![Len(config.rules)] = RuleRead(s, j + 1)]]
<1> DEFINE l == j + 1
           t == Fields(s, 4, 2)
           last == config.rules[Len(config.rules)]
<1>0. config \in Configs /\ outcome = "none" /\ config.rules \in Seq(RuleTypes)
  BY DEF TypeOK, Reading, Configs
<1>1. CASE \E k \in RuleFields \ {"match"} : RuleAt[k] = l
  <2>1. PICK k \in RuleFields \ {"match"} : RuleAt[k] = l
    BY <1>1
  <2> DEFINE c == RuleColumn(k)
             known == ClearDeeper(c)
  <2>2. /\ c \in {4, 6, 8} /\ k # "" /\ s[k] \in Texts
        /\ file[next] = Setting(c, k, s[k])
    <3>1. k # ""
      BY DEF RuleFields
    <3>2. file[next] = Setting(c, k, s[k])
      <4>1. l - 1 = j
        OBVIOUS
      <4>2. t[RuleAt[k] - 1] = Setting(c, k, s[k])
        BY DocumentedFields
      <4> QED BY <2>1, <4>1, <4>2
    <3> QED BY <3>1, <3>2 DEF RuleColumn
  <2>3. /\ next' = next + 1 /\ UNCHANGED <<document, layout, file, currentRule>>
        /\ \A i \in Indents : i < c => paths'[i] = paths[i] /\ known[i] = paths[i]
        /\ s[k] = Unset => UNCHANGED <<config, outcome>>
        /\ s[k] # Unset =>
              IF currentRule # 0
              THEN SetRuleField(config.rules, RuleField(known, c, k), Scalar(s[k]))
              ELSE SetValue(known, c, k, Scalar(s[k]))
    BY <2>2, ReadsSetting
  <2>4. /\ 0 \in Indents /\ 4 \in Indents /\ 6 \in Indents
        /\ 0 < c /\ 4 < c /\ (k \in CosignKeys => 6 < c)
    BY SmallColumns DEF RuleColumn
  <2> HIDE DEF c, known
  <2>5. /\ paths'[0] = paths[0] /\ paths'[4] = paths[4] /\ known[4] = paths[4]
        /\ (k \in CosignKeys => paths'[6] = paths[6] /\ known[6] = paths[6])
    BY <2>3, <2>4
  <2>6. SettingsKeys(paths, s, 4, RuleAt[k] - 1, 2, 6)
    <3>1. l - 1 = j
      OBVIOUS
    <3> QED BY <2>1, <3>1
  <2>7. SettingsKeys(paths', s, 4, l, 2, 6)
    BY <2>1, <2>5, <2>6, RuleKeysKept
  <2>8. config'.default = config.default
    <3>1. CASE s[k] = Unset
      BY <2>3, <3>1
    <3>2. CASE s[k] # Unset
      BY <1>0, <2>3, <3>2, RuleFieldKeeps
    <3> QED BY <3>1, <3>2
  <2>9. ASSUME outcome' # "rejected", last = RuleRead(s, j)
        PROVE  config' = [config EXCEPT !.rules =
                  [config.rules EXCEPT ![Len(config.rules)] = RuleRead(s, l)]]
    <3>1. RuleRead(s, l) = IF s[k] = Unset THEN RuleRead(s, j)
                           ELSE [RuleRead(s, j) EXCEPT ![k] = Scalar(s[k])]
      BY <2>1, RuleReadMore
    <3>2. CASE s[k] = Unset
      <4>1. config' = config /\ RuleRead(s, l) = last
        BY <2>3, <2>9, <3>1, <3>2
      <4>2. [config.rules EXCEPT ![Len(config.rules)] = RuleRead(s, l)] = config.rules
        BY <1>0, <4>1, LastKept
      <4> QED BY <1>0, <4>1, <4>2 DEF Configs
    <3>3. CASE s[k] # Unset
      <4>1. RuleField(known, c, k) = k
        <5>1. RuleField(paths, c, k) = k
          BY <2>6, <3>3, RuleFieldKnown DEF c
        <5>2. CASE k \in CosignKeys
          <6>1. c - 4 = 4 /\ c - 2 = 6
            BY <5>2 DEF c, RuleColumn
          <6> QED BY <2>5, <5>1, <5>2, <6>1 DEF RuleField
        <5>3. CASE k \notin CosignKeys
          <6>1. c - 2 = 4
            BY <5>3 DEF c, RuleColumn
          <6> QED BY <2>5, <5>1, <5>3, <6>1 DEF RuleField
        <5> QED BY <5>2, <5>3
      <4>2. SetRuleField(config.rules, k, Scalar(s[k]))
        BY <2>3, <3>3, <4>1
      <4>3. config' = [config EXCEPT !.rules =
               [config.rules EXCEPT ![Len(config.rules)] = [last EXCEPT ![k] = Scalar(s[k])]]]
        BY <1>0, <2>9, <4>2, RuleUnderstood
      <4>4. [last EXCEPT ![k] = Scalar(s[k])] = RuleRead(s, l)
        BY <2>9, <3>1, <3>3
      <4> QED BY <4>3, <4>4
    <3> QED BY <3>2, <3>3
  <2> QED BY <2>3, <2>5, <2>7, <2>8, <2>9
<1>2. CASE ~\E k \in RuleFields \ {"match"} : RuleAt[k] = l
  <2>1. l \in {2, 6, 7}
    BY <1>2, RulePositions
  <2> DEFINE c == IF l = 7 THEN 6 ELSE 4
             fields == IF l = 2 THEN MutableKeys ELSE CosignKeys
             key == IF l = 2 THEN "mutable_tags" ELSE IF l = 6 THEN "signatures" ELSE "cosign"
  <2>2. file[next] = Heading(c, key, s, fields) /\ key # "" /\ c \in Columns
    <3>1. /\ t[1] = Heading(4, "mutable_tags", s, MutableKeys)
          /\ t[5] = Heading(4, "signatures", s, CosignKeys)
          /\ t[6] = Heading(6, "cosign", s, CosignKeys)
      BY DocumentedFields
    <3>2. (l = 2 => j = 1) /\ (l = 6 => j = 5) /\ (l = 7 => j = 6)
      OBVIOUS
    <3>3. c \in Columns
      BY SmallColumns
    <3> HIDE DEF t
    <3>4. file[next] = t[j]
      BY DEF t
    <3> QED BY <2>1, <3>1, <3>2, <3>3, <3>4
  <2> HIDE DEF key, fields
  <2>3. /\ next' = next + 1
        /\ UNCHANGED <<document, layout, file, currentRule, config, outcome>>
        /\ Given(s, fields) => paths'[c] = key
        /\ \A i \in Indents : i < c => paths'[i] = paths[i]
    <3> HIDE DEF c
    <3> QED BY <2>2, ReadsHeading
  <2>4. paths'[0] = paths[0] /\ (l = 7 => paths'[4] = paths[4])
    BY <2>3, SmallColumns
  <2>5. SettingsKeys(paths', s, 4, l, 2, 6)
    <3>1. CASE l = 2
      BY <2>3, <3>1, RuleHeadings DEF key, fields
    <3>2. CASE l = 6
      BY <2>3, <3>2, RuleHeadings DEF key, fields
    <3>3. CASE l = 7
      <4>1. j = 6
        BY <3>3
      <4>2. Given(s, CosignKeys) => paths'[4] = "signatures" /\ paths'[6] = "cosign"
        BY <2>3, <2>4, <3>3, <4>1, RuleHeadings DEF key, fields
      <4> QED BY <3>3, <4>2, RuleHeadings
    <3> QED BY <2>1, <3>1, <3>2, <3>3
  <2>6. RuleRead(s, l) = RuleRead(s, j)
    <3>1. RuleAt["match"] # l
      BY <2>1, RulePositions
    <3>2. \A k \in RuleFields : RuleAt[k] # l
      BY <1>2, <3>1
    <3> QED BY <3>2, RuleReadMore
  <2>7. last = RuleRead(s, j) =>
           config' = [config EXCEPT !.rules =
              [config.rules EXCEPT ![Len(config.rules)] = RuleRead(s, l)]]
    <3> SUFFICES ASSUME last = RuleRead(s, j)
                 PROVE  config' = [config EXCEPT !.rules =
                    [config.rules EXCEPT ![Len(config.rules)] = RuleRead(s, l)]]
      OBVIOUS
    <3>1. config' = config /\ RuleRead(s, l) = last
      BY <2>3, <2>6
    <3>2. [config.rules EXCEPT ![Len(config.rules)] = RuleRead(s, l)] = config.rules
      BY <1>0, <3>1, LastKept
    <3> QED BY <1>0, <3>1, <3>2 DEF Configs
  <2> QED BY <2>3, <2>4, <2>5, <2>7
<1> QED BY <1>1, <1>2

(* The first line of a rule begins it.                                      *)
LEMMA LastSet ==
    ASSUME NEW S, NEW list \in Seq(S), NEW e \in S, NEW f \in S
    PROVE  /\ Append(list, e)[Len(list) + 1] = e /\ Len(Append(list, e)) = Len(list) + 1
           /\ [Append(list, e) EXCEPT ![Len(list) + 1] = f] = Append(list, f)
<1> DEFINE new == [Append(list, e) EXCEPT ![Len(list) + 1] = f]
<1>1. /\ Append(list, e) \in Seq(S) /\ Len(Append(list, e)) = Len(list) + 1
      /\ \A i \in 1..Len(list) : Append(list, e)[i] = list[i]
      /\ Append(list, e)[Len(list) + 1] = e
  BY AppendProperties
<1>2. /\ Append(list, f) \in Seq(S) /\ Len(Append(list, f)) = Len(list) + 1
      /\ \A i \in 1..Len(list) : Append(list, f)[i] = list[i]
      /\ Append(list, f)[Len(list) + 1] = f
  BY AppendProperties
<1>3. Len(list) \in Nat /\ Len(list) + 1 \in 1..Len(list) + 1
  BY LenProperties
<1>4. /\ new \in Seq(S) /\ Len(new) = Len(Append(list, e))
      /\ \A i \in 1..Len(Append(list, e)) :
            new[i] = IF i = Len(list) + 1 THEN f ELSE Append(list, e)[i]
  <2> DEFINE long == Append(list, e)
             n == Len(list) + 1
  <2>1. long \in Seq(S) /\ n \in 1..Len(long) /\ DOMAIN long = 1..Len(long)
    BY <1>1, <1>3, LenProperties
  <2> HIDE DEF long, n
  <2>2. /\ [long EXCEPT ![n] = f] \in Seq(S) /\ Len([long EXCEPT ![n] = f]) = Len(long)
        /\ \A i \in 1..Len(long) : [long EXCEPT ![n] = f][i] = IF i = n THEN f ELSE long[i]
    <3>1. /\ [long EXCEPT ![n] = f] \in Seq(S)
          /\ Len([long EXCEPT ![n] = f]) = Len(long)
      BY <2>1, ExceptSeq
    <3>2. \A i \in 1..Len(long) : [long EXCEPT ![n] = f][i] = IF i = n THEN f ELSE long[i]
      BY ONLY <2>1
    <3> QED BY <3>1, <3>2
  <2> QED BY <2>2 DEF long, n
<1> HIDE DEF new
<1>5. \A i \in 1..Len(new) : new[i] = Append(list, f)[i]
  <2> TAKE i \in 1..Len(new)
  <2>1. CASE i = Len(list) + 1
    BY <1>1, <1>2, <1>4, <2>1
  <2>2. CASE i # Len(list) + 1
    <3>1. i \in 1..Len(list)
      BY <1>1, <1>3, <1>4, <2>2
    <3> QED BY <1>1, <1>2, <1>4, <2>2, <3>1
  <2> QED BY <2>1, <2>2
<1>6. Len(new) = Len(Append(list, f))
  BY <1>1, <1>2, <1>4
<1>7. new = Append(list, f)
  BY <1>2, <1>4, <1>5, <1>6, SeqEqual
<1> QED BY <1>1, <1>7 DEF new

LEMMA ItemStep ==
    ASSUME TypeOK, Reading, Next, NEW s \in [RuleFields -> Texts],
           Documented(layout), layout \in Layouts,
           file[next] = RuleLines(s, layout)[1], paths[0] = "rules"
    PROVE  /\ next' = next + 1 /\ UNCHANGED <<document, layout, file, paths>>
           /\ currentRule' # 0 /\ config'.default = config.default
           /\ outcome' # "rejected" =>
                 config' = [config EXCEPT !.rules = Append(config.rules, RuleRead(s, 1))]
<1> DEFINE rules == Append(config.rules, NewRule)
           new == [NewRule EXCEPT !["match"] = Scalar(s["match"])]
<1>1. /\ config \in Configs /\ outcome = "none" /\ config.rules \in Seq(RuleTypes)
      /\ Len(config.rules) \in Nat
  BY LenProperties DEF TypeOK, Reading, Configs
<1>2. /\ file[next].dash /\ file[next].indent = 2
      /\ file[next].key = "match" /\ file[next].value = s.match
  BY FieldNames, DocumentedRule
<1>3. paths[2 - 2] = "rules"
  OBVIOUS
<1>4. /\ next' = next + 1 /\ UNCHANGED <<document, layout, file, paths>>
      /\ currentRule' = Len(config.rules) + 1
      /\ SetRuleField(rules, RuleField(paths, 2 + 2, "match"), Scalar(s.match))
  BY <1>2, <1>3, ReadsItem
<1>5. RuleField(paths, 2 + 2, "match") = "match" /\ "match" \in RuleFields
  BY DEF RuleField, RuleFields
<1>6. currentRule' # 0
  BY <1>1, <1>4
<1>7. SetRuleField(rules, "match", Scalar(s.match))
  BY <1>4, <1>5
<1>8. config'.default = config.default
  BY <1>1, <1>7, RuleFieldKeeps
<1>9. ASSUME outcome' # "rejected"
      PROVE  config' = [config EXCEPT !.rules = Append(config.rules, RuleRead(s, 1))]
  <2>1. s["match"] \in Texts /\ Scalar(s["match"]) \in Words
    <3>1. s["match"] \in Texts
      BY <1>5
    <3>2. "" \in Words /\ Texts \subseteq Words
      BY Literal
    <3> QED BY <3>1, <3>2 DEF Scalar
  <2>2. NewRule \in RuleTypes /\ new \in RuleTypes
    <3>1. ~Unparsable("match", Scalar(s["match"]))
      BY DEF Unparsable
    <3> QED BY <1>5, <2>1, <3>1, ZeroTypes, RuleSet
  <2>3. config' = [config EXCEPT !.rules = [rules EXCEPT ![Len(rules)] =
                     [rules[Len(rules)] EXCEPT !["match"] = Scalar(s["match"])]]]
    <3> HIDE DEF rules
    <3> QED BY <1>1, <1>5, <1>7, <1>9, RuleUnderstood
  <2>4. /\ rules[Len(config.rules) + 1] = NewRule /\ Len(rules) = Len(config.rules) + 1
        /\ [rules EXCEPT ![Len(config.rules) + 1] = new] = Append(config.rules, new)
    <3> HIDE DEF new
    <3>1. \A S : \A list \in Seq(S), e \in S, f \in S :
             /\ Append(list, e)[Len(list) + 1] = e /\ Len(Append(list, e)) = Len(list) + 1
             /\ [Append(list, e) EXCEPT ![Len(list) + 1] = f] = Append(list, f)
      BY LastSet
    <3> USE <2>2
    <3>2. \A list \in Seq(RuleTypes) :
             /\ Append(list, NewRule)[Len(list) + 1] = NewRule
             /\ Len(Append(list, NewRule)) = Len(list) + 1
             /\ [Append(list, NewRule) EXCEPT ![Len(list) + 1] = new] = Append(list, new)
      BY ONLY NewRule \in RuleTypes, new \in RuleTypes, <3>1
    <3> QED BY ONLY <1>1, <3>2
  <2>5. [rules EXCEPT ![Len(rules)] =
            [rules[Len(rules)] EXCEPT !["match"] = Scalar(s["match"])]]
        = Append(config.rules, new)
    BY <2>4
  <2>6. RuleRead(s, 1) = new
    BY RuleReadEnds
  <2> QED BY <2>3, <2>5, <2>6
<1> QED BY <1>4, <1>6, <1>8, <1>9

-----------------------------------------------------------------------------
(* The rules, line by line: r lines of the block are the key, n whole rules *)
(* and j lines of the next.                                                 *)

LEMMA BlockHead ==
    ASSUME TypeOK, Reading, Next, NEW name, name # "", file[next] = Line(0, name, "")
    PROVE  /\ next' = next + 1
           /\ UNCHANGED <<document, layout, file, currentRule, config, outcome>>
           /\ paths'[0] = name
<1>1. /\ next' = next + 1 /\ paths' = [ClearDeeper(0) EXCEPT ![0] = name]
      /\ UNCHANGED <<document, layout, file, currentRule, config, outcome>>
  BY ReadsKey
<1>2. [ClearDeeper(0) EXCEPT ![0] = name][0] = name
  BY PathsAfter, SmallColumns
<1> QED BY <1>1, <1>2

LEMMA WholeRules ==
    ASSUME NEW r \in Nat, r >= 1
    PROVE  \E n \in Nat, j \in 0..12 : r = RuleSize * n + j + 1
<1> DEFINE n == (r - 1) \div 13
           j == (r - 1) % 13
<1>1. n \in Nat /\ j \in 0..12 /\ r - 1 = 13 * n + j
  OBVIOUS
<1> HIDE DEF n, j
<1>2. r = RuleSize * n + j + 1
  BY <1>1 DEF RuleSize
<1> QED BY <1>1, <1>2

LEMMA NoKeysNeeded ==
    ASSUME NEW known, NEW s, NEW r \in Int, r < 2 \/ r > 12
    PROVE  SettingsKeys(known, s, 4, r, 2, 6)
<1>1. r \notin 2..2 + 2 /\ r \notin 6..6 + 6 /\ r \notin 6 + 1..6 + 6
  OBVIOUS
<1> QED BY <1>1 DEF SettingsKeys

(* One line on, the keys for the rule that is read decide.                  *)
LEMMA RulesKeysAfter ==
    ASSUME NEW rules, Len(rules) \in Nat, NEW known, NEW n \in Nat, NEW j \in 0..12,
           NEW r \in Nat, r = RuleSize * n + j + 2,
           SettingsKeys(known, rules[n + 1], 4, j + 1, 2, 6)
    PROVE  RulesKeys(known, rules, r)
<1>1. ASSUME NEW m \in 0..Len(rules) - 1
      PROVE  SettingsKeys(known, rules[m + 1], 4, r - 1 - RuleSize * m, 2, 6)
  <2>1. CASE m = n
    <3>1. r - 1 - RuleSize * m = j + 1
      BY <2>1 DEF RuleSize
    <3> QED BY <2>1, <3>1
  <2>2. CASE m # n
    <3> DEFINE a == r - 1 - RuleSize * m
    <3>1. a \in Int /\ (a < 2 \/ a > 12)
      BY <2>2 DEF RuleSize
    <3> HIDE DEF a
    <3>2. SettingsKeys(known, rules[m + 1], 4, a, 2, 6)
      BY <3>1, NoKeysNeeded
    <3> QED BY <3>2 DEF a
  <2> QED BY <2>1, <2>2
<1> QED BY <1>1 DEF RulesKeys

LEMMA RulesKeysBefore ==
    ASSUME NEW rules, Len(rules) \in Nat, NEW known, NEW n \in 0..Len(rules) - 1,
           NEW j \in 0..12, NEW r \in Nat, r = RuleSize * n + j + 1,
           RulesKeys(known, rules, r)
    PROVE  SettingsKeys(known, rules[n + 1], 4, j, 2, 6)
<1>1. r - 1 - RuleSize * n = j
  BY DEF RuleSize
<1>2. SettingsKeys(known, rules[n + 1], 4, r - 1 - RuleSize * n, 2, 6)
  BY DEF RulesKeys
<1> QED BY <1>1, <1>2

(* As many rules have begun as the lines say.                               *)
LEMMA RulesBegun ==
    ASSUME NEW rules, Len(rules) \in Nat, NEW list, Len(list) \in Nat,
           NEW n \in Nat, NEW j \in 0..12, NEW r \in Nat,
           r = RuleSize * n + j + 1, RulesRead(rules, r, list)
    PROVE  Len(list) = IF j = 0 THEN n ELSE n + 1
<1>1. /\ r <= RuleSize * Len(list) + 1
      /\ Len(list) > 0 => r > RuleSize * (Len(list) - 1) + 1
  BY DEF RulesRead
<1> QED BY <1>1 DEF RuleSize

(* The rules that were read to their end stay as they are; the last is one  *)
(* line further.                                                            *)
LEMMA RulesReadMore ==
    ASSUME NEW rules, Len(rules) \in Nat, NEW list, Len(list) \in Nat,
           NEW n \in 0..Len(rules) - 1, NEW j \in 0..12, NEW r \in Nat,
           r = RuleSize * n + j + 1, RulesRead(rules, r, list),
           NEW new, Len(new) = n + 1, \A m \in 1..n : new[m] = list[m],
           new[n + 1] = RuleRead(rules[n + 1], j + 1)
    PROVE  RulesRead(rules, r + 1, new)
<1> DEFINE q == r + 1
<1>1. /\ Len(new) <= Len(rules) /\ q <= RuleSize * Len(new) + 1
      /\ q > RuleSize * (Len(new) - 1) + 1
  BY DEF RuleSize
<1> HIDE DEF q
<1>2. ASSUME NEW m \in 1..Len(new)
      PROVE  new[m] = RuleRead(rules[m], q - 1 - RuleSize * (m - 1))
  <2>1. CASE m = n + 1
    <3>1. q - 1 - RuleSize * (m - 1) = j + 1
      BY <2>1 DEF RuleSize, q
    <3> QED BY <2>1, <3>1
  <2>2. CASE m # n + 1
    <3> DEFINE a == r - 1 - RuleSize * (m - 1)
               b == q - 1 - RuleSize * (m - 1)
    <3>1. a \in Nat /\ b \in Nat /\ a >= RuleSize /\ b >= RuleSize /\ m \in 1..n
      BY <2>2 DEF RuleSize, q
    <3>2. list[m] = RuleRead(rules[m], a)
      <4>1. m \in 1..Len(list)
        <5>1. Len(list) = IF j = 0 THEN n ELSE n + 1
          BY RulesBegun
        <5> QED BY <3>1, <5>1
      <4> QED BY <4>1 DEF RulesRead
    <3> HIDE DEF a, b
    <3>3. RuleRead(rules[m], a) = RuleRead(rules[m], b)
      BY <3>1, RuleReadEnds
    <3>4. new[m] = RuleRead(rules[m], b)
      BY <3>1, <3>2, <3>3
    <3> QED BY <3>4 DEF b
  <2> QED BY <2>1, <2>2
<1>3. RulesRead(rules, q, new)
  BY <1>1, <1>2 DEF RulesRead
<1> QED BY <1>3 DEF q

LEMMA RulesKeysFirst ==
    ASSUME NEW rules, Len(rules) \in Nat, NEW known, NEW r \in 0..1
    PROVE  RulesKeys(known, rules, r)
<1>1. ASSUME NEW m \in 0..Len(rules) - 1
      PROVE  SettingsKeys(known, rules[m + 1], 4, r - 1 - RuleSize * m, 2, 6)
  <2> DEFINE a == r - 1 - RuleSize * m
  <2>1. a \in Int /\ a < 2
    BY DEF RuleSize
  <2> HIDE DEF a
  <2>2. SettingsKeys(known, rules[m + 1], 4, a, 2, 6)
    BY <2>1, NoKeysNeeded
  <2> QED BY <2>2 DEF a
<1> QED BY <1>1 DEF RulesKeys

LEMMA RulesStep ==
    ASSUME TypeOK, Reading, Next, Documented(layout), layout \in Layouts,
           NEW rules \in Seq([DOMAIN NewRule -> Texts]),
           NEW r \in 0..RuleSize * Len(rules),
           file[next] = RulesLines(rules, layout)[r + 1],
           currentRule # 0 <=> r > 1, r > 0 => paths[0] = "rules",
           RulesKeys(paths, rules, r)
    PROVE  /\ next' = next + 1 /\ UNCHANGED <<document, layout, file>>
           /\ (currentRule' # 0 <=> r + 1 > 1)
           /\ paths'[0] = "rules" /\ RulesKeys(paths', rules, r + 1)
           /\ config'.default = config.default
           /\ outcome' # "rejected" /\ RulesRead(rules, r, config.rules) =>
                 \E list : /\ config' = [config EXCEPT !.rules = list]
                           /\ RulesRead(rules, r + 1, list)
<1>1. /\ config \in Configs /\ config.rules \in Seq(RuleTypes)
      /\ Len(config.rules) \in Nat /\ Len(rules) \in Nat
      /\ DOMAIN config.rules = 1..Len(config.rules)
  BY LenProperties DEF TypeOK, Configs
<1>2. r \in Nat
  BY <1>1 DEF RuleSize
<1>3. CASE r = 0
  <2>1. file[next] = Line(0, "rules", "")
    <3>1. r + 1 = 1
      BY <1>3
    <3> QED BY <3>1, RulesLine
  <2>2. /\ next' = next + 1
        /\ UNCHANGED <<document, layout, file, currentRule, config, outcome>>
        /\ paths'[0] = "rules"
    BY <2>1, BlockHead
  <2>3. RulesKeys(paths', rules, r + 1)
    <3>1. r + 1 = 1
      BY <1>3
    <3> QED BY <1>1, <3>1, RulesKeysFirst
  <2>4. ASSUME RulesRead(rules, r, config.rules)
        PROVE  /\ config' = [config EXCEPT !.rules = config.rules]
               /\ RulesRead(rules, r + 1, config.rules)
    <3>1. Len(config.rules) = 0
      BY <1>1, <1>3, <2>4 DEF RulesRead, RuleSize
    <3>2. RulesRead(rules, r + 1, config.rules)
      BY <1>1, <1>3, <3>1 DEF RulesRead, RuleSize
    <3>3. config' = [config EXCEPT !.rules = config.rules]
      BY <1>1, <2>2 DEF Configs
    <3> QED BY <3>2, <3>3
  <2> QED BY <1>3, <2>2, <2>3, <2>4
<1>4. CASE r > 0
  <2>1. PICK n \in Nat, j \in 0..12 : r = RuleSize * n + j + 1
    BY <1>2, <1>4, WholeRules
  <2>2. n \in 0..Len(rules) - 1
    BY <1>1, <2>1 DEF RuleSize
  <2> DEFINE s == rules[n + 1]
             u == config.rules
  <2>3. s \in [RuleFields -> Texts]
    <3>1. n + 1 \in 1..Len(rules)
      BY <1>1, <2>2
    <3>2. s \in [DOMAIN NewRule -> Texts]
      BY <3>1, ElementOfSeq
    <3> QED BY <3>2, FieldNames
  <2>4. file[next] = RuleLines(s, layout)[j + 1]
    <3>1. j + 1 \in 1..RuleSize /\ 1 + RuleSize * n + (j + 1) = r + 1
      BY ONLY <2>1, j \in 0..12, n \in Nat DEF RuleSize
    <3>2. RulesLines(rules, layout)[1 + RuleSize * n + (j + 1)] = RuleLines(s, layout)[j + 1]
      BY <2>2, <3>1, RulesLine
    <3> QED BY <3>1, <3>2
  <2>5. SettingsKeys(paths, s, 4, j, 2, 6)
    BY <1>1, <1>2, <2>1, <2>2, RulesKeysBefore
  <2>6. RulesRead(rules, r, u) => Len(u) = IF j = 0 THEN n ELSE n + 1
    <3> HIDE DEF u
    <3>1. Len(u) \in Nat
      BY <1>1 DEF u
    <3> QED BY <1>1, <1>2, <2>1, <3>1, RulesBegun
  <2>7. ASSUME SettingsKeys(paths', s, 4, j + 1, 2, 6)
        PROVE  RulesKeys(paths', rules, r + 1)
    <3>1. r + 1 \in Nat /\ r + 1 = RuleSize * n + j + 2
      BY ONLY <1>2, <2>1, j \in 0..12, n \in Nat DEF RuleSize
    <3> QED BY <1>1, <2>1, <2>7, <3>1, RulesKeysAfter
  <2>8. ASSUME NEW new, Len(new) = n + 1, \A m \in 1..n : new[m] = u[m],
               new[n + 1] = RuleRead(s, j + 1), RulesRead(rules, r, u)
        PROVE  RulesRead(rules, r + 1, new)
    BY <1>1, <1>2, <2>1, <2>2, <2>8, RulesReadMore
  <2>9. CASE j = 0
    <3>1. file[next] = RuleLines(s, layout)[1]
      BY <2>4, <2>9
    <3>2. /\ next' = next + 1 /\ UNCHANGED <<document, layout, file, paths>>
          /\ currentRule' # 0 /\ config'.default = config.default
          /\ outcome' # "rejected" =>
                config' = [config EXCEPT !.rules = Append(u, RuleRead(s, 1))]
      BY <1>4, <2>3, <3>1, ItemStep
    <3>3. RulesKeys(paths', rules, r + 1)
      <4>1. SettingsKeys(paths', s, 4, 1, 2, 6) /\ j + 1 = 1
        BY <2>9, RuleHeadings
      <4> QED BY <2>7, <4>1
    <3>4. ASSUME outcome' # "rejected", RulesRead(rules, r, u)
          PROVE  /\ config' = [config EXCEPT !.rules = Append(u, RuleRead(s, 1))]
                 /\ RulesRead(rules, r + 1, Append(u, RuleRead(s, 1)))
      <4> DEFINE new == Append(u, RuleRead(s, 1))
      <4>1. Len(u) = n
        BY <2>6, <2>9, <3>4
      <4>2. /\ Len(new) = n + 1 /\ new[n + 1] = RuleRead(s, 1)
            /\ \A m \in 1..n : new[m] = u[m]
        <5> DEFINE S == RuleTypes \cup {RuleRead(s, 1)}
        <5>1. u \in Seq(S) /\ RuleRead(s, 1) \in S
          <6>1. \A m \in 1..Len(u) : u[m] \in S
            BY <1>1, ElementOfSeq
          <6>2. u = [m \in 1..Len(u) |-> u[m]]
            BY <1>1
          <6>3. u \in [1..Len(u) -> S]
            BY ONLY <6>1, <6>2
          <6> QED BY ONLY <1>1, <6>3, FunctionIsSeq DEF S
        <5> HIDE DEF S, u
        <5>2. \A e \in S : /\ Len(Append(u, e)) = Len(u) + 1
                           /\ \A m \in 1..Len(u) : Append(u, e)[m] = u[m]
                           /\ Append(u, e)[Len(u) + 1] = e
          BY <5>1, AppendProperties
        <5> QED BY <4>1, <5>1, <5>2
      <4>3. j + 1 = 1
        BY <2>9
      <4> HIDE DEF new
      <4>4. RulesRead(rules, r + 1, new)
        BY <2>8, <3>4, <4>2, <4>3
      <4> QED BY <3>2, <3>4, <4>4 DEF new
    <3>5. r + 1 > 1 /\ paths'[0] = "rules"
      BY <1>2, <1>4, <3>2
    <3> HIDE DEF u, s
    <3> QED BY <3>2, <3>3, <3>4, <3>5 DEF u
  <2>10. CASE j > 0
    <3>1. j \in 1..12 /\ r > 1 /\ file[next] = Fields(s, 4, 2)[j]
      <4>1. j \in 1..12 /\ r > 1
        BY <2>1, <2>10 DEF RuleSize
      <4>2. s \in [DOMAIN NewRule -> Texts]
        BY <2>3, FieldNames
      <4>3. RuleLines(s, layout)[j + 1] = Fields(s, 4, 2)[j]
        BY <4>1, <4>2, DocumentedRule
      <4> QED BY <2>4, <4>1, <4>3
    <3>2. /\ next' = next + 1 /\ UNCHANGED <<document, layout, file, currentRule>>
          /\ paths'[0] = "rules" /\ SettingsKeys(paths', s, 4, j + 1, 2, 6)
          /\ config'.default = config.default
          /\ outcome' # "rejected" /\ u[Len(u)] = RuleRead(s, j) =>
                config' = [config EXCEPT !.rules =
                   [u EXCEPT ![Len(u)] = RuleRead(s, j + 1)]]
      BY <1>4, <2>3, <2>5, <3>1, RuleStep
    <3>3. RulesKeys(paths', rules, r + 1)
      BY <2>7, <3>2
    <3>4. ASSUME outcome' # "rejected", RulesRead(rules, r, u)
          PROVE  LET new == [u EXCEPT ![Len(u)] = RuleRead(s, j + 1)] IN
                 config' = [config EXCEPT !.rules = new] /\ RulesRead(rules, r + 1, new)
      <4> DEFINE new == [u EXCEPT ![Len(u)] = RuleRead(s, j + 1)]
      <4>1. Len(u) = n + 1 /\ Len(u) \in 1..Len(u)
        BY <1>1, <2>6, <2>10, <3>4
      <4>2. u[Len(u)] = RuleRead(s, j)
        <5> DEFINE a == r - 1 - RuleSize * (Len(u) - 1)
        <5>1. a = j
          BY <1>1, <2>1, <4>1 DEF RuleSize
        <5> HIDE DEF u
        <5>2. u[Len(u)] = RuleRead(rules[Len(u)], a)
          BY <3>4, <4>1 DEF RulesRead
        <5> HIDE DEF a
        <5> QED BY <4>1, <5>1, <5>2
      <4>3. /\ Len(new) = n + 1 /\ new[n + 1] = RuleRead(s, j + 1)
            /\ \A m \in 1..n : new[m] = u[m]
        <5>1. DOMAIN u = 1..n + 1 /\ n + 1 \in 1..n + 1
          BY <1>1, <2>1, <4>1
        <5>2. new = [m \in 1..n + 1 |-> IF m = n + 1 THEN RuleRead(s, j + 1) ELSE u[m]]
          BY <4>1, <5>1
        <5>3. Len(new) = n + 1
          <6> DEFINE f == [m \in 1..n + 1 |->
                             IF m = n + 1 THEN RuleRead(s, j + 1) ELSE u[m]]
                     S == {f[m] : m \in 1..n + 1}
          <6>1. f \in [1..n + 1 -> S] /\ n + 1 \in Nat
            BY <2>1
          <6> HIDE DEF f, S
          <6>2. Len(f) = n + 1
            BY <6>1, FunctionIsSeq
          <6> QED BY <5>2, <6>2 DEF f
        <5> HIDE DEF new
        <5>4. \A m \in 1..n : m \in 1..n + 1 /\ m # n + 1
          BY <2>1
        <5> QED BY <5>1, <5>2, <5>3, <5>4
      <4> HIDE DEF new
      <4>4. RulesRead(rules, r + 1, new)
        BY <2>8, <3>4, <4>3
      <4> QED BY <3>2, <3>4, <4>2, <4>4 DEF new
    <3> QED BY <1>4, <3>1, <3>2, <3>3, <3>4
  <2> QED BY <2>1, <2>9, <2>10
<1> QED BY <1>2, <1>3, <1>4

-----------------------------------------------------------------------------
(* The other blocks, and the version in front of them.                      *)

LEMMA VersionStep ==
    ASSUME TypeOK, Reading, Next, NEW value \in Texts,
           file[next] = Line(0, "version", value)
    PROVE  /\ next' = next + 1 /\ UNCHANGED <<document, layout, file, outcome>>
           /\ currentRule' = 0 /\ config' = [config EXCEPT !.version = Scalar(value)]
<1> DEFINE known == ClearDeeper(0)
<1> HIDE DEF known
<1>1. value # ""
  BY DEF Texts
<1>2. LET k == ClearDeeper(0) IN
      /\ next' = next + 1 /\ UNCHANGED <<document, layout, file>>
      /\ paths' = k
      /\ currentRule' = IF 0 = 0 THEN 0 ELSE currentRule
      /\ IF currentRule # 0 /\ 0 > 2
         THEN SetRuleField(config.rules, RuleField(k, 0, "version"), Scalar(value))
         ELSE SetValue(k, 0, "version", Scalar(value))
  BY <1>1, ReadsValue
<1>3. /\ next' = next + 1 /\ UNCHANGED <<document, layout, file>> /\ currentRule' = 0
      /\ SetValue(known, 0, "version", Scalar(value))
  BY <1>2 DEF known
<1> QED BY <1>3 DEF SetValue, Understand

LEMMA EntryStep ==
    ASSUME TypeOK, Reading, Next, NEW key, key # "", NEW value \in Texts,
           file[next] = Line(2, key, value)
    PROVE  /\ next' = next + 1 /\ UNCHANGED <<document, layout, file, currentRule>>
           /\ paths'[0] = paths[0]
           /\ paths[0] = "audit" /\ key = "path" =>
                 /\ config' = [config EXCEPT !.audit = Scalar(value)]
                 /\ UNCHANGED outcome
           /\ paths[0] = "state" /\ key \in {"backend", "path"} =>
                 /\ config' = [config EXCEPT !.state[key] = Scalar(value)]
                 /\ UNCHANGED outcome
<1> DEFINE known == ClearDeeper(2)
<1>1. value # ""
  BY DEF Texts
<1>2. /\ next' = next + 1 /\ UNCHANGED <<document, layout, file>>
      /\ paths' = known
      /\ currentRule' = IF 2 = 0 THEN 0 ELSE currentRule
      /\ IF currentRule # 0 /\ 2 > 2
         THEN SetRuleField(config.rules, RuleField(known, 2, key), Scalar(value))
         ELSE SetValue(known, 2, key, Scalar(value))
  BY <1>1, ReadsValue
<1>3. known[0] = paths[0]
  <2>1. 2 \in Columns /\ 0 \in Indents /\ 0 < 2
    BY ONLY SmallColumns
  <2>2. \A i \in Indents : i < 2 => known[i] = paths[i]
    BY <2>1, PathsAfter
  <2> HIDE DEF known
  <2> QED BY <2>1, <2>2
<1> HIDE DEF known
<1>4. /\ next' = next + 1 /\ UNCHANGED <<document, layout, file, currentRule>>
      /\ paths'[0] = paths[0] /\ SetValue(known, 2, key, Scalar(value))
  <2>1. ~(2 = 0) /\ ~(2 > 2)
    BY ONLY SmallColumns
  <2> QED BY ONLY <1>2, <1>3, <2>1
<1>5. paths[0] = "audit" /\ key = "path" =>
         config' = [config EXCEPT !.audit = Scalar(value)] /\ UNCHANGED outcome
  BY <1>3, <1>4 DEF SetValue, Understand
<1>6. ASSUME paths[0] = "state", key \in {"backend", "path"}
      PROVE  config' = [config EXCEPT !.state[key] = Scalar(value)] /\ UNCHANGED outcome
  <2>1. DOMAIN config.state = {"backend", "path"}
    BY DEF TypeOK, Configs
  <2> QED BY <1>3, <1>4, <1>6, <2>1 DEF SetValue, Understand
<1> QED BY <1>4, <1>5, <1>6

LEMMA AuditStep ==
    ASSUME TypeOK, Reading, Next, Documented(layout), document \in Documents,
           NEW r \in 0..1, file[next] = Block(document, layout, "audit")[r + 1],
           r > 0 => paths[0] = "audit"
    PROVE  /\ next' = next + 1
           /\ UNCHANGED <<document, layout, file, currentRule, outcome>>
           /\ paths'[0] = "audit"
           /\ config' = IF r = 0 THEN config
                        ELSE [config EXCEPT !.audit = Scalar(document.audit)]
<1>1. CASE r = 0
  <2>1. file[next] = Line(0, "audit", "")
    <3>1. r + 1 = 1
      BY <1>1
    <3> QED BY <3>1, SmallBlock
  <2> QED BY <1>1, <2>1, BlockHead
<1>2. CASE r = 1
  <2>1. file[next] = Line(2, "path", document.audit) /\ document.audit \in Texts
    <3>1. r + 1 = 2 /\ layout.step = 2
      BY <1>2 DEF Documented
    <3>2. Block(document, layout, "audit")[2] = Line(layout.step, "path", document.audit)
      BY SmallBlock
    <3> QED BY <3>1, <3>2, DocumentTyped
  <2>2. paths[0] = "audit"
    BY <1>2
  <2>3. /\ next' = next + 1 /\ UNCHANGED <<document, layout, file, currentRule>>
        /\ paths'[0] = paths[0]
        /\ config' = [config EXCEPT !.audit = Scalar(document.audit)]
        /\ UNCHANGED outcome
    BY <2>1, <2>2, EntryStep
  <2> QED BY <1>2, <2>2, <2>3
<1> QED BY <1>1, <1>2

LEMMA StateStep ==
    ASSUME TypeOK, Reading, Next, Documented(layout), document \in Documents,
           NEW r \in 0..2, file[next] = Block(document, layout, "state")[r + 1],
           r > 0 => paths[0] = "state"
    PROVE  /\ next' = next + 1
           /\ UNCHANGED <<document, layout, file, currentRule, outcome>>
           /\ paths'[0] = "state"
           /\ config' = IF r = 0 THEN config
                        ELSE IF r = 1
                        THEN [config EXCEPT !.state.backend = Scalar(document.state.backend)]
                        ELSE [config EXCEPT !.state.path = Scalar(document.state.path)]
<1>1. CASE r = 0
  <2>1. file[next] = Line(0, "state", "")
    <3>1. r + 1 = 1
      BY <1>1
    <3> QED BY <3>1, SmallBlock
  <2> QED BY <1>1, <2>1, BlockHead
<1>2. CASE r > 0
  <2> DEFINE key == IF r = 1 THEN "backend" ELSE "path"
             value == IF r = 1 THEN document.state.backend ELSE document.state.path
  <2>1. file[next] = Line(2, key, value) /\ value \in Texts /\ key # ""
    <3>1. /\ (r = 1 => r + 1 = 2) /\ (r # 1 => r + 1 = 3) /\ layout.step = 2
      BY <1>2 DEF Documented
    <3>2. /\ Block(document, layout, "state")[2] =
                Line(layout.step, "backend", document.state.backend)
          /\ Block(document, layout, "state")[3] =
                Line(layout.step, "path", document.state.path)
      BY SmallBlock
    <3>3. document.state.backend \in Texts /\ document.state.path \in Texts
      BY DocumentTyped
    <3> QED BY <3>1, <3>2, <3>3
  <2>2. paths[0] = "state" /\ key \in {"backend", "path"}
    BY <1>2
  <2> HIDE DEF key, value
  <2>3. /\ next' = next + 1 /\ UNCHANGED <<document, layout, file, currentRule>>
        /\ paths'[0] = paths[0]
        /\ config' = [config EXCEPT !.state[key] = Scalar(value)]
        /\ UNCHANGED outcome
    BY <2>1, <2>2, EntryStep
  <2>4. config' = IF r = 1
                  THEN [config EXCEPT !.state.backend = Scalar(document.state.backend)]
                  ELSE [config EXCEPT !.state.path = Scalar(document.state.path)]
    BY <2>3 DEF key, value
  <2> QED BY <1>2, <2>2, <2>3, <2>4
<1> QED BY <1>1, <1>2

-----------------------------------------------------------------------------
(* The invariant, step by step.                                             *)

(* Before the first line of a block: nothing of it has been read.           *)
LEMMA NothingRead ==
    ASSUME NEW d, NEW rules, Len(rules) \in Nat
    PROVE  DefaultRead(d, 0) = ZeroPolicy /\ RulesRead(rules, 0, <<>>)
<1>1. \A k \in PolicyFields : ~(DefaultAt[k] <= 0)
  BY DefaultPositions
<1>2. ZeroPolicy = [k \in PolicyFields |-> ZeroPolicy[k]]
  BY FieldNames DEF ZeroPolicy
<1>3. DefaultRead(d, 0) = ZeroPolicy
  BY <1>1, <1>2 DEF DefaultRead
<1>4. RulesRead(rules, 0, <<>>)
  <2>1. Len(<<>>) = 0 /\ 0 <= Len(rules) /\ 0 <= RuleSize * 0 + 1
    BY DEF RuleSize
  <2> QED BY <2>1 DEF RulesRead
<1> QED BY <1>3, <1>4

LEMMA FirstLine ==
    ASSUME TypeOK, Reading, Next, UnderstoodSoFar, Documented(layout), next = 1
    PROVE  UnderstoodSoFar'
<1>1. document \in Documents /\ layout \in Layouts /\ document.version \in Texts
  BY DocumentTyped DEF TypeOK
<1>2. file = FileOf(document, layout) /\ config = ZeroConfig /\ outcome = "none"
  BY DEF UnderstoodSoFar, Reading
<1>3. file[next] = Line(0, "version", document.version)
  BY <1>1, <1>2, FileLines
<1>4. /\ next' = next + 1 /\ UNCHANGED <<document, layout, file, outcome>>
      /\ currentRule' = 0
      /\ config' = [config EXCEPT !.version = Scalar(document.version)]
  BY <1>1, <1>3, VersionStep
<1>5. next' = 2 /\ next' - 1 = 1
  BY <1>4
<1>6. \A name \in BlockNames : Passing(name)' = 0
  BY <1>1, <1>4, <1>5, Ends DEF Passing
<1> USE <1>6 DEF BlockNames
<1>7. KeysRead'
  <2>1. \A name \in BlockNames : ~(0 \in 1..Size(document, name) - 1)
    BY <1>1, BlockTyped
  <2>2. DefaultKeys(paths', document.default, 0)
    BY DefaultHeadings
  <2>3. RulesKeys(paths', document.rules, 0)
    <3>1. 0 \in 0..1 /\ Len(document.rules) \in Nat
      BY <1>1, DocumentTyped
    <3> QED BY <3>1, RulesKeysFirst
  <2> QED BY <1>4, <2>1, <2>2, <2>3 DEF KeysRead
<1>8. config' = [ZeroConfig EXCEPT !.version = Scalar(document.version)]
  BY <1>2, <1>4
<1>9. /\ config'.version = Scalar(document.version) /\ config'.default = ZeroPolicy
      /\ config'.rules = <<>> /\ config'.audit = "" /\ config'.state.backend = ""
      /\ config'.state.path = "" /\ config'.default.action = ""
  BY <1>8 DEF ZeroConfig, ZeroPolicy
<1>10. ConfigRead'
  <2>1. /\ DefaultRead(document.default, 0) = ZeroPolicy
        /\ RulesRead(document.rules, 0, <<>>)
    BY <1>1, DocumentTyped, NothingRead
  <2>2. /\ Passing("default_policy")' = 0 /\ Passing("rules")' = 0
        /\ Passing("audit")' = 0 /\ Passing("state")' = 0
    BY <1>6
  <2>3. (config.version = Scalar(document.version))'
    BY <1>4, <1>9
  <2>4. (config.default = DefaultRead(document.default, Passing("default_policy")))'
    BY <1>4, <1>9, <2>1, <2>2
  <2>5. RulesRead(document.rules, Passing("rules"), config.rules)'
    BY <1>4, <1>9, <2>1, <2>2
  <2>6. /\ (config.audit = IF Passing("audit") >= 2 THEN Scalar(document.audit) ELSE "")'
        /\ (config.state.backend =
               IF Passing("state") >= 2 THEN Scalar(document.state.backend) ELSE "")'
        /\ (config.state.path =
               IF Passing("state") >= 3 THEN Scalar(document.state.path) ELSE "")'
    <3>1. ~(Passing("audit")' >= 2) /\ ~(Passing("state")' >= 2) /\ ~(Passing("state")' >= 3)
      BY ONLY <2>2
    <3> QED BY ONLY <1>9, <3>1
  <2> QED BY <2>3, <2>4, <2>5, <2>6 DEF ConfigRead
<1>11. (currentRule # 0 <=> Passing("rules") > 1)'
  BY <1>4
<1>12. (outcome # "rejected" =>
           IF RulesFirst THEN config.default.action = "" ELSE ConfigRead)'
  BY <1>9, <1>10
<1>13. (next = 1 => config = ZeroConfig /\ currentRule = 0)'
       /\ (outcome = "accepted" => next = Len(file) + 1 /\ Valid)'
       /\ (file = FileOf(document, layout))'
  BY <1>2, <1>4, <1>5
<1> QED BY <1>7, <1>11, <1>12, <1>13 DEF UnderstoodSoFar

(* The block the next line is in, and how the others stand to it.           *)
LEMMA InOneBlock ==
    ASSUME TypeOK, Reading, file = FileOf(document, layout), next > 1
    PROVE  \E name \in BlockNames :
              /\ Passing(name) \in 0..Size(document, name) - 1
              /\ file[next] = Block(document, layout, name)[Passing(name) + 1]
              /\ Passed(document, layout, next, name) = Passing(name) + 1
              /\ \A other \in BlockNames \ {name} :
                    /\ Passed(document, layout, next, other) = Passing(other)
                    /\ Place(layout, other) < Place(layout, name) =>
                          Passing(other) = Size(document, other)
                    /\ Place(layout, name) < Place(layout, other) => Passing(other) = 0
                    /\ Passing(other) \in {0, Size(document, other)}
<1>1. document \in Documents /\ layout \in Layouts
  BY DEF TypeOK
<1>2. next \in 1..Len(file) /\ Len(file) \in Nat
  BY ReadingPlace, LinesOfFile DEF TypeOK
<1> DEFINE n == next - 1
<1>3. n \in Nat /\ n >= 1 /\ n < Len(FileOf(document, layout)) /\ n + 1 = next
  BY <1>2
<1> HIDE DEF n
<1>4. PICK name \in BlockNames :
         /\ Passed(document, layout, n, name) \in 0..Size(document, name) - 1
         /\ FileOf(document, layout)[n + 1] =
               Block(document, layout, name)[Passed(document, layout, n, name) + 1]
         /\ Passed(document, layout, n + 1, name) = Passed(document, layout, n, name) + 1
         /\ \A other \in BlockNames \ {name} :
               /\ Passed(document, layout, n + 1, other) = Passed(document, layout, n, other)
               /\ Place(layout, other) < Place(layout, name) =>
                     Passed(document, layout, n, other) = Size(document, other)
               /\ Place(layout, name) < Place(layout, other) =>
                     Passed(document, layout, n, other) = 0
  BY <1>1, <1>3, NextLine
<1>5. \A nm : Passing(nm) = Passed(document, layout, n, nm)
  BY DEF Passing, n
<1>6. \A other \in BlockNames \ {name} :
         \/ Place(layout, other) < Place(layout, name)
         \/ Place(layout, name) < Place(layout, other)
  <2> TAKE other \in BlockNames \ {name}
  <2>1. /\ Place(layout, name) \in 1..4 /\ layout.order[Place(layout, name)] = name
        /\ Place(layout, other) \in 1..4 /\ layout.order[Place(layout, other)] = other
    BY <1>1, Places
  <2>2. Place(layout, other) # Place(layout, name)
    BY <2>1
  <2> QED BY <2>1, <2>2
<1> QED BY <1>3, <1>4, <1>5, <1>6

LEMMA ReadingOn ==
    ASSUME TypeOK, Reading, Next
    PROVE  /\ outcome = "none" /\ outcome' \in {"none", "rejected"}
           /\ next' = next + 1 /\ UNCHANGED <<document, layout, file>>
<1>1. ~Finish
  BY ReadingPlace DEF Finish
<1>2. ReadBlank \/ ReadItem \/ ReadKey \/ ReadValue
  BY <1>1 DEF Next
<1>3. outcome = "none"
  BY DEF Reading
<1>4. outcome' \in {outcome, "rejected"}
  BY <1>2 DEF ReadBlank, ReadItem, ReadKey, ReadValue, SetRuleField, SetValue,
              Understand, Reject
<1>5. next' = next + 1 /\ UNCHANGED <<document, layout, file>>
  BY <1>2 DEF ReadBlank, ReadItem, ReadKey, ReadValue
<1> QED BY <1>3, <1>4, <1>5

(* What a line of a block changes, by the block it is in.                   *)
LEMMA LineOfDefault ==
    ASSUME TypeOK, Reading, Next, UnderstoodSoFar, Documented(layout), next > 1,
           Passing("default_policy") \in 0..18,
           file[next] = Block(document, layout, "default_policy")
                           [Passing("default_policy") + 1]
    PROVE  LET r == Passing("default_policy") IN
           /\ UNCHANGED currentRule /\ paths'[0] = "default_policy"
           /\ DefaultKeys(paths', document.default, r + 1)
           /\ outcome' # "rejected" =>
                 IF currentRule # 0 THEN config'.default = config.default
                 ELSE config.default = DefaultRead(document.default, r) =>
                         config' = [config EXCEPT !.default =
                                       DefaultRead(document.default, r + 1)]
<1> DEFINE r == Passing("default_policy")
           d == document.default
<1>1. document \in Documents /\ d \in [PolicyFields -> Texts]
  BY DocumentTyped, FieldNames DEF TypeOK
<1>2. file[next] = DefaultLines(d, 2)[r + 1]
  <2>1. layout.step = 2
    BY DEF Documented
  <2>2. Block(document, layout, "default_policy") = DefaultLines(d, layout.step)
    BY DEF Block
  <2> QED BY <2>1, <2>2
<1>3. KeysRead
  BY DEF UnderstoodSoFar
<1>4. DefaultKeys(paths, d, r)
  <2>1. r < 19
    BY SMT
  <2> QED BY <1>3, <2>1 DEF KeysRead
<1>5. r > 0 => paths[0] = "default_policy"
  <2>1. "default_policy" \in BlockNames /\ Size(document, "default_policy") = 19
    BY DEF BlockNames, Size
  <2>2. r > 0 => r \in 1..19 - 1
    BY SMT
  <2> QED BY <1>3, <2>1, <2>2 DEF KeysRead
<1>6. r \in 0..18
  OBVIOUS
<1> HIDE DEF r, d
<1>7. /\ next' = next + 1 /\ UNCHANGED <<document, layout, file, currentRule>>
      /\ paths'[0] = "default_policy" /\ DefaultKeys(paths', d, r + 1)
      /\ outcome' # "rejected" =>
            IF currentRule # 0 THEN config'.default = config.default
            ELSE config.default = DefaultRead(d, r) =>
                    config' = [config EXCEPT !.default = DefaultRead(d, r + 1)]
  BY <1>1, <1>2, <1>4, <1>5, <1>6, DefaultStep
<1> QED BY <1>7 DEF r, d

LEMMA LineOfRules ==
    ASSUME TypeOK, Reading, Next, UnderstoodSoFar, Documented(layout), next > 1,
           Passing("rules") \in 0..Size(document, "rules") - 1,
           file[next] = Block(document, layout, "rules")[Passing("rules") + 1]
    PROVE  LET r == Passing("rules") IN
           /\ (currentRule' # 0 <=> r + 1 > 1) /\ paths'[0] = "rules"
           /\ RulesKeys(paths', document.rules, r + 1)
           /\ config'.default = config.default
           /\ outcome' # "rejected" /\ RulesRead(document.rules, r, config.rules) =>
                 \E list : /\ config' = [config EXCEPT !.rules = list]
                           /\ RulesRead(document.rules, r + 1, list)
<1> DEFINE r == Passing("rules")
           rules == document.rules
<1>1. /\ document \in Documents /\ layout \in Layouts /\ Len(rules) \in Nat
      /\ rules \in Seq([DOMAIN NewRule -> Texts])
  BY DocumentTyped DEF TypeOK
<1>2. Size(document, "rules") = 1 + RuleSize * Len(rules)
  BY DEF Size
<1>3. r \in 0..RuleSize * Len(rules) /\ r < Size(document, "rules")
  BY <1>1, <1>2 DEF RuleSize
<1>4. file[next] = RulesLines(rules, layout)[r + 1]
  BY DEF Block
<1>5. KeysRead /\ (currentRule # 0 <=> r > 1)
  BY DEF UnderstoodSoFar
<1>6. RulesKeys(paths, rules, r)
  BY <1>3, <1>5 DEF KeysRead
<1>7. r > 0 => paths[0] = "rules"
  <2>1. "rules" \in BlockNames
    BY DEF BlockNames
  <2>2. r > 0 => r \in 1..Size(document, "rules") - 1
    BY <1>1, <1>2, <1>3 DEF RuleSize
  <2> QED BY <1>5, <2>1, <2>2 DEF KeysRead
<1> HIDE DEF r, rules
<1>8. /\ next' = next + 1 /\ UNCHANGED <<document, layout, file>>
      /\ (currentRule' # 0 <=> r + 1 > 1)
      /\ paths'[0] = "rules" /\ RulesKeys(paths', rules, r + 1)
      /\ config'.default = config.default
      /\ outcome' # "rejected" /\ RulesRead(rules, r, config.rules) =>
            \E list : /\ config' = [config EXCEPT !.rules = list]
                      /\ RulesRead(rules, r + 1, list)
  BY <1>1, <1>3, <1>4, <1>5, <1>6, <1>7, RulesStep
<1> QED BY <1>8 DEF r, rules

LEMMA LineOfOther ==
    ASSUME TypeOK, Reading, Next, UnderstoodSoFar, Documented(layout), next > 1,
           NEW name \in {"audit", "state"},
           Passing(name) \in 0..Size(document, name) - 1,
           file[next] = Block(document, layout, name)[Passing(name) + 1]
    PROVE  LET r == Passing(name) IN
           /\ UNCHANGED currentRule /\ paths'[0] = name
           /\ config' =
                 IF r = 0 THEN config
                 ELSE IF name = "audit"
                 THEN [config EXCEPT !.audit = Scalar(document.audit)]
                 ELSE IF r = 1
                 THEN [config EXCEPT !.state.backend = Scalar(document.state.backend)]
                 ELSE [config EXCEPT !.state.path = Scalar(document.state.path)]
<1> DEFINE r == Passing(name)
<1>1. document \in Documents /\ layout \in Layouts
  BY DEF TypeOK
<1>2. KeysRead
  BY DEF UnderstoodSoFar
<1>3. /\ Size(document, "audit") = 2 /\ Size(document, "state") = 3
      /\ name \in BlockNames
  BY DEF Size, BlockNames
<1>4. r \in 0..2 /\ (name = "audit" => r \in 0..1) /\ (r > 0 => r \in 1..Size(document, name) - 1)
  BY <1>3
<1>5. r > 0 => paths[0] = name
  BY <1>2, <1>3, <1>4 DEF KeysRead
<1>6. file[next] = Block(document, layout, name)[r + 1]
  OBVIOUS
<1> HIDE DEF r
<1>7. CASE name = "audit"
  <2>1. /\ next' = next + 1
        /\ UNCHANGED <<document, layout, file, currentRule, outcome>>
        /\ paths'[0] = "audit"
        /\ config' = IF r = 0 THEN config
                     ELSE [config EXCEPT !.audit = Scalar(document.audit)]
    BY <1>1, <1>4, <1>5, <1>6, <1>7, AuditStep
  <2> QED BY <1>7, <2>1 DEF r
<1>8. CASE name = "state"
  <2>1. /\ next' = next + 1
        /\ UNCHANGED <<document, layout, file, currentRule, outcome>>
        /\ paths'[0] = "state"
        /\ config' = IF r = 0 THEN config
                     ELSE IF r = 1
                     THEN [config EXCEPT !.state.backend = Scalar(document.state.backend)]
                     ELSE [config EXCEPT !.state.path = Scalar(document.state.path)]
    BY <1>1, <1>4, <1>5, <1>6, <1>8, StateStep
  <2> QED BY <1>8, <2>1 DEF r
<1> QED BY <1>7, <1>8

LEMMA LaterLine ==
    ASSUME TypeOK, Reading, Next, UnderstoodSoFar, Documented(layout), next > 1
    PROVE  UnderstoodSoFar'
<1>1. /\ document \in Documents /\ layout \in Layouts
      /\ file = FileOf(document, layout) /\ Len(document.rules) \in Nat
      /\ next \in Nat /\ config \in Configs
  <2>1. file = FileOf(document, layout)
    BY DEF UnderstoodSoFar
  <2>2. /\ document \in Documents /\ layout \in Layouts /\ config \in Configs
        /\ next \in 1..Len(file) + 1 /\ file \in Seq(Lines)
    BY DEF TypeOK
  <2>3. Len(file) \in Nat /\ Len(document.rules) \in Nat
    BY <2>2, LinesOfFile, DocumentTyped
  <2>4. next \in Nat
    BY ONLY <2>2, <2>3
  <2> QED BY <2>1, <2>2, <2>3, <2>4
<1>2. /\ outcome = "none" /\ outcome' \in {"none", "rejected"}
      /\ next' = next + 1 /\ UNCHANGED <<document, layout, file>>
  BY ReadingOn
<1>3. PICK name \in BlockNames :
         /\ Passing(name) \in 0..Size(document, name) - 1
         /\ file[next] = Block(document, layout, name)[Passing(name) + 1]
         /\ Passed(document, layout, next, name) = Passing(name) + 1
         /\ \A other \in BlockNames \ {name} :
               /\ Passed(document, layout, next, other) = Passing(other)
               /\ Place(layout, other) < Place(layout, name) =>
                     Passing(other) = Size(document, other)
               /\ Place(layout, name) < Place(layout, other) => Passing(other) = 0
               /\ Passing(other) \in {0, Size(document, other)}
  BY <1>1, InOneBlock
<1>4. /\ Passing(name)' = Passing(name) + 1
      /\ \A other \in BlockNames \ {name} : Passing(other)' = Passing(other)
  <2>1. next' - 1 = next
    BY <1>1, <1>2
  <2>2. \A nm \in BlockNames : Passing(nm)' = Passed(document, layout, next, nm)
    BY <1>2, <2>1 DEF Passing
  <2> QED BY <1>3, <2>2
<1>5. /\ \A nm \in BlockNames : Size(document, nm) \in Nat /\ Size(document, nm) >= 1
      /\ Size(document, "default_policy") = 19
      /\ Size(document, "rules") = 1 + RuleSize * Len(document.rules)
  BY <1>1, BlockTyped DEF Size
<1>6. /\ KeysRead /\ (currentRule # 0 <=> Passing("rules") > 1)
      /\ IF RulesFirst THEN config.default.action = "" ELSE ConfigRead
  BY <1>2 DEF UnderstoodSoFar
<1>7. /\ "default_policy" \in BlockNames /\ "rules" \in BlockNames
      /\ "audit" \in BlockNames /\ "state" \in BlockNames
      /\ name \in {"default_policy", "rules", "audit", "state"}
  BY DEF BlockNames
(* The four blocks. *)
<1>8. ASSUME name = "default_policy"
      PROVE  /\ UNCHANGED currentRule /\ paths'[0] = "default_policy"
             /\ DefaultKeys(paths', document.default, Passing("default_policy") + 1)
             /\ outcome' # "rejected" =>
                   IF currentRule # 0 THEN config'.default = config.default
                   ELSE config.default =
                           DefaultRead(document.default, Passing("default_policy")) =>
                           config' = [config EXCEPT !.default =
                              DefaultRead(document.default, Passing("default_policy") + 1)]
  <2>1. /\ Passing("default_policy") \in 0..18
        /\ file[next] = Block(document, layout, "default_policy")
                           [Passing("default_policy") + 1]
    BY <1>3, <1>5, <1>8
  <2> QED BY <2>1, LineOfDefault
<1>9. ASSUME name = "rules"
      PROVE  /\ (currentRule' # 0 <=> Passing("rules") + 1 > 1) /\ paths'[0] = "rules"
             /\ RulesKeys(paths', document.rules, Passing("rules") + 1)
             /\ config'.default = config.default
             /\ outcome' # "rejected"
                /\ RulesRead(document.rules, Passing("rules"), config.rules) =>
                   \E list : /\ config' = [config EXCEPT !.rules = list]
                             /\ RulesRead(document.rules, Passing("rules") + 1, list)
  <2>1. /\ Passing("rules") \in 0..Size(document, "rules") - 1
        /\ file[next] = Block(document, layout, "rules")[Passing("rules") + 1]
    BY <1>3, <1>9
  <2> QED BY <2>1, LineOfRules
<1>10. ASSUME name \in {"audit", "state"}
       PROVE  /\ UNCHANGED currentRule /\ paths'[0] = name
              /\ config' =
                    IF Passing(name) = 0 THEN config
                    ELSE IF name = "audit"
                    THEN [config EXCEPT !.audit = Scalar(document.audit)]
                    ELSE IF Passing(name) = 1
                    THEN [config EXCEPT !.state.backend = Scalar(document.state.backend)]
                    ELSE [config EXCEPT !.state.path = Scalar(document.state.path)]
  BY <1>3, <1>10, LineOfOther
(* The keys. *)
<1>11. KeysRead'
  <2>1. \A nm \in BlockNames : Passing(nm)' \in 1..Size(document, nm) - 1 => paths'[0] = nm
    <3> TAKE nm \in BlockNames
    <3>1. CASE nm = name
      BY <1>7, <1>8, <1>9, <1>10, <3>1
    <3>2. CASE nm # name
      <4>1. Passing(nm)' \in {0, Size(document, nm)} /\ Size(document, nm) \in Nat
        BY <1>3, <1>4, <1>5, <3>2
      <4> QED BY <4>1
    <3> QED BY <3>1, <3>2
  <2>2. Passing("default_policy")' < 19 =>
           DefaultKeys(paths', document.default, Passing("default_policy")')
    <3>1. CASE name = "default_policy"
      BY <1>4, <1>8, <3>1
    <3>2. CASE name # "default_policy"
      <4>1. Passing("default_policy")' \in {0, 19}
        BY <1>3, <1>4, <1>5, <1>7, <3>2
      <4>2. DefaultKeys(paths', document.default, 0) /\ ~(19 < 19)
        BY DefaultHeadings
      <4> QED BY <4>1, <4>2
    <3> QED BY <3>1, <3>2
  <2>3. Passing("rules")' < Size(document, "rules") =>
           RulesKeys(paths', document.rules, Passing("rules")')
    <3>1. CASE name = "rules"
      BY <1>4, <1>9, <3>1
    <3>2. CASE name # "rules"
      <4>1. Passing("rules")' \in {0, Size(document, "rules")}
        BY <1>3, <1>4, <1>7, <3>2
      <4>2. RulesKeys(paths', document.rules, 0)
        <5>1. 0 \in 0..1
          OBVIOUS
        <5> QED BY <1>1, <5>1, RulesKeysFirst
      <4>3. ~(Size(document, "rules") < Size(document, "rules"))
        BY <1>5, <1>7
      <4> QED BY <4>1, <4>2, <4>3
    <3> QED BY <3>1, <3>2
  <2> QED BY <1>2, <2>1, <2>2, <2>3 DEF KeysRead
(* The rule that values go to. *)
<1>12. currentRule' # 0 <=> Passing("rules")' > 1
  <2>1. CASE name = "rules"
    BY <1>4, <1>9, <2>1
  <2>2. CASE name # "rules"
    <3>1. UNCHANGED currentRule
      BY <1>7, <1>8, <1>10, <2>2
    <3> QED BY <1>4, <1>6, <1>7, <2>2, <3>1
  <2> QED BY <2>1, <2>2
(* What has been understood. *)
<1>13. ASSUME outcome' # "rejected", RulesFirst PROVE config'.default.action = ""
  <2>1. config'.default = config.default
    <3>1. CASE name = "default_policy"
      <4>1. Passing("rules") = Size(document, "rules")
        BY <1>3, <1>7, <1>13, <3>1 DEF RulesFirst
      <4>2. Len(document.rules) # 0
        <5>1. document.rules \in Seq([DOMAIN NewRule -> Texts])
          BY <1>1, DocumentTyped
        <5> QED BY <1>13, <5>1, EmptySeq DEF RulesFirst
      <4>3. Passing("rules") > 1
        BY <1>1, <1>5, <4>1, <4>2 DEF RuleSize
      <4> QED BY <1>6, <1>8, <1>13, <3>1, <4>3
    <3>2. CASE name = "rules"
      BY <1>9, <3>2
    <3>3. CASE name \in {"audit", "state"}
      BY <1>1, <1>10, <3>3 DEF Configs
    <3> QED BY <1>7, <3>1, <3>2, <3>3
  <2> QED BY <1>6, <1>13, <2>1
<1>14. ASSUME outcome' # "rejected", ~RulesFirst PROVE ConfigRead'
  <2> DEFINE d == document.default
             rules == document.rules
             s == document.state
             pd == Passing("default_policy")
             pr == Passing("rules")
             pa == Passing("audit")
             ps == Passing("state")
  <2>1. /\ config.version = Scalar(document.version)
        /\ config.default = DefaultRead(d, pd)
        /\ RulesRead(rules, pr, config.rules)
        /\ config.audit = IF pa >= 2 THEN Scalar(document.audit) ELSE ""
        /\ config.state.backend = IF ps >= 2 THEN Scalar(s.backend) ELSE ""
        /\ config.state.path = IF ps >= 3 THEN Scalar(s.path) ELSE ""
    BY <1>6, <1>14 DEF ConfigRead
  <2>2. SUFFICES
           /\ config'.version = Scalar(document.version)
           /\ config'.default = DefaultRead(d, pd')
           /\ RulesRead(rules, pr', config'.rules)
           /\ config'.audit = IF pa' >= 2 THEN Scalar(document.audit) ELSE ""
           /\ config'.state.backend = IF ps' >= 2 THEN Scalar(s.backend) ELSE ""
           /\ config'.state.path = IF ps' >= 3 THEN Scalar(s.path) ELSE ""
    BY <1>2 DEF ConfigRead
  <2>3. /\ name # "default_policy" => pd' = pd
        /\ name # "rules" => pr' = pr
        /\ name # "audit" => pa' = pa
        /\ name # "state" => ps' = ps
    BY <1>4, <1>7
  <2>4. CASE name = "default_policy"
    <3>1. currentRule = 0
      <4>1. CASE rules = <<>>
        <5>1. Size(document, "rules") = 1
          BY <1>5, <4>1 DEF RuleSize
        <5>2. pr \in {0, 1}
          BY <1>3, <1>7, <2>4, <5>1
        <5>3. ~(pr > 1)
          BY ONLY <5>2
        <5> QED BY <1>6, <5>3
      <4>2. CASE rules # <<>>
        <5>1. Place(layout, "default_policy") < Place(layout, "rules")
          <6>1. /\ Place(layout, "default_policy") \in 1..4
                /\ Place(layout, "rules") \in 1..4
                /\ layout.order[Place(layout, "default_policy")] = "default_policy"
                /\ layout.order[Place(layout, "rules")] = "rules"
            BY <1>1, <1>7, Places
          <6>2. Place(layout, "default_policy") # Place(layout, "rules")
            BY <6>1
          <6>3. ~(Place(layout, "rules") < Place(layout, "default_policy"))
            BY <1>14, <4>2 DEF RulesFirst
          <6> QED BY <6>1, <6>2, <6>3
        <5>2. pr = 0
          BY <1>3, <1>7, <2>4, <5>1
        <5>3. ~(pr > 1)
          BY ONLY <5>2
        <5> QED BY <1>6, <5>3
      <4> QED BY <4>1, <4>2
    <3>2. config' = [config EXCEPT !.default = DefaultRead(d, pd + 1)] /\ pd' = pd + 1
      BY <1>4, <1>8, <1>14, <2>1, <2>4, <3>1
    <3>3. /\ config'.default = DefaultRead(d, pd + 1) /\ config'.version = config.version
          /\ config'.rules = config.rules /\ config'.audit = config.audit
          /\ config'.state = config.state
      BY ONLY <1>1, <3>2 DEF Configs
    <3> QED BY <2>1, <2>3, <2>4, <3>2, <3>3
  <2>5. CASE name = "rules"
    <3>1. PICK list : /\ config' = [config EXCEPT !.rules = list]
                      /\ RulesRead(rules, pr + 1, list)
      BY <1>9, <1>14, <2>1, <2>5
    <3>2. /\ config'.rules = list /\ config'.version = config.version
          /\ config'.default = config.default /\ config'.audit = config.audit
          /\ config'.state = config.state
      BY ONLY <1>1, <3>1 DEF Configs
    <3>3. pr' = pr + 1
      BY <1>4, <2>5
    <3> QED BY <2>1, <2>3, <2>5, <3>1, <3>2, <3>3
  <2>6. CASE name = "audit"
    <3>1. pa \in 0..1 /\ pa' = pa + 1
      BY <1>3, <1>4, <2>6 DEF Size
    <3>2. config' = IF pa = 0 THEN config ELSE [config EXCEPT !.audit = Scalar(document.audit)]
      BY <1>10, <2>6
    <3>3. /\ config'.audit = IF pa = 0 THEN config.audit ELSE Scalar(document.audit)
          /\ config'.version = config.version /\ config'.default = config.default
          /\ config'.rules = config.rules /\ config'.state = config.state
      BY ONLY <1>1, <3>2 DEF Configs
    <3> HIDE DEF pa
    <3>4. config'.audit = IF pa' >= 2 THEN Scalar(document.audit) ELSE ""
      <4>1. (pa = 0 /\ ~(pa >= 2) /\ ~(pa' >= 2)) \/ (pa = 1 /\ pa # 0 /\ pa' >= 2)
        BY ONLY <3>1
      <4> QED BY ONLY <2>1, <3>3, <4>1
    <3> QED BY <2>1, <2>3, <2>6, <3>3, <3>4
  <2>7. CASE name = "state"
    <3>1. ps \in 0..2 /\ ps' = ps + 1
      BY <1>3, <1>4, <2>7 DEF Size
    <3>2. config' = IF ps = 0 THEN config
                    ELSE IF ps = 1 THEN [config EXCEPT !.state.backend = Scalar(s.backend)]
                    ELSE [config EXCEPT !.state.path = Scalar(s.path)]
      BY <1>10, <2>7
    <3>3. /\ config'.audit = config.audit
          /\ config'.version = config.version /\ config'.default = config.default
          /\ config'.rules = config.rules
          /\ config'.state.backend = IF ps = 1 THEN Scalar(s.backend) ELSE config.state.backend
          /\ config'.state.path = IF ps = 2 THEN Scalar(s.path) ELSE config.state.path
      BY ONLY <1>1, <3>1, <3>2 DEF Configs
    <3>4. /\ config'.state.backend = IF ps' >= 2 THEN Scalar(s.backend) ELSE ""
          /\ config'.state.path = IF ps' >= 3 THEN Scalar(s.path) ELSE ""
      <4>1. \/ ps = 0 /\ ~(ps >= 2) /\ ~(ps >= 3) /\ ~(ps' >= 2) /\ ~(ps' >= 3)
            \/ ps = 1 /\ ps # 2 /\ ~(ps >= 2) /\ ~(ps >= 3) /\ ps' >= 2 /\ ~(ps' >= 3)
            \/ ps = 2 /\ ps # 1 /\ ps >= 2 /\ ~(ps >= 3) /\ ps' >= 2 /\ ps' >= 3
        BY ONLY <3>1
      <4>2. 0 # 1 /\ 0 # 2
        BY ONLY <3>1
      <4> QED BY ONLY <2>1, <3>3, <4>1, <4>2
    <3> QED BY <2>1, <2>3, <2>7, <3>3, <3>4
  <2> QED BY <1>7, <2>4, <2>5, <2>6, <2>7
(* Nothing else is said of a line that is read. *)
<1>15. (next = 1 => config = ZeroConfig /\ currentRule = 0)'
       /\ (outcome = "accepted" => next = Len(file) + 1 /\ Valid)'
       /\ (file = FileOf(document, layout))'
  <2>1. next' # 1
    BY <1>1, <1>2
  <2> QED BY <1>1, <1>2, <2>1
<1>16. RulesFirst' <=> RulesFirst
  BY <1>2 DEF RulesFirst
<1>17. (outcome # "rejected" =>
           IF RulesFirst THEN config.default.action = "" ELSE ConfigRead)'
  BY <1>13, <1>14, <1>16
<1> QED BY <1>11, <1>12, <1>15, <1>17 DEF UnderstoodSoFar

LEMMA SameReading ==
    ASSUME UNCHANGED <<document, layout, file, next, paths, currentRule, config>>
    PROVE  /\ \A name : Passing(name)' = Passing(name)
           /\ (KeysRead' <=> KeysRead)
           /\ (ConfigRead' <=> ConfigRead)
           /\ (RulesFirst' <=> RulesFirst)
           /\ (Valid' <=> Valid)
<1>1. \A name : Passing(name)' = Passing(name)
  BY DEF Passing
<1> QED BY <1>1 DEF KeysRead, ConfigRead, RulesFirst, Valid, ValidRule

LEMMA UnderstoodStep ==
    ASSUME TypeOK, UnderstoodSoFar, [Next]_vars
    PROVE  UnderstoodSoFar'
<1>1. CASE Reading /\ Next
  <2>1. next \in 1..Len(file) /\ next \in Nat
    BY <1>1, ReadingPlace, LinesOfFile DEF TypeOK
  <2>2. CASE Documented(layout) /\ next = 1
    BY <1>1, <2>2, FirstLine
  <2>3. CASE Documented(layout) /\ next # 1
    <3>1. next > 1
      BY <2>1, <2>3
    <3> QED BY <1>1, <2>3, <3>1, LaterLine
  <2>4. CASE ~Documented(layout)
    <3>1. /\ outcome' \in {"none", "rejected"}
          /\ next' = next + 1 /\ UNCHANGED <<document, layout, file>>
      BY <1>1, ReadingOn
    <3>2. next' # 1
      BY <2>1, <3>1
    <3> QED BY <2>4, <3>1, <3>2 DEF UnderstoodSoFar
  <2> QED BY <2>2, <2>3, <2>4
<1>2. CASE ~Reading /\ Next
  <2>1. Finish
    BY <1>2 DEF Next, ReadBlank, ReadItem, ReadKey, ReadValue
  <2>2. /\ outcome = "none" /\ next = Len(file) + 1
        /\ outcome' = IF Valid THEN "accepted" ELSE "rejected"
        /\ UNCHANGED <<document, layout, file, next, paths, currentRule, config>>
    BY <2>1 DEF Finish
  <2> QED BY <2>2, SameReading DEF UnderstoodSoFar
<1>3. CASE UNCHANGED vars
  <2>1. /\ UNCHANGED <<document, layout, file, next, paths, currentRule, config>>
        /\ UNCHANGED outcome
    BY <1>3 DEF vars
  <2> QED BY <2>1, SameReading DEF UnderstoodSoFar
<1> QED BY <1>1, <1>2, <1>3

-----------------------------------------------------------------------------
(* A file that was accepted.                                                *)

LEMMA AllPassed ==
    ASSUME TypeOK, UnderstoodSoFar, outcome = "accepted"
    PROVE  /\ Valid /\ next > 1
           /\ \A name \in BlockNames : Passing(name) = Size(document, name)
<1>1. document \in Documents /\ layout \in Layouts /\ Len(file) \in Nat
  BY LinesOfFile DEF TypeOK
<1>2. file = FileOf(document, layout) /\ next = Len(file) + 1 /\ Valid
  BY DEF UnderstoodSoFar
<1>3. next - 1 = Len(FileOf(document, layout))
  BY <1>1, <1>2
<1>4. \A name \in BlockNames : Passing(name) = Size(document, name)
  BY <1>1, <1>3, Ends DEF Passing
<1>5. Len(file) >= 1
  <2>1. 4 \in 1..4
    OBVIOUS
  <2>2. /\ Offset(document, layout, 4) \in Nat /\ Offset(document, layout, 4) >= 1
        /\ Offset(document, layout, 4) + Size(document, layout.order[4]) <= Len(file)
    BY <1>1, <1>2, <2>1, Offsets
  <2>3. Size(document, layout.order[4]) \in Nat
    BY <1>1, <2>1, LayoutTyped, BlockTyped
  <2> QED BY <1>1, <2>2, <2>3
<1>6. next > 1
  BY <1>1, <1>2, <1>5
<1> QED BY <1>2, <1>4, <1>6

(* All lines of the default policy, and of a rule.                          *)
LEMMA WholeDefault ==
    ASSUME NEW d
    PROVE  DefaultRead(d, 19) = Filled(d)
<1>1. \A k \in PolicyFields : DefaultAt[k] <= 19
  BY DefaultPositions
<1> QED BY <1>1, FieldNames DEF DefaultRead, Filled

LEMMA ScalarSet == \A value : Scalar(value) = Unset <=> value = Unset
BY DEF Scalar, Unset, QuotedEmpty

LEMMA WholeRule ==
    ASSUME NEW s, NEW r \in Nat, r >= RuleSize
    PROVE  /\ DOMAIN RuleRead(s, r) = RuleFields
           /\ RuleRead(s, r).match = Scalar(s.match)
           /\ \A k \in RuleFields \ {"match"} :
                 RuleRead(s, r)[k] = IF s[k] # Unset THEN Scalar(s[k]) ELSE Unset
<1>1. \A k \in RuleFields : RuleAt[k] <= r
  <2>1. \A k \in RuleFields : RuleAt[k] \in 1..13
    BY RulePositions
  <2> QED BY <2>1 DEF RuleSize
<1>2. \A k \in RuleFields \ {"match"} : NewRule[k] = Unset
  BY FieldNames DEF NewRule
<1>3. "match" \in RuleFields
  BY DEF RuleFields
<1> QED BY <1>1, <1>2, <1>3 DEF RuleRead

LEMMA RulesWhole ==
    ASSUME TypeOK, document \in Documents,
           RulesRead(document.rules, Size(document, "rules"), config.rules)
    PROVE  /\ DOMAIN config.rules = DOMAIN document.rules
           /\ \A m \in DOMAIN document.rules :
                 /\ DOMAIN config.rules[m] = DOMAIN document.rules[m]
                 /\ config.rules[m].match = Scalar(document.rules[m].match)
                 /\ \A k \in RuleFields \ {"match"} :
                       config.rules[m][k] = IF document.rules[m][k] # Unset
                                            THEN Scalar(document.rules[m][k]) ELSE Unset
<1> DEFINE rules == document.rules
           u == config.rules
<1>1. /\ rules \in Seq([DOMAIN NewRule -> Texts]) /\ Len(rules) \in Nat
      /\ u \in Seq(RuleTypes) /\ Len(u) \in Nat
      /\ DOMAIN rules = 1..Len(rules) /\ DOMAIN u = 1..Len(u)
  BY DocumentTyped, LenProperties DEF TypeOK, Configs
<1> DEFINE r == Size(document, "rules")
<1>2. r = 1 + RuleSize * Len(rules)
  BY DEF Size
<1> HIDE DEF rules, u, r
<1>3. RulesRead(rules, r, u)
  BY DEF rules, u, r
<1>4. Len(u) = Len(rules)
  <2>1. Len(u) <= Len(rules) /\ r <= RuleSize * Len(u) + 1
    BY <1>3 DEF RulesRead
  <2>2. \A a, b \in Nat : a <= b /\ 1 + 13 * b <= 13 * a + 1 => a = b
    OBVIOUS
  <2>3. 1 + 13 * Len(rules) <= 13 * Len(u) + 1
    BY <1>2, <2>1 DEF RuleSize
  <2> QED BY ONLY <1>1, <2>1, <2>2, <2>3
<1>5. ASSUME NEW m \in 1..Len(rules)
      PROVE  /\ DOMAIN u[m] = DOMAIN rules[m] /\ u[m].match = Scalar(rules[m].match)
             /\ \A k \in RuleFields \ {"match"} :
                   u[m][k] = IF rules[m][k] # Unset THEN Scalar(rules[m][k]) ELSE Unset
  <2> DEFINE a == r - 1 - RuleSize * (m - 1)
  <2>1. a \in Nat /\ a >= RuleSize
    BY <1>1, <1>2 DEF RuleSize
  <2>2. u[m] = RuleRead(rules[m], a)
    BY <1>3, <1>4 DEF RulesRead
  <2> HIDE DEF a
  <2>3. DOMAIN rules[m] = RuleFields
    <3>1. rules[m] \in [DOMAIN NewRule -> Texts]
      BY <1>1, ElementOfSeq
    <3> QED BY <3>1, FieldNames
  <2> QED BY <2>1, <2>2, <2>3, WholeRule
<1> QED BY <1>1, <1>4, <1>5 DEF rules, u

(* A rule as it is read selects the images that the rule as written does,   *)
(* and sets the same fields.                                                *)
LEMMA SameOverlay ==
    ASSUME NEW s, DOMAIN s = RuleFields, NEW u, DOMAIN u = RuleFields,
           \A k \in RuleFields \ {"match"} :
              u[k] = IF s[k] # Unset THEN Scalar(s[k]) ELSE Unset,
           NEW default, DOMAIN default = PolicyFields
    PROVE  Overlay(default, u) =
              [k \in DOMAIN default |->
                 IF k \in DOMAIN s /\ s[k] # Unset THEN Scalar(s[k]) ELSE default[k]]
<1>1. "match" \notin PolicyFields
  BY DEF PolicyFields
<1>2. ASSUME NEW k \in PolicyFields, k \in RuleFields
      PROVE  /\ u[k] # Unset <=> s[k] # Unset
             /\ s[k] # Unset => u[k] = Scalar(s[k])
  <2>1. u[k] = IF s[k] # Unset THEN Scalar(s[k]) ELSE Unset
    BY <1>1, <1>2
  <2> QED BY <2>1, ScalarSet
<1> QED BY <1>2 DEF Overlay

LEMMA ReadAsWritten ==
    ASSUME TypeOK, UnderstoodSoFar, Documented(layout), outcome = "accepted"
    PROVE  /\ config.audit = Scalar(document.audit)
           /\ \A k \in DOMAIN config.state : config.state[k] = Scalar(document.state[k])
           /\ \A w \in References : PolicyInForce(w) = WrittenPolicy(w)
<1>1. /\ document \in Documents /\ config \in Configs
      /\ document.rules \in Seq([DOMAIN NewRule -> Texts]) /\ Len(document.rules) \in Nat
      /\ DOMAIN document.rules = 1..Len(document.rules)
  BY DocumentTyped, LenProperties DEF TypeOK
<1>2. Valid /\ next > 1 /\ \A name \in BlockNames : Passing(name) = Size(document, name)
  BY AllPassed
<1>3. /\ Passing("default_policy") = 19 /\ Passing("rules") = Size(document, "rules")
      /\ Passing("audit") = 2 /\ Passing("state") = 3
  <2>1. /\ Passing("default_policy") = Size(document, "default_policy")
        /\ Passing("rules") = Size(document, "rules")
        /\ Passing("audit") = Size(document, "audit")
        /\ Passing("state") = Size(document, "state")
    BY <1>2 DEF BlockNames
  <2>2. /\ Size(document, "default_policy") = 19
        /\ Size(document, "audit") = 2 /\ Size(document, "state") = 3
    BY DEF Size
  <2> QED BY <2>1, <2>2
<1>4. ConfigRead
  <2>1. config.default.action # ""
    BY <1>2 DEF Valid, MutableActions
  <2>2. IF RulesFirst THEN config.default.action = "" ELSE ConfigRead
    BY <1>2 DEF UnderstoodSoFar
  <2> QED BY <2>1, <2>2
<1>5. /\ config.default = DefaultRead(document.default, Passing("default_policy"))
      /\ RulesRead(document.rules, Passing("rules"), config.rules)
      /\ config.audit = IF Passing("audit") >= 2 THEN Scalar(document.audit) ELSE ""
      /\ config.state.backend =
            IF Passing("state") >= 2 THEN Scalar(document.state.backend) ELSE ""
      /\ config.state.path =
            IF Passing("state") >= 3 THEN Scalar(document.state.path) ELSE ""
  BY <1>4 DEF ConfigRead
<1>6. Passing("audit") >= 2 /\ Passing("state") >= 2 /\ Passing("state") >= 3
  BY ONLY <1>3
<1>7. config.audit = Scalar(document.audit)
  BY ONLY <1>5, <1>6
<1>8. \A k \in DOMAIN config.state : config.state[k] = Scalar(document.state[k])
  <2>1. /\ config.state["backend"] = Scalar(document.state["backend"])
        /\ config.state["path"] = Scalar(document.state["path"])
    BY ONLY <1>5, <1>6
  <2>2. DOMAIN config.state = {"backend", "path"}
    BY ONLY <1>1 DEF Configs
  <2> QED BY ONLY <2>1, <2>2
<1>9. config.default = Filled(document.default) /\ DOMAIN config.default = PolicyFields
  <2>1. config.default = Filled(document.default)
    BY <1>3, <1>5, WholeDefault
  <2> QED BY <2>1, FieldNames DEF Filled
<1>10. /\ DOMAIN config.rules = DOMAIN document.rules
       /\ \A m \in DOMAIN document.rules :
             /\ DOMAIN config.rules[m] = DOMAIN document.rules[m]
             /\ config.rules[m].match = Scalar(document.rules[m].match)
             /\ \A k \in RuleFields \ {"match"} :
                   config.rules[m][k] = IF document.rules[m][k] # Unset
                                        THEN Scalar(document.rules[m][k]) ELSE Unset
  BY <1>1, <1>3, <1>5, RulesWhole
<1>11. \A m \in DOMAIN document.rules :
          /\ config.rules[m].match = document.rules[m].match
          /\ DOMAIN document.rules[m] = RuleFields
  <2> TAKE m \in DOMAIN document.rules
  <2>1. config.rules[m].match # ""
    BY <1>2, <1>10 DEF Valid, ValidRule
  <2>2. document.rules[m] \in [DOMAIN NewRule -> Texts]
    BY <1>1, ElementOfSeq
  <2> QED BY <1>10, <2>1, <2>2, FieldNames DEF Scalar
<1>12. ASSUME NEW w \in References PROVE PolicyInForce(w) = WrittenPolicy(w)
  <2> DEFINE ref == ParseReference(w)
             rules == config.rules
             written == document.rules
             default == config.default
             matching == {i \in DOMAIN rules : MatchPattern(Patterns[rules[i].match], ref)}
             meant == {i \in DOMAIN written : MatchPattern(Patterns[written[i].match], ref)}
  <2>1. matching = meant
    <3>1. \A i : i \in matching <=> i \in meant
      BY <1>10, <1>11
    <3> HIDE DEF matching, meant
    <3> QED BY <3>1
  <2>2. /\ PolicyInForce(w) = IF matching = {} THEN default
                              ELSE Overlay(default, rules[Least(matching)])
        /\ WrittenPolicy(w) =
              IF meant = {} THEN Filled(document.default)
              ELSE [k \in DOMAIN Filled(document.default) |->
                      IF /\ k \in DOMAIN written[Least(meant)]
                         /\ written[Least(meant)][k] # Unset
                      THEN Scalar(written[Least(meant)][k])
                      ELSE Filled(document.default)[k]]
    BY DEF PolicyInForce, WrittenPolicy, EffectivePolicyFor
  <2>3. CASE matching = {}
    <3> HIDE DEF matching, meant
    <3> QED BY <1>9, <2>1, <2>2, <2>3
  <2>4. CASE matching # {}
    <3> DEFINE first == Least(meant)
    <3>1. first \in DOMAIN written
      <4>1. meant \in SUBSET Nat /\ meant # {} /\ meant \subseteq DOMAIN written
        BY <1>1, <2>1, <2>4
      <4> HIDE DEF meant
      <4> QED BY <4>1, LeastIndex
    <3> HIDE DEF first, matching, meant
    <3>2. /\ DOMAIN written[first] = RuleFields /\ DOMAIN rules[first] = RuleFields
          /\ \A k \in RuleFields \ {"match"} :
                rules[first][k] = IF written[first][k] # Unset
                                  THEN Scalar(written[first][k]) ELSE Unset
      BY <1>10, <1>11, <3>1
    <3>3. Overlay(default, rules[first]) =
             [k \in DOMAIN default |->
                IF k \in DOMAIN written[first] /\ written[first][k] # Unset
                THEN Scalar(written[first][k]) ELSE default[k]]
      BY <1>9, <3>2, SameOverlay
    <3> QED BY <1>9, <2>1, <2>2, <2>4, <3>3 DEF first
  <2> QED BY <2>3, <2>4
<1> QED BY <1>7, <1>8, <1>12

(* A file in the documented layout, whatever order its blocks are in and    *)
(* however many rules it has, is rejected or means what it says: every      *)
(* value has gone where it stands, and the rule that counts is the first    *)
(* that matches (yamlPolicyParser.parse, config.go:221-409, and             *)
(* EffectivePolicyFor, matcher.go:9-36).                                    *)
THEOREM PolicyIsAsWritten == Spec => []PolicyAsWritten
<1>1. Init => UnderstoodSoFar
  <2> SUFFICES ASSUME Init PROVE UnderstoodSoFar
    OBVIOUS
  <2>1. /\ file = FileOf(document, layout) /\ next = 1
        /\ currentRule = 0 /\ config = ZeroConfig /\ outcome = "none"
    BY DEF Init
  <2>2. ~(next > 1)
    BY ONLY <2>1
  <2> QED BY <2>1, <2>2 DEF UnderstoodSoFar
<1>2. TypeOK /\ UnderstoodSoFar /\ [Next]_vars => UnderstoodSoFar'
  BY UnderstoodStep
<1>3. TypeOK /\ UnderstoodSoFar => PolicyAsWritten
  <2> SUFFICES ASSUME TypeOK, UnderstoodSoFar, Documented(layout), outcome = "accepted"
               PROVE  /\ config.audit = Scalar(document.audit)
                      /\ \A k \in DOMAIN config.state :
                            config.state[k] = Scalar(document.state[k])
                      /\ \A w \in References : ParseReference(w).ok =>
                            PolicyInForce(w) = WrittenPolicy(w)
    BY DEF PolicyAsWritten, InForceAsWritten
  <2> QED BY ReadAsWritten
<1> QED BY <1>1, <1>2, <1>3, PolicyTypeCorrect, PTL DEF Spec
=============================================================================
