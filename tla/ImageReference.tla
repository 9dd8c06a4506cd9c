--------------------------- MODULE ImageReference ---------------------------
(***************************************************************************)
(* Image references as ParseReference normalizes them                      *)
(* (internal/image/reference.go).  A reference someone wrote is cut at its  *)
(* slashes, its tag's colon and its "@"; the parts are atomic here.         *)
(***************************************************************************)
EXTENDS Integers, Sequences

CONSTANTS
    Words,        \* the texts that are not cut further
    Registries,   \* components with a dot or a colon, and localhost
    Ports,        \* those of them that have a colon
    Malformed,    \* components and registries of no allowed form, "" among them
    BadSuffixes   \* tags and digests of no allowed form

ASSUME ComponentsAssumption ==
    /\ Ports \subseteq Registries /\ "docker.io" \in Registries \ Ports
    /\ "library" \notin Registries /\ "" \in Malformed
    /\ {"", "latest"} \cap BadSuffixes = {}
    /\ {"docker.io", "library", "latest"} \subseteq Words

(* name: the components; tag, digest: "" if there is none.                  *)
Written(name, tag, digest) == [name |-> name, tag |-> tag, digest |-> digest]

NoReference == [ok |-> FALSE, registry |-> "", repository |-> <<>>, tag |-> "",
                digest |-> ""]

(* Faulty form of NormalizeName: official images keep their short name.     *)
NormalizeNameBare(name) ==
    IF name[1] \in Registries
    THEN [registry |-> name[1], repository |-> Tail(name)]
    ELSE [registry |-> "docker.io", repository |-> name]

(* An explicit registry is known by its dot, its colon or its name; a       *)
(* single component is an official image of Docker Hub.                     *)
NormalizeName(name) ==
    IF name[1] \in Registries
    THEN [registry |-> name[1], repository |-> Tail(name)]
    ELSE [registry |-> "docker.io",
          repository |-> IF Len(name) = 1 THEN <<"library">> \o name ELSE name]

WellFormed(n) ==
    /\ n.registry \notin Malformed /\ n.repository # <<>>
    /\ \A i \in DOMAIN n.repository :
          n.repository[i] \notin Malformed \cup Ports

ParseReference(w) ==
    IF w.name = <<>> \/ \E i \in DOMAIN w.name : w.name[i] = "" THEN NoReference
    ELSE LET n == NormalizeName(w.name)
         IN  IF ~WellFormed(n) \/ {w.tag, w.digest} \cap BadSuffixes # {}
             THEN NoReference
             ELSE [ok |-> TRUE, registry |-> n.registry,
                   repository |-> n.repository, digest |-> w.digest,
                   tag |-> IF w.tag = "" /\ w.digest = "" THEN "latest" ELSE w.tag]

(* The canonical spelling, whole and as the text patterns are matched with. *)
Canonical(ref) ==
    Written(<<ref.registry>> \o ref.repository, ref.tag, ref.digest)

NameText(ref) ==
    [i \in 1..2 * Len(ref.repository) + 1 |->
        IF i = 1 THEN ref.registry
        ELSE IF i % 2 = 0 THEN "/" ELSE ref.repository[i \div 2]]
Text(ref) ==
    NameText(ref) \o (IF ref.tag = "" THEN <<>> ELSE <<":", ref.tag>>)
                  \o (IF ref.digest = "" THEN <<>> ELSE <<"@", ref.digest>>)
=============================================================================
