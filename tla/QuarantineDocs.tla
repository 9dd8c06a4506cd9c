--------------------------- MODULE QuarantineDocs ---------------------------
(***************************************************************************)
(* What the repository's documentation says of pull decisions and the code  *)
(* of Engine.Decide does not keep; a run of its own shows how it fails.     *)
(***************************************************************************)
EXTENDS Quarantine

(* docs/content/reference/cli.md:352: a tag-level freeze blocks every       *)
(* digest currently or later observed for that tag.  Decide returns before  *)
(* it reads any freeze where mutable_tags.action is allow, and where the    *)
(* registry does not answer and failed_registry_resolution is allow.        *)
TagFreezeBlocksEveryDigest ==
    \A r \in Requests : Admitted(r) /\ ~Pinned(r) =>
        ~\E f \in job[r].held.freezes :
            f.tag = job[r].tag /\ f.digest = NoDigest /\ InForce(f, job[r])
=============================================================================
