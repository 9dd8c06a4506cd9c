----------------------------- MODULE RibatStore -----------------------------
(***************************************************************************)
(* The tables of Ribat's SQLite state (internal/store/sqlite.go) as sets of *)
(* rows, and the statements the rest of the program runs on them.  Each     *)
(* operator is one SQL statement or one Go function that reads or rewrites  *)
(* a table; the modules that EXTEND this one decide when it runs.           *)
(*                                                                         *)
(* One image repository is modelled: every lookup but the Cosign cache is   *)
(* by (registry, repository, tag, ...), the cache by (registry, repository, *)
(* digest, ...), and no statement relates two repositories.  A tag below is *)
(* a tag of that repository, NoTag the tag of a name@digest reference.      *)
(*                                                                         *)
(* Times are ticks of a clock finer than a second; the database keeps whole *)
(* seconds.                                                                *)
(***************************************************************************)
EXTENDS Integers, FiniteSets

CONSTANTS
    Tags,            \* mutable tags of the repository
    NoTag,           \* the empty tag of a reference pinned by digest only
    Digests,         \* manifest digests
    NoDigest,        \* SQL NULL (or Go's "") in a digest column
    PolicyKeys,      \* values verify.CosignPolicyKey can take
    TicksPerSecond   \* resolution lost by unix()

ASSUME TagsAssumption == NoTag \notin Tags
ASSUME DigestsAssumption == NoDigest \notin Digests
ASSUME TicksAssumption == TicksPerSecond \in Nat \ {0}

AnyTag == Tags \cup {NoTag}
AnyDigest == Digests \cup {NoDigest}

(* SQL NULL in expires_at, first time not yet set in a history variable.    *)
Never == -1
Time == Nat \cup {Never}

(* unix(): the stored second, as the tick it starts at.                     *)
Unix(t) == t - (t % TicksPerSecond)

ObservationRow ==
    [id : Nat, tag : Tags, digest : Digests, firstSeenAt : Nat,
     lastSeenAt : Nat, lastAllowedAt : Time]
ApprovalRow == [id : Nat, tag : Tags, digest : Digests, expiresAt : Time]
FreezeRow   == [id : Nat, tag : Tags, digest : AnyDigest, expiresAt : Time]
BypassRow   == [id : Nat, tag : Tags, expiresAt : Time]
CosignRow   == [id : Nat, digest : Digests, key : PolicyKeys, success : BOOLEAN]

-----------------------------------------------------------------------------
(* Faulty form of Unexpired: the query forgets expires_at IS NULL.          *)
UnexpiredNotNull(row, now) == row.expiresAt > Unix(now)

(* Overrides.  expires_at IS NULL OR expires_at > unix(now).                *)
Unexpired(row, now) == row.expiresAt = Never \/ row.expiresAt > Unix(now)

FreezeCovers(f, tag, digest) ==
    f.tag = tag /\ (f.digest = NoDigest \/ f.digest = digest)

(* Faulty form of ActiveFreezes: digest IS NULL is forgotten.               *)
ActiveDigestFreezes(freezes, tag, digest, now) ==
    {f \in freezes : f.tag = tag /\ f.digest = digest /\ Unexpired(f, now)}

ActiveFreezes(freezes, tag, digest, now) ==
    {f \in freezes : FreezeCovers(f, tag, digest) /\ Unexpired(f, now)}

(* Faulty form of ActiveApprovals: an approval counts for the whole tag.    *)
ActiveTagApprovals(approvals, tag, digest, now) ==
    {a \in approvals : a.tag = tag /\ Unexpired(a, now)}

ActiveApprovals(approvals, tag, digest, now) ==
    {a \in approvals : a.tag = tag /\ a.digest = digest /\ Unexpired(a, now)}

ActiveBypasses(bypasses, tag, now) ==
    {b \in bypasses : b.tag = tag /\ Unexpired(b, now)}

(* nullableUnix(expiresFromTTL(now, ttl)): no --ttl flag is SQL NULL.       *)
Expiry(now, ttl) == IF ttl = Never THEN Never ELSE Unix(now + ttl)

-----------------------------------------------------------------------------
(* Faulty form of ObservationsOf: the observation key collapses to the tag. *)
ObservationsOfTag(rows, tag, digest) == {o \in rows : o.tag = tag}

(* Observations.  The UNIQUE constraint is (tag, digest).                   *)
ObservationsOf(rows, tag, digest) ==
    {o \in rows : o.tag = tag /\ o.digest = digest}

FreshObservation(id, tag, digest, now) ==
    [id |-> id, tag |-> tag, digest |-> digest, firstSeenAt |-> Unix(now),
     lastSeenAt |-> Unix(now), lastAllowedAt |-> Never]

(* Faulty form of InsertOrIgnore: no UNIQUE constraint.                     *)
InsertAlways(rows, row) == rows \cup {row}

(* INSERT OR IGNORE: a row for the tuple keeps its first_seen_at.           *)
InsertOrIgnore(rows, row) ==
    IF ObservationsOf(rows, row.tag, row.digest) = {}
    THEN rows \cup {row} ELSE rows

RowsWithId(rows, id) == {o \in rows : o.id = id}

(* Faulty form of Touched: seeing a digest again restarts its quarantine.   *)
TouchedAnew(rows, id, now) ==
    {IF o.id = id
     THEN [o EXCEPT !.firstSeenAt = Unix(now), !.lastSeenAt = Unix(now)]
     ELSE o : o \in rows}

(* UPDATE ... SET last_seen_at WHERE id = ?                                 *)
Touched(rows, id, now) ==
    {IF o.id = id THEN [o EXCEPT !.lastSeenAt = Unix(now)] ELSE o : o \in rows}

(* UPDATE ... SET last_seen_at, last_allowed_at WHERE id = ?                *)
MarkedAllowed(rows, id, now) ==
    {IF o.id = id
     THEN [o EXCEPT !.lastSeenAt = Unix(now), !.lastAllowedAt = Unix(now)]
     ELSE o : o \in rows}

-----------------------------------------------------------------------------
(* Faulty form of CosignOf: the cache is not keyed by policy.               *)
CosignOfDigest(rows, digest, key) == {c \in rows : c.digest = digest}

(* Cosign results.  The UNIQUE constraint is (digest, policy_key).          *)
CosignOf(rows, digest, key) == {c \in rows : c.digest = digest /\ c.key = key}

(* INSERT ... ON CONFLICT DO UPDATE: the row keeps its id.                  *)
UpsertCosign(rows, row) ==
    LET old == CosignOf(rows, row.digest, row.key)
    IN  IF old = {} THEN rows \cup {row}
        ELSE (rows \ old) \cup {[c EXCEPT !.success = row.success] : c \in old}
=============================================================================
