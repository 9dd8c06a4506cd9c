---------------------------- MODULE StateTransfer ----------------------------
(***************************************************************************)
(* ribat export-state and ribat import-state beside running pull decisions  *)
(* (ExportState and ImportState of internal/store/sqlite.go).               *)
(*                                                                         *)
(* An export is one SELECT per table and no transaction around them: other  *)
(* processes write between two of its reads.  An import is one transaction  *)
(* of INSERT OR REPLACE, row by row, ids included: a row of the file        *)
(* replaces whichever local row has its id, or its UNIQUE tuple.  The file  *)
(* comes from this database, or from that of another host.                  *)
(***************************************************************************)
EXTENDS QuarantineInvariant, Sequences
Sets == INSTANCE FiniteSetsExt

CONSTANTS
    PeerFiles,    \* files another host exported
    MaxExports    \* bound: exports of this database

(* Other hosts run the same program: their tables keep the columns and the  *)
(* UNIQUE constraints, and are finite, so that one id is the last.          *)
TableSets ==
    [observations : SUBSET ObservationRow, decisions : SUBSET DecisionRow,
     approvals : SUBSET ApprovalRow, freezes : SUBSET FreezeRow,
     bypasses : SUBSET BypassRow, cosign : SUBSET CosignRow]
Distinct(rows) == \A o, p \in rows : o.id = p.id => o = p
HasLast(rows) == rows = {} \/ \E n \in rows : \A o \in rows : o.id <= n.id
ASSUME PeerFilesAssumption ==
    \A f \in PeerFiles :
        /\ f \in TableSets
        /\ \A t \in DOMAIN f : Distinct(f[t]) /\ HasLast(f[t])
        /\ \A o, p \in f.observations : o.tag = p.tag /\ o.digest = p.digest => o = p

VARIABLES
    exports,      \* exports begun
    exported,     \* how many tables the running export has read
    file,         \* what it has written so far, or the last complete export
    imported,     \* history: the files of peers that were imported
    replaced      \* history: overrides an import replaced

transfer == <<exports, exported, file, imported, replaced>>
allVars == <<vars, transfer>>

(* Faulty form of TableOrder: the decisions are read last.                  *)
DecisionsLast ==
    <<"observations", "approvals", "freezes", "bypasses", "cosign", "decisions">>

(* The tables in the order ExportState reads them.                          *)
TableOrder ==
    <<"observations", "decisions", "approvals", "freezes", "bypasses", "cosign">>
TableRows ==
    [observations |-> observations, decisions |-> decisions,
     approvals |-> approvals, freezes |-> freezes, bypasses |-> bypasses,
     cosign |-> cosign]
NoRows ==
    [t \in {TableOrder[i] : i \in DOMAIN TableOrder} |-> {}]
Complete == exported = Len(TableOrder)

TransferInit ==
    /\ Init
    /\ exports = 0 /\ exported = Len(TableOrder) /\ file = NoRows
    /\ imported = {} /\ replaced = NoRows

-----------------------------------------------------------------------------
ExportBegins ==
    /\ Complete /\ exports < MaxExports
    /\ exports' = exports + 1
    /\ exported' = 0 /\ file' = NoRows
    /\ UNCHANGED <<vars, imported, replaced>>

ExportTable ==
    /\ ~Complete
    /\ exported' = exported + 1
    /\ LET t == TableOrder[exported + 1]
       IN  file' = [file EXCEPT ![t] = TableRows[t]]
    /\ UNCHANGED <<vars, exports, imported, replaced>>

-----------------------------------------------------------------------------
(* INSERT OR REPLACE of the rows new: what they replace has the id, or the  *)
(* UNIQUE columns, of one of them.  The rows of a file clash with none of   *)
(* each other.                                                              *)
SameId(o, n) == o.id = n.id
SameTuple(o, n) == o.tag = n.tag /\ o.digest = n.digest
SameVerification(o, n) == o.digest = n.digest /\ o.key = n.key

ReplaceRows(rows, new) ==
    {o \in rows : \A n \in new : ~SameId(o, n)} \cup new

(* Faulty form of ReplaceObservations: only the primary key conflicts.      *)
ReplaceById(rows, new) == ReplaceRows(rows, new)

ReplaceObservations(rows, new) ==
    {o \in rows : \A n \in new : ~SameId(o, n) /\ ~SameTuple(o, n)} \cup new
ReplaceCosign(rows, new) ==
    {o \in rows : \A n \in new : ~SameId(o, n) /\ ~SameVerification(o, n)} \cup new

(* Faulty form of ImportedTables: the import starts from empty tables.      *)
RestoredTables(f) == f

ImportedTables(f) ==
    [observations |-> ReplaceObservations(observations, f.observations),
     decisions    |-> ReplaceRows(decisions, f.decisions),
     approvals    |-> ReplaceRows(approvals, f.approvals),
     freezes      |-> ReplaceRows(freezes, f.freezes),
     bypasses     |-> ReplaceRows(bypasses, f.bypasses),
     cosign       |-> ReplaceCosign(cosign, f.cosign)]

(* AUTOINCREMENT: an explicit id moves the counter up, never down.          *)
LastIds(f) ==
    [t \in DOMAIN seq |-> Sets!Max({seq[t]} \cup {n.id : n \in f[t]})]

ImportState(f) ==
    LET after == ImportedTables(f)
    IN  /\ observations' = after.observations
        /\ decisions' = after.decisions
        /\ approvals' = after.approvals
        /\ freezes' = after.freezes
        /\ bypasses' = after.bypasses
        /\ cosign' = after.cosign
        /\ seq' = LastIds(f)
        /\ replaced' = [t \in DOMAIN NoRows |->
                            replaced[t] \cup (TableRows[t] \ after[t])]
        /\ UNCHANGED <<clock, registry, auditLog, job, history,
                       exports, exported, file>>

(* ribat import-state, of the last complete export (a partial file is not   *)
(* JSON) or of a peer's file.                                               *)
ImportOwn == Complete /\ ImportState(file) /\ UNCHANGED imported
ImportPeer(f) == ImportState(f) /\ imported' = imported \cup {f}

TransferNext ==
    \/ Next /\ UNCHANGED transfer
    \/ ExportBegins \/ ExportTable
    \/ ImportOwn
    \/ \E f \in PeerFiles : ImportPeer(f)

TransferSpec == TransferInit /\ [][TransferNext]_allVars

-----------------------------------------------------------------------------
(* The step loses no override, decision or observation.                     *)
KeepsRows ==
    /\ freezes \subseteq freezes' /\ approvals \subseteq approvals'
    /\ bypasses \subseteq bypasses' /\ decisions \subseteq decisions'
    /\ {Snap(o) : o \in observations} \subseteq {Snap(o) : o \in observations'}

(* docs/content/developer/storage.md:34: an import does not wipe unrelated  *)
(* local state.  A file of another host does: it numbers its rows by itself.*)
LocalStateKept == [][KeepsRows]_allVars

(* While only files of this database are imported, however old, nothing is  *)
(* lost: ids are never reused and a row keeps its id.                       *)
OwnFileKeepsState == [][imported' = {} => KeepsRows]_allVars

(* A complete export explains the allows it holds: the override that let a  *)
(* quarantined tag pass, if age did not, is in the file as well, although   *)
(* the tables are read one after another while decisions are made.          *)
ExportExplainsAllows ==
    Complete /\ imported = {} => \A d \in file.decisions :
        d.decision = "allow" /\ Quarantined(d.req) =>
            Justified(job[d.req], file.approvals, file.bypasses,
                      resolvedAt, insertedAt)

(* With rows of other hosts coming and going under a running decision, what *)
(* ages a digest is still an observation of that very tag and digest, made  *)
(* here or on the host the row came from; an id that changed hands in       *)
(* between never lends its age to another digest.  (Where the first sight   *)
(* is allowed, a row that an import took away makes a digest new again.)    *)
Lent == UNION {f.observations : f \in imported}
AgedHereOrAtPeer ==
    \A r \in Requests : Admitted(r) /\ Quarantined(r) =>
        \/ job[r].policy.allowFirstSeen
        \/ Justified(job[r], approvals \cup replaced.approvals,
                     bypasses \cup replaced.bypasses, resolvedAt, insertedAt)
        \/ \E o \in Lent :
              /\ o.tag = job[r].tag /\ o.digest = job[r].digest
              /\ job[r].now - o.firstSeenAt >= job[r].policy.minAge

(* A freeze stored when a call began refuses what it covers, unless some    *)
(* import replaced it: replaced rows are the only ones that lose effect.    *)
StoredFreezeRespected ==
    \A r \in Requests : Admitted(r) /\ (Pinned(r) \/ Quarantined(r)) =>
        ~FreezeFor(job[r].held.freezes \ replaced.freezes, job[r])
=============================================================================
