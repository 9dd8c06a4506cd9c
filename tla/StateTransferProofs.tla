------------------------ MODULE StateTransferProofs ------------------------
(***************************************************************************)
(* Theorems about StateTransfer: whatever is exported and imported while    *)
(* decisions run, a tuple keeps one row, a stored freeze is respected       *)
(* unless an import replaced it, and a digest is admitted for its age only  *)
(* if it was first seen that long ago here or at a peer; and while only     *)
(* files of this database are imported, nothing is lost and a complete      *)
(* export explains its allows.                                              *)
(***************************************************************************)
EXTENDS StateTransfer, QuarantineGateProofs, SequenceTheorems

USE DEF Becomes, At

TableNames ==
    {"observations", "decisions", "approvals", "freezes", "bypasses", "cosign"}

-----------------------------------------------------------------------------
(* The files.                                                               *)

LEMMA Order ==
    /\ Len(TableOrder) = 6
    /\ TableOrder[1] = "observations" /\ TableOrder[2] = "decisions"
    /\ TableOrder[3] = "approvals" /\ TableOrder[4] = "freezes"
    /\ TableOrder[5] = "bypasses" /\ TableOrder[6] = "cosign"
    /\ {TableOrder[i] : i \in DOMAIN TableOrder} = TableNames
<1>1. /\ Len(TableOrder) = 6 /\ DOMAIN TableOrder = 1..6
      /\ TableOrder[1] = "observations" /\ TableOrder[2] = "decisions"
      /\ TableOrder[3] = "approvals" /\ TableOrder[4] = "freezes"
      /\ TableOrder[5] = "bypasses" /\ TableOrder[6] = "cosign"
  BY DEF TableOrder
<1>2. 1..6 = {1, 2, 3, 4, 5, 6}
  OBVIOUS
<1> QED BY <1>1, <1>2 DEF TableNames

LEMMA NoRowsType == NoRows \in TableSets /\ \A t \in TableNames : NoRows[t] = {}
<1>1. /\ DOMAIN NoRows = TableNames /\ \A t \in TableNames : NoRows[t] = {}
      /\ NoRows = [t \in TableNames |-> {}]
  BY Order DEF NoRows
<1>2. NoRows = [observations |-> {}, decisions |-> {}, approvals |-> {}, freezes |-> {},
                bypasses |-> {}, cosign |-> {}]
  BY <1>1 DEF TableNames
<1> QED BY <1>1, <1>2 DEF TableSets

LEMMA TableRowsType == TypeOK => TableRows \in TableSets
BY DEF TypeOK, TableRows, TableSets

LEMMA TableRowsFields ==
    /\ TableRows.observations = observations /\ TableRows.decisions = decisions
    /\ TableRows.approvals = approvals /\ TableRows.freezes = freezes
    /\ TableRows.bypasses = bypasses /\ TableRows.cosign = cosign
    /\ TableRows["observations"] = observations /\ TableRows["decisions"] = decisions
    /\ TableRows["approvals"] = approvals /\ TableRows["freezes"] = freezes
    /\ TableRows["bypasses"] = bypasses /\ TableRows["cosign"] = cosign
    /\ DOMAIN TableRows = TableNames
BY DEF TableRows, TableNames

(* Reading one table into the file.                                         *)
LEMMA ExportType ==
    ASSUME NEW f \in TableSets, NEW rows \in TableSets, NEW t \in TableNames
    PROVE  /\ [f EXCEPT ![t] = rows[t]] \in TableSets
           /\ \A u \in TableNames :
                 [f EXCEPT ![t] = rows[t]][u] = IF u = t THEN rows[u] ELSE f[u]
<1>1. DOMAIN f = TableNames
  BY DEF TableSets, TableNames
<1> QED BY <1>1 DEF TableSets, TableNames

(* AUTOINCREMENT.                                                           *)
LEMMA LastId ==
    ASSUME NEW last \in Nat, NEW rows, \A n \in rows : n.id \in Nat,
           HasLast(rows) \/ \A n \in rows : n.id <= last
    PROVE  LET max == Sets!Max({last} \cup {n.id : n \in rows})
           IN  max \in Nat /\ last <= max /\ \A n \in rows : n.id <= max
<1> DEFINE ids == {last} \cup {n.id : n \in rows}
<1>1. ids \subseteq Nat
  OBVIOUS
<1>2. \E m \in ids : \A i \in ids : m >= i
  <2>1. CASE \A n \in rows : n.id <= last
    BY <1>1, <2>1
  <2>2. ASSUME NEW m \in rows, \A o \in rows : o.id <= m.id
        PROVE  \E max \in ids : \A i \in ids : max >= i
    <3>1. CASE m.id >= last
      BY <1>1, <2>2, <3>1
    <3>2. CASE m.id < last
      <4>1. \A i \in ids : last >= i
        BY <2>2, <3>2
      <4> QED BY <4>1
    <3> QED BY <2>2, <3>1, <3>2
  <2> QED BY <2>1, <2>2 DEF HasLast
<1> HIDE DEF ids
<1>3. Sets!Max(ids) \in ids /\ \A i \in ids : Sets!Max(ids) >= i
  BY <1>2 DEF Sets!Max
<1> QED BY <1>1, <1>3 DEF ids

-----------------------------------------------------------------------------
(* Ids: no two rows of a table share one, and none is above the counter.    *)
Numbered(rows, last) == Distinct(rows) /\ \A n \in rows : n.id <= last

(* A step that leaves every table but t alone.                              *)
OnlyTable(t) ==
    \A u \in TableNames \ {t} : TableRows'[u] = TableRows[u] /\ seq'[u] = seq[u]

LEMMA InsertNumbers ==
    ASSUME NEW rows, NEW last \in Nat, Numbered(rows, last),
           \A n \in rows : n.id \in Nat, NEW x, x.id = last + 1
    PROVE  Numbered(rows \cup {x}, last + 1)
BY DEF Numbered, Distinct

LEMMA UpdateNumbers ==
    ASSUME NEW rows \in SUBSET ObservationRow, NEW id, NEW now, NEW new, NEW last,
           new = Touched(rows, id, now) \/ new = MarkedAllowed(rows, id, now),
           Numbered(rows, last)
    PROVE  Numbered(new, last)
<1> DEFINE T(o) == IF o.id = id THEN [o EXCEPT !.lastSeenAt = Unix(now)] ELSE o
           M(o) == IF o.id = id
                   THEN [o EXCEPT !.lastSeenAt = Unix(now), !.lastAllowedAt = Unix(now)]
                   ELSE o
<1>1. \A o \in rows : T(o).id = o.id /\ M(o).id = o.id
  BY DEF ObservationRow
<1>2. new = {T(o) : o \in rows} \/ new = {M(o) : o \in rows}
  BY DEF Touched, MarkedAllowed
<1> HIDE DEF T, M
<1>3. CASE new = {T(o) : o \in rows}
  BY <1>1, <1>3 DEF Numbered, Distinct
<1>4. CASE new = {M(o) : o \in rows}
  BY <1>1, <1>4 DEF Numbered, Distinct
<1> QED BY <1>2, <1>3, <1>4

LEMMA UpsertNumbers ==
    ASSUME NEW rows \in SUBSET CosignRow, NEW last \in Nat, Numbered(rows, last),
           NEW x \in CosignRow, x.id = last + 1
    PROVE  Numbered(UpsertCosign(rows, x),
                    IF CosignOf(rows, x.digest, x.key) = {} THEN last + 1 ELSE last)
<1> DEFINE old == CosignOf(rows, x.digest, x.key)
           U(c) == [c EXCEPT !.success = x.success]
<1>1. CASE old = {}
  <2>1. UpsertCosign(rows, x) = rows \cup {x}
    BY <1>1 DEF UpsertCosign
  <2>2. \A n \in rows : n.id \in Nat
    BY DEF CosignRow
  <2> QED BY <1>1, <2>1, <2>2, InsertNumbers
<1>2. CASE old # {}
  <2>1. UpsertCosign(rows, x) = (rows \ old) \cup {U(c) : c \in old} /\ old \subseteq rows
    BY <1>2 DEF UpsertCosign, CosignOf
  <2>2. \A c \in rows : U(c).id = c.id
    BY DEF CosignRow
  <2> HIDE DEF U, old
  <2>3. Numbered(UpsertCosign(rows, x), last)
    BY <2>1, <2>2 DEF Numbered, Distinct
  <2> QED BY <1>2, <2>3 DEF old
<1> QED BY <1>1, <1>2

(* Every statement leaves the tables numbered.                              *)
NumberedTables == \A t \in TableNames : Numbered(TableRows[t], seq[t])
CountersGrow == \A t \in TableNames : seq[t] <= seq'[t]

LEMMA OneTable ==
    ASSUME TypeOK, NumberedTables, NEW t \in TableNames, OnlyTable(t),
           Numbered(TableRows'[t], seq'[t]), seq[t] <= seq'[t]
    PROVE  NumberedTables' /\ CountersGrow
<1>1. \A u \in TableNames : seq[u] \in Nat
  BY DEF TypeOK, Counters, TableNames
<1> QED BY <1>1 DEF NumberedTables, CountersGrow, OnlyTable

LEMMA TypedIds ==
    ASSUME TypeOK
    PROVE  /\ \A t \in TableNames : /\ seq[t] \in Nat
                                   /\ \A n \in TableRows[t] : n.id \in Nat
           /\ seq.observations = seq["observations"] /\ seq.cosign = seq["cosign"]
           /\ seq.decisions = seq["decisions"] /\ seq.approvals = seq["approvals"]
           /\ seq.freezes = seq["freezes"] /\ seq.bypasses = seq["bypasses"]
<1>1. \A t \in TableNames : seq[t] \in Nat
  BY DEF TypeOK, Counters, TableNames
<1>2. /\ \A n \in observations : n.id \in Nat
      /\ \A n \in decisions : n.id \in Nat
      /\ \A n \in approvals : n.id \in Nat
      /\ \A n \in freezes : n.id \in Nat
      /\ \A n \in bypasses : n.id \in Nat
      /\ \A n \in cosign : n.id \in Nat
  BY DEF TypeOK, ObservationRow, DecisionRow, ApprovalRow, FreezeRow, BypassRow, CosignRow
<1> QED BY <1>1, <1>2, TableRowsFields DEF TableNames

LEMMA OperatorNumbers ==
    ASSUME TypeOK, NumberedTables, Operator
    PROVE  NumberedTables' /\ CountersGrow
<1>0. /\ Numbered(approvals, seq.approvals) /\ Numbered(freezes, seq.freezes)
      /\ Numbered(bypasses, seq.bypasses) /\ seq \in Counters
      /\ \A n \in approvals \cup freezes \cup bypasses : n.id \in Nat
  BY TableRowsFields, TypedIds DEF NumberedTables, TableNames, TypeOK
<1>1. ASSUME NEW x, x.id = seq.approvals + 1, approvals' = approvals \cup {x},
             seq' = [seq EXCEPT !.approvals = @ + 1],
             UNCHANGED <<observations, decisions, freezes, bypasses, cosign>>
      PROVE  NumberedTables' /\ CountersGrow
  <2>1. /\ seq'["approvals"] = seq.approvals + 1 /\ seq.approvals \in Nat
        /\ OnlyTable("approvals")
    BY <1>0, <1>1 DEF Counters, OnlyTable, TableNames, TableRows
  <2>2. Numbered(approvals', seq.approvals + 1)
    BY <1>0, <1>1, <2>1, InsertNumbers
  <2> QED BY <2>1, <2>2, OneTable, TableRowsFields, TypedIds DEF TableNames, TableRows
<1>2. ASSUME NEW x, x.id = seq.freezes + 1, freezes' = freezes \cup {x},
             seq' = [seq EXCEPT !.freezes = @ + 1],
             UNCHANGED <<observations, decisions, approvals, bypasses, cosign>>
      PROVE  NumberedTables' /\ CountersGrow
  <2>1. /\ seq'["freezes"] = seq.freezes + 1 /\ seq.freezes \in Nat
        /\ OnlyTable("freezes")
    BY <1>0, <1>2 DEF Counters, OnlyTable, TableNames, TableRows
  <2>2. Numbered(freezes', seq.freezes + 1)
    BY <1>0, <1>2, <2>1, InsertNumbers
  <2> QED BY <2>1, <2>2, OneTable, TableRowsFields, TypedIds DEF TableNames, TableRows
<1>3. ASSUME NEW x, x.id = seq.bypasses + 1, bypasses' = bypasses \cup {x},
             seq' = [seq EXCEPT !.bypasses = @ + 1],
             UNCHANGED <<observations, decisions, approvals, freezes, cosign>>
      PROVE  NumberedTables' /\ CountersGrow
  <2>1. /\ seq'["bypasses"] = seq.bypasses + 1 /\ seq.bypasses \in Nat
        /\ OnlyTable("bypasses")
    BY <1>0, <1>3 DEF Counters, OnlyTable, TableNames, TableRows
  <2>2. Numbered(bypasses', seq.bypasses + 1)
    BY <1>0, <1>3, <2>1, InsertNumbers
  <2> QED BY <2>1, <2>2, OneTable, TableRowsFields, TypedIds DEF TableNames, TableRows
<1>4. ASSUME NEW t, NEW d, NEW at, NEW ttl, ApproveDigest(t, d, at, ttl)
      PROVE  NumberedTables' /\ CountersGrow
  <2> DEFINE x == [id |-> seq.approvals + 1, tag |-> t, digest |-> d,
                   expiresAt |-> Expiry(at, ttl)]
  <2>1. x.id = seq.approvals + 1 /\ approvals' = approvals \cup {x}
    BY <1>4 DEF ApproveDigest
  <2> HIDE DEF x
  <2> QED BY <1>1, <1>4, <2>1 DEF ApproveDigest
<1>5. ASSUME NEW t, NEW d, NEW at, NEW ttl, FreezeTag(t, d, at, ttl)
      PROVE  NumberedTables' /\ CountersGrow
  <2> DEFINE x == [id |-> seq.freezes + 1, tag |-> t, digest |-> d,
                   expiresAt |-> Expiry(at, ttl)]
  <2>1. x.id = seq.freezes + 1 /\ freezes' = freezes \cup {x}
    BY <1>5 DEF FreezeTag
  <2> HIDE DEF x
  <2> QED BY <1>2, <1>5, <2>1 DEF FreezeTag
<1>6. ASSUME NEW t, NEW at, NEW ttl, BypassTag(t, at, ttl)
      PROVE  NumberedTables' /\ CountersGrow
  <2> DEFINE x == [id |-> seq.bypasses + 1, tag |-> t, expiresAt |-> Expiry(at, ttl)]
  <2>1. x.id = seq.bypasses + 1 /\ bypasses' = bypasses \cup {x}
    BY <1>6 DEF BypassTag
  <2> HIDE DEF x
  <2> QED BY <1>3, <1>6, <2>1 DEF BypassTag
<1> QED BY <1>4, <1>5, <1>6 DEF Operator

LEMMA CallNumbers ==
    ASSUME TypeOK, AllShaped, NumberedTables, NEW r \in Requests,
           BeginAny(r) \/ Progress(r) \/ Die(r)
    PROVE  NumberedTables' /\ CountersGrow
<1>0. /\ Numbered(observations, seq.observations) /\ Numbered(cosign, seq.cosign)
      /\ Numbered(decisions, seq.decisions) /\ seq \in Counters
      /\ observations \in SUBSET ObservationRow /\ cosign \in SUBSET CosignRow
      /\ \A n \in observations \cup decisions : n.id \in Nat
  BY TableRowsFields, TypedIds DEF NumberedTables, TableNames, TypeOK
<1>1. CASE UNCHANGED tables
  BY <1>1, TypedIds DEF tables, NumberedTables, CountersGrow, TableRows
<1>2. ASSUME UNCHANGED <<decisions, approvals, freezes, bypasses, cosign>>,
             Numbered(observations', seq'.observations),
             seq' = seq \/ seq' = [seq EXCEPT !.observations = @ + 1]
      PROVE  NumberedTables' /\ CountersGrow
  <2>1. /\ OnlyTable("observations") /\ seq["observations"] <= seq'["observations"]
        /\ seq'["observations"] = seq'.observations
    BY <1>0, <1>2 DEF Counters, OnlyTable, TableNames, TableRows
  <2> QED BY <1>2, <2>1, OneTable, TableRowsFields DEF TableNames, TableRows
<1>3. CASE CreateObservation(r)
  <2> DEFINE row == FreshObservation(seq.observations + 1, job[r].tag, job[r].digest,
                                     job[r].now)
  <2>1. /\ row.id = seq.observations + 1 /\ row.tag = job[r].tag
        /\ row.digest = job[r].digest
    BY DEF FreshObservation
  <2>2. /\ observations' = InsertOrIgnore(observations, row)
        /\ \/ Row(r) = {} /\ seq' = [seq EXCEPT !.observations = @ + 1]
           \/ Row(r) # {} /\ seq' = seq
        /\ UNCHANGED <<decisions, approvals, freezes, bypasses, cosign>>
    BY <1>3 DEF CreateObservation
  <2> HIDE DEF row
  <2>3. CASE Row(r) = {}
    <3>1. /\ observations' = observations \cup {row}
          /\ seq'.observations = seq.observations + 1 /\ seq.observations \in Nat
      BY <1>0, <2>1, <2>2, <2>3 DEF Row, InsertOrIgnore, Counters
    <3>2. Numbered(observations', seq'.observations)
      BY <1>0, <2>1, <3>1, InsertNumbers
    <3> QED BY <1>2, <2>2, <3>2
  <2>4. CASE Row(r) # {}
    <3>1. observations' = observations /\ seq' = seq
      BY <2>1, <2>2, <2>4 DEF Row, InsertOrIgnore
    <3> QED BY <1>0, <1>2, <2>2, <3>1
  <2> QED BY <2>3, <2>4
<1>4. CASE TouchObservation(r) \/ MarkAllowed(r)
  <2>1. PICK id, now : \/ observations' = Touched(observations, id, now)
                       \/ observations' = MarkedAllowed(observations, id, now)
    BY <1>4 DEF TouchObservation, MarkAllowed
  <2>2. UNCHANGED <<decisions, approvals, freezes, bypasses, cosign, seq>>
    BY <1>4 DEF TouchObservation, MarkAllowed
  <2>3. Numbered(observations', seq.observations)
    BY <1>0, <2>1, UpdateNumbers
  <2> QED BY <1>2, <2>2, <2>3
<1>5. CASE RecordCosign(r)
  <2> DEFINE x == [id |-> seq.cosign + 1, digest |-> job[r].digest,
                   key |-> job[r].policy.key, success |-> job[r].success]
  <2>1. /\ x.id = seq.cosign + 1 /\ x.digest = job[r].digest /\ x.key = job[r].policy.key
        /\ x \in CosignRow /\ seq.cosign \in Nat
    <3>1. job[r].digest \in Digests
      BY <1>5 DEF RecordCosign, AllShaped, CallShape, DigestSteps, VerifySteps
    <3>2. job[r].policy.key \in PolicyKeys /\ job[r].success \in BOOLEAN
      BY JobFields, PoliciesAssumption DEF TypeOK, Job, Policy
    <3> QED BY <1>0, <3>1, <3>2 DEF CosignRow, Counters
  <2>2. /\ cosign' = UpsertCosign(cosign, x)
        /\ seq' = IF CosignOf(cosign, job[r].digest, job[r].policy.key) = {}
                  THEN [seq EXCEPT !.cosign = @ + 1] ELSE seq
        /\ UNCHANGED <<observations, decisions, approvals, freezes, bypasses>>
    BY <1>5 DEF RecordCosign
  <2> HIDE DEF x
  <2>3. Numbered(cosign', IF CosignOf(cosign, x.digest, x.key) = {}
                          THEN seq.cosign + 1 ELSE seq.cosign)
    BY <1>0, <2>1, <2>2, UpsertNumbers
  <2>4. /\ OnlyTable("cosign") /\ seq["cosign"] <= seq'["cosign"]
        /\ seq'["cosign"] = IF CosignOf(cosign, x.digest, x.key) = {}
                            THEN seq.cosign + 1 ELSE seq.cosign
    BY <1>0, <2>1, <2>2 DEF Counters, OnlyTable, TableNames, TableRows
  <2> QED BY <2>3, <2>4, OneTable, TableRowsFields DEF TableNames, TableRows
<1>6. CASE RecordDecision(r)
  <2> DEFINE x == [id |-> seq.decisions + 1, req |-> r, tag |-> job[r].tag,
                   digest |-> job[r].digest, decision |-> job[r].outcome]
  <2>1. /\ x.id = seq.decisions + 1 /\ decisions' = decisions \cup {x}
        /\ seq' = [seq EXCEPT !.decisions = @ + 1]
        /\ UNCHANGED <<observations, approvals, freezes, bypasses, cosign>>
    BY <1>6 DEF RecordDecision
  <2> HIDE DEF x
  <2>2. /\ seq'["decisions"] = seq.decisions + 1 /\ seq.decisions \in Nat
        /\ OnlyTable("decisions")
    BY <1>0, <2>1 DEF Counters, OnlyTable, TableNames, TableRows
  <2>3. Numbered(decisions', seq.decisions + 1)
    BY <1>0, <2>1, <2>2, InsertNumbers
  <2> QED BY <2>2, <2>3, OneTable, TableRowsFields, TypedIds DEF TableNames, TableRows
<1>7. CASE \/ BeginAny(r) \/ Die(r) \/ ResolveDigest(r) \/ ResolveFails(r)
           \/ ReadFreeze(r) \/ ReadApproval(r) \/ ReadBypass(r)
           \/ ReadObservation(r) \/ ReadCreated(r)
  <2>1. UNCHANGED tables
    BY <1>7 DEF BeginAny, Begin, BeginMalformed, Die, ResolveDigest, ResolveFails,
                ReadFreeze, ReadApproval, ReadBypass, ReadObservation, ReadCreated
  <2> QED BY <1>1, <2>1
<1>8. CASE \/ ReadCosignCache(r) \/ (\E s \in BOOLEAN : CosignAnswers(r, s))
           \/ WriteAudit(r) \/ CallFails(r) \/ VerificationFails(r)
  <2>1. UNCHANGED tables
    BY <1>8 DEF ReadCosignCache, CosignAnswers, WriteAudit, CallFails, VerificationFails
  <2> QED BY <1>1, <2>1
<1> QED BY <1>3, <1>4, <1>5, <1>6, <1>7, <1>8 DEF Progress

LEMMA NumberedNext ==
    ASSUME TypeOK, AllShaped, NumberedTables, [Next]_vars
    PROVE  NumberedTables' /\ CountersGrow
<1>1. CASE Environment \/ UNCHANGED vars
  <2>1. UNCHANGED tables
    BY <1>1 DEF Environment, Tick, MoveTag, vars
  <2> QED BY <2>1, TypedIds DEF tables, NumberedTables, CountersGrow, TableRows
<1> QED BY <1>1, CallNumbers, OperatorNumbers DEF Next

(* The file, complete or not.                                               *)
NumberedFile == \A t \in TableNames : Numbered(file[t], seq[t])

TransferSound ==
    /\ TypeOK /\ AllShaped
    /\ file \in TableSets /\ exported \in 0..6 /\ imported \subseteq PeerFiles
    /\ NumberedTables /\ NumberedFile
    /\ OneRowPerTuple /\ Unique(file.observations)

LEMMA NumberedOnward ==
    ASSUME file \in TableSets, NumberedFile, TypeOK, TypeOK', CountersGrow
    PROVE  \A t \in TableNames : Numbered(file[t], seq'[t])
<1>1. \A t \in TableNames : \A n \in file[t] : n.id \in Nat
  BY DEF TableSets, TableNames, ObservationRow, DecisionRow, ApprovalRow, FreezeRow,
         BypassRow, CosignRow
<1>2. \A t \in TableNames : seq[t] \in Nat /\ seq'[t] \in Nat
  BY DEF TypeOK, Counters, TableNames
<1> QED BY <1>1, <1>2 DEF NumberedFile, CountersGrow, Numbered

-----------------------------------------------------------------------------
(* An import.                                                               *)

(* INSERT OR REPLACE keeps a table numbered: whichever columns clash, the   *)
(* rows that stay share no id with those of the file.                       *)
LEMMA ReplaceNumbers ==
    ASSUME NEW rows, NEW new, NEW stay, NEW last \in Nat, NEW last2 \in Nat,
           last <= last2, Numbered(rows, last), Distinct(new),
           \A n \in new : n.id <= last2, \A n \in rows : n.id \in Nat,
           stay \subseteq {o \in rows : \A n \in new : ~SameId(o, n)}
    PROVE  Numbered(stay \cup new, last2)
BY DEF Numbered, Distinct, SameId

(* What a file must be for an import to be one of INSERT OR REPLACE's.      *)
Importable(f) ==
    /\ f \in TableSets /\ Unique(f.observations)
    /\ \A t \in TableNames : Distinct(f[t])
    /\ \/ \A t \in TableNames : HasLast(f[t])
       \/ \A t \in TableNames : \A n \in f[t] : n.id <= seq[t]

LEMMA OwnFileImportable == TransferSound => Importable(file)
BY DEF TransferSound, Importable, NumberedFile, Numbered

LEMMA PeerFileImportable ==
    ASSUME NEW f \in PeerFiles
    PROVE  Importable(f)
<1>1. /\ f \in TableSets
      /\ \A t \in DOMAIN f : Distinct(f[t]) /\ HasLast(f[t])
      /\ Unique(f.observations)
  BY PeerFilesAssumption DEF Unique
<1>2. DOMAIN f = TableNames
  BY <1>1 DEF TableSets, TableNames
<1> QED BY <1>1, <1>2 DEF Importable

(* The rows that stay beside those of the file.                             *)
Staying(f) ==
    [observations |->
        {o \in observations : \A n \in f.observations : ~SameId(o, n) /\ ~SameTuple(o, n)},
     decisions |-> {o \in decisions : \A n \in f.decisions : ~SameId(o, n)},
     approvals |-> {o \in approvals : \A n \in f.approvals : ~SameId(o, n)},
     freezes   |-> {o \in freezes : \A n \in f.freezes : ~SameId(o, n)},
     bypasses  |-> {o \in bypasses : \A n \in f.bypasses : ~SameId(o, n)},
     cosign |->
        {o \in cosign : \A n \in f.cosign : ~SameId(o, n) /\ ~SameVerification(o, n)}]

LEMMA ImportForms ==
    ASSUME TransferSound, NEW f, Importable(f), ImportState(f)
    PROVE  /\ \A t \in TableNames :
                 TableRows'[t] = Staying(f)[t] \cup f[t]
           /\ observations' = Staying(f).observations \cup f.observations
           /\ decisions' = Staying(f).decisions \cup f.decisions
           /\ approvals' = Staying(f).approvals \cup f.approvals
           /\ freezes' = Staying(f).freezes \cup f.freezes
           /\ bypasses' = Staying(f).bypasses \cup f.bypasses
           /\ cosign' = Staying(f).cosign \cup f.cosign
           /\ DOMAIN seq' = TableNames
           /\ \A t \in TableNames : /\ seq'[t] \in Nat /\ seq[t] <= seq'[t]
                                    /\ \A n \in f[t] : n.id <= seq'[t]
           /\ replaced'.freezes = replaced.freezes \cup (freezes \ freezes')
           /\ UNCHANGED <<clock, registry, auditLog, job, history, exports, exported, file>>
<1>1. /\ observations' = Staying(f).observations \cup f.observations
      /\ decisions' = Staying(f).decisions \cup f.decisions
      /\ approvals' = Staying(f).approvals \cup f.approvals
      /\ freezes' = Staying(f).freezes \cup f.freezes
      /\ bypasses' = Staying(f).bypasses \cup f.bypasses
      /\ cosign' = Staying(f).cosign \cup f.cosign
  BY DEF ImportState, ImportedTables, Staying, ReplaceObservations, ReplaceRows,
         ReplaceCosign
<1>2. \A t \in TableNames : TableRows'[t] = Staying(f)[t] \cup f[t]
  <2>1. DOMAIN f = TableNames /\ DOMAIN Staying(f) = TableNames
    BY DEF Importable, TableSets, TableNames, Staying
  <2> QED BY <1>1, <2>1 DEF TableRows, TableNames, Staying
<1>3. seq' = [t \in DOMAIN seq |-> Sets!Max({seq[t]} \cup {n.id : n \in f[t]})]
  BY DEF ImportState, LastIds
<1>4. DOMAIN seq = TableNames /\ \A t \in TableNames : seq[t] \in Nat
  BY DEF TransferSound, TypeOK, Counters, TableNames
<1>5. ASSUME NEW t \in TableNames
      PROVE  /\ seq'[t] \in Nat /\ seq[t] <= seq'[t]
             /\ \A n \in f[t] : n.id <= seq'[t]
  <2>1. \A n \in f[t] : n.id \in Nat
    BY DEF Importable, TableSets, TableNames, ObservationRow, DecisionRow, ApprovalRow,
           FreezeRow, BypassRow, CosignRow
  <2>2. HasLast(f[t]) \/ \A n \in f[t] : n.id <= seq[t]
    BY DEF Importable
  <2>3. seq'[t] = Sets!Max({seq[t]} \cup {n.id : n \in f[t]})
    BY <1>3, <1>4
  <2> QED BY <1>4, <2>1, <2>2, <2>3, LastId
<1>6. replaced'.freezes = replaced.freezes \cup (freezes \ freezes')
  <2>1. "freezes" \in DOMAIN NoRows
    BY Order DEF NoRows, TableNames
  <2>2. replaced'["freezes"] =
            replaced["freezes"] \cup (TableRows["freezes"] \ ImportedTables(f)["freezes"])
    BY <2>1 DEF ImportState
  <2>3. ImportedTables(f)["freezes"] = ReplaceRows(freezes, f.freezes)
    BY DEF ImportedTables
  <2>4. freezes' = ReplaceRows(freezes, f.freezes)
    BY DEF ImportState, ImportedTables
  <2> QED BY <2>2, <2>3, <2>4, TableRowsFields
<1>7. DOMAIN seq' = TableNames
  BY <1>3, <1>4
<1>8. UNCHANGED <<clock, registry, auditLog, job, history, exports, exported, file>>
  BY DEF ImportState
<1> QED BY <1>1, <1>2, <1>5, <1>6, <1>7, <1>8

LEMMA ImportSound ==
    ASSUME TransferSound, NEW f, Importable(f), ImportState(f)
    PROVE  /\ TypeOK' /\ AllShaped' /\ NumberedTables' /\ CountersGrow /\ NumberedFile'
           /\ OneRowPerTuple'
<1>1. TypeOK'
  <2>1. seq' \in Counters
    <3>1. seq' = [t \in TableNames |-> seq'[t]]
      BY ImportForms DEF ImportState, LastIds
    <3>2. seq' = [observations |-> seq'["observations"], approvals |-> seq'["approvals"],
                  freezes |-> seq'["freezes"], bypasses |-> seq'["bypasses"],
                  cosign |-> seq'["cosign"], decisions |-> seq'["decisions"]]
      BY <3>1 DEF TableNames
    <3>3. \A t \in TableNames : seq'[t] \in Nat
      BY ImportForms
    <3> QED BY <3>2, <3>3 DEF Counters, TableNames
  <2>2. /\ observations' \subseteq ObservationRow /\ decisions' \subseteq DecisionRow
        /\ approvals' \subseteq ApprovalRow /\ freezes' \subseteq FreezeRow
        /\ bypasses' \subseteq BypassRow /\ cosign' \subseteq CosignRow
    BY ImportForms DEF TransferSound, TypeOK, Importable, TableSets, Staying
  <2>3. UNCHANGED <<clock, registry, auditLog, job, resolvedAt, insertedAt, verified>>
    BY DEF ImportState, history
  <2> QED BY <2>1, <2>2, <2>3 DEF TransferSound, TypeOK
<1>2. AllShaped'
  BY ImportForms DEF TransferSound, AllShaped
<1>3. CountersGrow
  BY ImportForms DEF CountersGrow
<1>4. NumberedTables'
  <2>1. ASSUME NEW t \in TableNames
        PROVE  Numbered(TableRows'[t], seq'[t])
    <3>1. Staying(f)[t] \subseteq {o \in TableRows[t] : \A n \in f[t] : ~SameId(o, n)}
      BY DEF Staying, TableRows, TableNames, Importable, TableSets
    <3>2. /\ Numbered(TableRows[t], seq[t]) /\ Distinct(f[t]) /\ seq[t] \in Nat
          /\ \A n \in TableRows[t] : n.id \in Nat
      BY TypedIds DEF TransferSound, NumberedTables, Importable
    <3>3. /\ seq'[t] \in Nat /\ seq[t] <= seq'[t] /\ \A n \in f[t] : n.id <= seq'[t]
          /\ TableRows'[t] = Staying(f)[t] \cup f[t]
      BY ImportForms
    <3> QED BY <3>1, <3>2, <3>3, ReplaceNumbers
  <2> QED BY <2>1 DEF NumberedTables
<1>5. NumberedFile'
  BY <1>1, <1>3, ImportForms, NumberedOnward DEF TransferSound, NumberedFile
<1>6. OneRowPerTuple'
  BY ImportForms DEF TransferSound, OneRowPerTuple, Staying, SameTuple, Importable, Unique
<1> QED BY <1>1, <1>2, <1>3, <1>4, <1>5, <1>6

-----------------------------------------------------------------------------
(* Every step.                                                              *)

LEMMA ExportBeginsSound ==
    ASSUME TransferSound, ExportBegins
    PROVE  file' \in TableSets /\ exported' \in 0..6 /\ NumberedFile' /\ Unique(file'.observations)
<1>1. file' = NoRows /\ exported' = 0 /\ UNCHANGED vars
  BY DEF ExportBegins
<1>2. NoRows.observations = {}
  BY NoRowsType DEF TableNames
<1> QED BY <1>1, <1>2, NoRowsType DEF NumberedFile, Numbered, Distinct, Unique

LEMMA ExportTableSound ==
    ASSUME TransferSound, ExportTable
    PROVE  /\ exported \in 0..5 /\ exported' = exported + 1 /\ UNCHANGED vars
           /\ TableOrder[exported + 1] \in TableNames
           /\ file' = [file EXCEPT ![TableOrder[exported + 1]] =
                                  TableRows[TableOrder[exported + 1]]]
           /\ \A u \in TableNames :
                 file'[u] = IF u = TableOrder[exported + 1] THEN TableRows[u] ELSE file[u]
           /\ file' \in TableSets /\ exported' \in 0..6 /\ NumberedFile'
           /\ Unique(file'.observations)
<1> DEFINE t == TableOrder[exported + 1]
<1>1. exported \in 0..5 /\ exported' = exported + 1 /\ UNCHANGED vars
  BY Order DEF ExportTable, Complete, TransferSound
<1>2. t \in TableNames
  <2>1. exported + 1 \in {1, 2, 3, 4, 5, 6}
    BY <1>1
  <2> QED BY <2>1, Order DEF TableNames
<1>3. file' = [file EXCEPT ![t] = TableRows[t]]
  BY DEF ExportTable
<1>4. TableRows \in TableSets
  BY TableRowsType DEF TransferSound
<1> HIDE DEF t
<1>5. /\ file' \in TableSets
      /\ \A u \in TableNames : file'[u] = IF u = t THEN TableRows[u] ELSE file[u]
  <2>1. file \in TableSets
    BY DEF TransferSound
  <2>2. /\ [file EXCEPT ![t] = TableRows[t]] \in TableSets
        /\ \A u \in TableNames :
              [file EXCEPT ![t] = TableRows[t]][u] = IF u = t THEN TableRows[u] ELSE file[u]
    BY <1>2, <1>4, <2>1, ExportType
  <2> QED BY <1>3, <2>2
<1>6. NumberedFile'
  <2>1. seq' = seq
    BY <1>1 DEF vars, tables
  <2> QED BY <1>5, <2>1 DEF TransferSound, NumberedFile, NumberedTables
<1>7. Unique(file'.observations)
  <2>1. file'["observations"] \in {observations, file["observations"]}
    BY <1>5, TableRowsFields DEF TableNames
  <2> QED BY <2>1 DEF TransferSound, OneRowPerTuple, Unique
<1> QED BY <1>1, <1>2, <1>3, <1>5, <1>6, <1>7 DEF t

LEMMA TransferSoundNext ==
    ASSUME TransferSound, [TransferNext]_allVars
    PROVE  TransferSound'
<1>1. CASE [Next]_vars
  <2>1. /\ TypeOK' /\ AllShaped' /\ NumberedTables' /\ CountersGrow /\ OneRowPerTuple'
    BY <1>1, NextShape, NumberedNext, UniqueNext DEF TransferSound
  <2>2. CASE UNCHANGED transfer
    <3>1. NumberedFile'
      BY <2>1, <2>2, NumberedOnward DEF transfer, TransferSound, NumberedFile
    <3> QED BY <2>1, <2>2, <3>1 DEF transfer, TransferSound
  <2>3. CASE ExportBegins
    BY <2>1, <2>3, ExportBeginsSound DEF ExportBegins, TransferSound
  <2>4. CASE ExportTable
    BY <2>1, <2>4, ExportTableSound DEF ExportTable, TransferSound
  <2>5. ASSUME NEW f, Importable(f), ImportState(f), imported' \subseteq PeerFiles
        PROVE  TransferSound'
    BY <2>1, <2>5, ImportSound, ImportForms DEF TransferSound
  <2>6. CASE ImportOwn
    BY <2>5, <2>6, OwnFileImportable DEF ImportOwn, TransferSound
  <2>7. ASSUME NEW f \in PeerFiles, ImportPeer(f)
        PROVE  TransferSound'
    BY <2>5, <2>7, PeerFileImportable DEF ImportPeer, TransferSound
  <2> QED BY <2>2, <2>3, <2>4, <2>6, <2>7 DEF TransferNext, allVars
<1>2. ASSUME NEW f, Importable(f), ImportState(f), imported' \subseteq PeerFiles
      PROVE  TransferSound'
  BY <1>2, ImportSound, ImportForms DEF TransferSound
<1>3. CASE ImportOwn
  BY <1>2, <1>3, OwnFileImportable DEF ImportOwn, TransferSound
<1>4. ASSUME NEW f \in PeerFiles, ImportPeer(f)
      PROVE  TransferSound'
  BY <1>2, <1>4, PeerFileImportable DEF ImportPeer, TransferSound
<1>5. CASE ExportBegins \/ ExportTable \/ UNCHANGED allVars
  <2>1. UNCHANGED vars
    BY <1>5 DEF ExportBegins, ExportTable, allVars
  <2> QED BY <1>1, <2>1
<1> QED BY <1>1, <1>3, <1>4, <1>5 DEF TransferNext

(* Tables and files keep their types, and their ids apart from each other,  *)
(* through every import.                                                    *)
THEOREM TransferStaysSound == TransferSpec => []TransferSound
<1>1. TransferInit => TransferSound
  <2>1. TransferInit => TypeOK /\ AllShaped
    BY InitType, InitShape DEF TransferInit
  <2>2. TransferInit => NumberedTables /\ OneRowPerTuple
    <3>1. Init => \A t \in TableNames : TableRows[t] = {}
      BY TableRowsFields DEF Init, TableNames
    <3> QED BY <3>1 DEF TransferInit, Init, NumberedTables, OneRowPerTuple, Numbered,
                        Distinct
  <2>3. TransferInit => NumberedFile /\ Unique(file.observations)
    BY NoRowsType DEF TransferInit, NumberedFile, Numbered, Distinct, Unique, TableNames
  <2> QED BY <2>1, <2>2, <2>3, NoRowsType, Order DEF TransferInit, TransferSound
<1> QED BY <1>1, TransferSoundNext, PTL DEF TransferSpec

(* However exports and imports overlap with calls that race to create a     *)
(* row, a tuple keeps one row (ImportState, sqlite.go:533-609).             *)
THEOREM ImportsKeepTuplesUnique == TransferSpec => []OneRowPerTuple
BY TransferStaysSound, PTL DEF TransferSound

-----------------------------------------------------------------------------
(* Freezes.                                                                 *)

LEMMA UnfrozenImport ==
    ASSUME TransferSound, Unfrozen(replaced.freezes), NEW f, Importable(f), ImportState(f)
    PROVE  \A q \in Requests : CallUnfrozen(job'[q], freezes', replaced'.freezes)
<1>1. /\ replaced'.freezes = replaced.freezes \cup (freezes \ freezes')
      /\ job' = job
  BY ImportForms
<1> QED BY <1>1 DEF Unfrozen, CallUnfrozen, FreezeFor

LEMMA UnfrozenTransfer ==
    ASSUME TransferSound, TransferSound', Unfrozen(replaced.freezes), [TransferNext]_allVars
    PROVE  \A q \in Requests : CallUnfrozen(job'[q], freezes', replaced'.freezes)
<1>1. CASE [Next]_vars /\ UNCHANGED replaced
  BY <1>1, UnfrozenNext DEF TransferSound
<1>2. CASE ImportOwn
  BY <1>2, UnfrozenImport, OwnFileImportable DEF ImportOwn
<1>3. ASSUME NEW f \in PeerFiles, ImportPeer(f)
      PROVE  \A q \in Requests : CallUnfrozen(job'[q], freezes', replaced'.freezes)
  BY <1>3, UnfrozenImport, PeerFileImportable DEF ImportPeer
<1>4. CASE ExportBegins \/ ExportTable \/ UNCHANGED allVars
  <2>1. UNCHANGED vars /\ UNCHANGED replaced
    BY <1>4 DEF ExportBegins, ExportTable, allVars, transfer
  <2> QED BY <1>1, <2>1
<1> QED BY <1>1, <1>2, <1>3, <1>4 DEF TransferNext, transfer

(* A freeze stored when a call began refuses what it covers unless an       *)
(* import replaced its row, whatever files come and go under the call       *)
(* (ImportState, sqlite.go:575-585, against engine.go:121-184).             *)
THEOREM StoredFreezesHold == TransferSpec => []StoredFreezeRespected
<1>1. TransferInit => Unfrozen(replaced.freezes)
  BY DEF TransferInit, Init, Unfrozen, CallUnfrozen, RestsOnNoFreeze, UnfrozenSteps,
         VerifySteps, Allowing, NewJob
<1>2. /\ TransferSound /\ TransferSound' /\ Unfrozen(replaced.freezes)
      /\ [TransferNext]_allVars
      => Unfrozen(replaced.freezes)'
  BY UnfrozenTransfer DEF Unfrozen
<1>3. TransferSound /\ Unfrozen(replaced.freezes) => StoredFreezeRespected
  BY DEF TransferSound, Unfrozen, CallUnfrozen, RestsOnNoFreeze, Allowing, Gated, Pinned,
         Quarantined, Admitted, StoredFreezeRespected, AllShaped, CallShape
<1> QED BY <1>1, <1>2, <1>3, TransferStaysSound, PTL DEF TransferSpec

-----------------------------------------------------------------------------
(* While only files of this database are imported.                          *)

(* What the file holds is still in the tables: an observation perhaps       *)
(* touched, the rest as it was.                                             *)
FileKept ==
    /\ file.approvals \subseteq approvals /\ file.freezes \subseteq freezes
    /\ file.bypasses \subseteq bypasses /\ file.decisions \subseteq decisions
    /\ \A n \in file.observations : Kept(n, observations)

(* The allow of a quarantined tag in a set of rows has its reason.          *)
Explained(rows, approved, bypassed) ==
    \A d \in rows : d.decision = "allow" /\ Quarantined(d.req) =>
        Justified(job[d.req], approved, bypassed, resolvedAt, insertedAt)

(* Every recorded decision is that of a call which has recorded it.         *)
Ended(j) == j.pc \in {"audit", "done"}
DecisionsOfCalls == \A d \in decisions : d.req \in Requests /\ Ended(job[d.req])

(* The overrides of the file, or of the tables where they are not yet read. *)
ApprovalsRead == IF exported >= 3 THEN file.approvals ELSE approvals
BypassesRead == IF exported >= 5 THEN file.bypasses ELSE bypasses

OwnSound ==
    /\ AllDated /\ AllJustified
    /\ FileKept /\ DecisionsOfCalls
    /\ Explained(decisions, approvals, bypasses)
    /\ Explained(file.decisions, ApprovalsRead, BypassesRead)

OwnFilesSound == imported = {} => OwnSound

(* A table that is imported over itself stays as it is.                     *)
LEMMA SameRows ==
    ASSUME NEW rows, Distinct(rows), NEW new, new \subseteq rows
    PROVE  {o \in rows : \A n \in new : ~SameId(o, n)} \cup new = rows
BY DEF Distinct, SameId

LEMMA SameObservations ==
    ASSUME NEW rows, Distinct(rows), Unique(rows), NEW new,
           \A n \in new : Kept(n, rows), NEW stay,
           stay = {o \in rows : \A n \in new : ~SameId(o, n) /\ ~SameTuple(o, n)}
    PROVE  /\ \A o \in rows : Kept(o, stay \cup new)
           /\ \A o \in stay \cup new : Kept(o, rows)
<1>1. ASSUME NEW o \in rows, NEW n \in new, SameId(o, n) \/ SameTuple(o, n)
      PROVE  Kept(o, stay \cup new)
  <2>1. PICK p \in rows : /\ p.id = n.id /\ p.tag = n.tag /\ p.digest = n.digest
                          /\ p.firstSeenAt = n.firstSeenAt
    BY DEF Kept
  <2>2. p = o
    BY <1>1, <2>1 DEF SameId, SameTuple, Distinct, Unique
  <2> QED BY <2>1, <2>2 DEF Kept
<1>2. \A o \in stay : o \in rows /\ Kept(o, rows)
  BY DEF Kept
<1>3. \A o \in rows : o \in stay \/ \E n \in new : SameId(o, n) \/ SameTuple(o, n)
  OBVIOUS
<1>4. \A o \in stay : Kept(o, stay \cup new)
  BY DEF Kept
<1> QED BY <1>1, <1>2, <1>3, <1>4

LEMMA OwnImport ==
    ASSUME TransferSound, FileKept, ImportState(file)
    PROVE  /\ UNCHANGED <<decisions, approvals, freezes, bypasses>>
           /\ \A o \in observations : Kept(o, observations')
           /\ \A o \in observations' : Kept(o, observations)
<1>1. Importable(file)
  BY OwnFileImportable
<1>2. /\ observations' = Staying(file).observations \cup file.observations
      /\ decisions' = Staying(file).decisions \cup file.decisions
      /\ approvals' = Staying(file).approvals \cup file.approvals
      /\ freezes' = Staying(file).freezes \cup file.freezes
      /\ bypasses' = Staying(file).bypasses \cup file.bypasses
  BY <1>1, ImportForms
<1>3. /\ Distinct(observations) /\ Distinct(decisions) /\ Distinct(approvals)
      /\ Distinct(freezes) /\ Distinct(bypasses)
  BY TableRowsFields DEF TransferSound, NumberedTables, TableNames, Numbered
<1>4. Unique(observations)
  BY DEF TransferSound, OneRowPerTuple, Unique
<1>5. UNCHANGED <<decisions, approvals, freezes, bypasses>>
  BY <1>2, <1>3, SameRows DEF Staying, FileKept
<1>6. /\ \A o \in observations : Kept(o, observations')
      /\ \A o \in observations' : Kept(o, observations)
  <2> DEFINE stay == Staying(file).observations
  <2>1. stay = {o \in observations :
                    \A n \in file.observations : ~SameId(o, n) /\ ~SameTuple(o, n)}
    BY DEF Staying
  <2>2. \A n \in file.observations : Kept(n, observations)
    BY DEF FileKept
  <2> HIDE DEF stay
  <2>3. /\ \A o \in observations : Kept(o, stay \cup file.observations)
        /\ \A o \in stay \cup file.observations : Kept(o, observations)
    BY <1>3, <1>4, <2>1, <2>2, SameObservations
  <2> QED BY <1>2, <2>3 DEF stay
<1> QED BY <1>5, <1>6

LEMMA KeptTwice ==
    ASSUME NEW rows, NEW rows2, \A o \in rows : Kept(o, rows2), NEW n, Kept(n, rows)
    PROVE  Kept(n, rows2)
BY DEF Kept

(* The reasons of a call whose verdict is out.                              *)
LEMMA ReasonsGrow ==
    ASSUME TypeOK, GroundsGrow, NEW j \in Job, CallShape(j), j.pin = NoDigest,
           j.digest # NoDigest, NEW approved, NEW bypassed, NEW approved2,
           NEW bypassed2, approved \subseteq approved2, bypassed \subseteq bypassed2,
           Justified(j, approved, bypassed, resolvedAt, insertedAt)
    PROVE  Justified(j, approved2, bypassed2, resolvedAt', insertedAt')
<1> DEFINE k == <<j.tag, j.digest>>
<1>1. k \in Tags \X Digests /\ j.now \in Nat
  BY DEF CallShape, Job, AnyDigest
<1>2. insertedAt[k] >= j.now => insertedAt'[k] = insertedAt[k]
  <2>1. insertedAt[k] >= j.now => insertedAt[k] # Never
    BY <1>1 DEF Never
  <2> QED BY <1>1, <2>1 DEF GroundsGrow
<1>3. resolvedAt[k] # Never => resolvedAt'[k] = resolvedAt[k]
  BY <1>1 DEF GroundsGrow
<1>4. /\ ApprovalFor(approved, j) => ApprovalFor(approved2, j)
      /\ BypassFor(bypassed, j) => BypassFor(bypassed2, j)
  BY DEF ApprovalFor, BypassFor
<1> QED BY <1>2, <1>3, <1>4 DEF Justified

(* A call whose decision is recorded stays the call it was.                 *)
SameCall(n, j) ==
    /\ n.tag = j.tag /\ n.pin = j.pin /\ n.policy = j.policy /\ n.now = j.now
    /\ n.digest = j.digest

LEMMA EndedCalls ==
    ASSUME TypeOK, TypeOK', [Next]_vars, NEW q \in Requests, Ended(job[q])
    PROVE  Ended(job'[q]) /\ SameCall(job'[q], job[q])
<1>1. CASE job'[q] = job[q]
  BY <1>1 DEF SameCall
<1>2. CASE Operator \/ Environment \/ UNCHANGED vars
  <2>1. job' = job
    BY <1>2 DEF Operator, Environment, ApproveDigest, FreezeTag, BypassTag, Tick,
                MoveTag, vars
  <2> QED BY <1>1, <2>1
<1>3. ASSUME NEW r \in Requests, BeginAny(r) \/ Progress(r) \/ Die(r)
      PROVE  Ended(job'[q]) /\ SameCall(job'[q], job[q])
  <2>1. CASE q # r
    BY <1>1, <1>3, <2>1, OneMoves
  <2>2. CASE q = r
    <3>1. WriteAudit(r) \/ CallFails(r) \/ Die(r)
      BY <1>3, <2>2 DEF Ended, BeginAny, Begin, BeginMalformed, Progress, ResolveDigest,
                        ResolveFails, ReadFreeze, ReadApproval, ReadBypass,
                        ReadObservation, CreateObservation, ReadCreated,
                        TouchObservation, ReadCosignCache, RecordCosign, CosignAnswers,
                        MarkAllowed, RecordDecision, VerificationFails, VerifySteps
    <3>2. \E v : Stops(job'[r], job[r], v)
      BY <3>1, EndForms DEF WriteAudit, CallFails, Die
    <3> QED BY <2>2, <3>2 DEF Stops, Ended, SameCall
  <2> QED BY <2>1, <2>2
<1> QED BY <1>2, <1>3 DEF Next

(* A step records no decision, or that of the call it moves.                *)
LEMMA DecisionsGrow ==
    ASSUME TypeOK, [Next]_vars
    PROVE  \/ UNCHANGED decisions
           \/ \E r \in Requests :
                 /\ RecordDecision(r) /\ Keeps(job'[r], job[r]) /\ job'[r].pc = "audit"
                 /\ \E d : /\ decisions' = decisions \cup {d} /\ d.req = r
                           /\ d.decision = job[r].outcome
<1>1. ASSUME NEW r \in Requests, RecordDecision(r)
      PROVE  /\ Keeps(job'[r], job[r]) /\ job'[r].pc = "audit"
             /\ \E d : /\ decisions' = decisions \cup {d} /\ d.req = r
                       /\ d.decision = job[r].outcome
  <2> DEFINE x == [id |-> seq.decisions + 1, req |-> r, tag |-> job[r].tag,
                   digest |-> job[r].digest, decision |-> job[r].outcome]
  <2>1. decisions' = decisions \cup {x} /\ x.req = r /\ x.decision = job[r].outcome
    BY <1>1 DEF RecordDecision
  <2>2. Keeps(job'[r], job[r]) /\ job'[r].pc = "audit"
    BY <1>1, EndForms DEF RecordDecision
  <2> HIDE DEF x
  <2> QED BY <2>1, <2>2
<1>2. CASE Operator \/ Environment \/ UNCHANGED vars
  BY <1>2 DEF Operator, Environment, ApproveDigest, FreezeTag, BypassTag, Tick,
              MoveTag, vars, tables
<1>3. ASSUME NEW r \in Requests, BeginAny(r) \/ Die(r)
      PROVE  UNCHANGED decisions
  BY <1>3 DEF BeginAny, Begin, BeginMalformed, Die, tables
<1>4. ASSUME NEW r \in Requests, Progress(r), ~RecordDecision(r)
      PROVE  UNCHANGED decisions
  <2>1. CASE ResolveDigest(r) \/ ResolveFails(r) \/ ReadFreeze(r) \/ ReadApproval(r)
             \/ ReadBypass(r) \/ ReadObservation(r) \/ CreateObservation(r)
             \/ ReadCreated(r)
    BY <2>1 DEF ResolveDigest, ResolveFails, ReadFreeze, ReadApproval, ReadBypass,
                ReadObservation, CreateObservation, ReadCreated, tables
  <2>2. CASE TouchObservation(r) \/ ReadCosignCache(r) \/ RecordCosign(r)
             \/ (\E s \in BOOLEAN : CosignAnswers(r, s)) \/ MarkAllowed(r)
             \/ WriteAudit(r) \/ CallFails(r) \/ VerificationFails(r)
    BY <2>2 DEF TouchObservation, ReadCosignCache, RecordCosign, CosignAnswers,
                MarkAllowed, WriteAudit, CallFails, VerificationFails, tables
  <2> QED BY <1>4, <2>1, <2>2 DEF Progress
<1> QED BY <1>1, <1>2, <1>3, <1>4 DEF Next

(* An explanation of the decisions of ended calls holds on.                 *)
LEMMA ExplainedOnward ==
    ASSUME TypeOK, TypeOK', AllShaped, GroundsGrow, [Next]_vars,
           NEW rows, \A d \in rows : d.req \in Requests /\ Ended(job[d.req]),
           NEW approved, NEW bypassed, NEW approved2, NEW bypassed2,
           approved \subseteq approved2, bypassed \subseteq bypassed2,
           Explained(rows, approved, bypassed)
    PROVE  \A d \in rows :
              /\ Ended(job'[d.req])
              /\ d.decision = "allow" /\ Quarantined(d.req)'
                 => Justified(job'[d.req], approved2, bypassed2, resolvedAt', insertedAt')
<1> SUFFICES ASSUME NEW d \in rows
             PROVE  /\ Ended(job'[d.req])
                    /\ d.decision = "allow" /\ Quarantined(d.req)'
                       => Justified(job'[d.req], approved2, bypassed2, resolvedAt',
                                    insertedAt')
  OBVIOUS
<1> DEFINE q == d.req
           j == job[q]
           n == job'[q]
<1>1. q \in Requests /\ Ended(j) /\ j \in Job /\ CallShape(j)
  BY DEF TypeOK, AllShaped
<1>2. Ended(n) /\ SameCall(n, j)
  BY <1>1, EndedCalls
<1>3. ASSUME d.decision = "allow", Quarantined(q)'
      PROVE  Justified(n, approved2, bypassed2, resolvedAt', insertedAt')
  <2>1. Quarantined(q) /\ j.pin = NoDigest /\ j.digest # NoDigest
    BY <1>2, <1>3 DEF Quarantined, Pinned, SameCall
  <2>2. Justified(j, approved, bypassed, resolvedAt, insertedAt)
    BY <1>3, <2>1 DEF Explained
  <2>3. Justified(j, approved2, bypassed2, resolvedAt', insertedAt')
    BY <1>1, <2>1, <2>2, ReasonsGrow
  <2> QED BY <1>2, <2>3, SameReason DEF SameCall
<1> QED BY <1>2, <1>3

LEMMA OwnRecords ==
    ASSUME TransferSound, OwnSound, TypeOK', AllShaped', AllJustified', GroundsGrow,
           [Next]_vars
    PROVE  DecisionsOfCalls' /\ Explained(decisions, approvals, bypasses)'
<1>1. \A d \in decisions :
         /\ d.req \in Requests /\ Ended(job'[d.req])
         /\ d.decision = "allow" /\ Quarantined(d.req)'
            => Justified(job'[d.req], approvals', bypasses', resolvedAt', insertedAt')
  <2>1. approvals \subseteq approvals' /\ bypasses \subseteq bypasses'
    BY DEF GroundsGrow
  <2> QED BY <2>1, ExplainedOnward DEF TransferSound, OwnSound, DecisionsOfCalls
<1>2. CASE UNCHANGED decisions
  BY <1>1, <1>2 DEF DecisionsOfCalls, Explained
<1>3. ASSUME NEW r \in Requests, RecordDecision(r), Keeps(job'[r], job[r]),
             job'[r].pc = "audit",
             NEW d, decisions' = decisions \cup {d}, d.req = r,
             d.decision = job[r].outcome
      PROVE  DecisionsOfCalls' /\ Explained(decisions, approvals, bypasses)'
  <2> DEFINE n == job'[r]
  <2>1. n \in Job /\ CallShape(n) /\ Becomes(r, [job[r] EXCEPT !.pc = "audit"])
    BY <1>3 DEF TypeOK, AllShaped, RecordDecision, Goto
  <2>2. n.outcome = job[r].outcome
    BY <1>3, EndForms DEF RecordDecision, TransferSound
  <2>3. ASSUME d.decision = "allow", Quarantined(r)'
        PROVE  Justified(n, approvals', bypasses', resolvedAt', insertedAt')
    <3>1. PastTheGate(n)
      BY <1>3, <2>2, <2>3 DEF PastTheGate, Allowing, Gated, Quarantined, Pinned
    <3> QED BY <3>1 DEF AllJustified, CallJustified
  <2> QED BY <1>1, <1>3, <2>3 DEF DecisionsOfCalls, Explained, Ended
<1> QED BY <1>2, <1>3, DecisionsGrow DEF TransferSound

LEMMA OwnNext ==
    ASSUME TransferSound, OwnSound, TypeOK', AllShaped', [Next]_vars
    PROVE  /\ GroundsGrow /\ decisions \subseteq decisions'
           /\ \A o \in observations : Kept(o, observations')
           /\ AllDated' /\ AllJustified' /\ DecisionsOfCalls'
           /\ Explained(decisions, approvals, bypasses)'
<1>1. AllDated' /\ AllJustified'
  BY DatedNext, JustifiedNext DEF TransferSound, OwnSound
<1>2. GroundsGrow
  BY GroundsGrowNext DEF TransferSound, OwnSound, AllDated
<1>3. \A o \in observations : Kept(o, observations')
  BY RowsKept DEF TransferSound
<1>4. decisions \subseteq decisions'
  BY DecisionsGrow DEF TransferSound
<1> QED BY <1>1, <1>2, <1>3, <1>4, OwnRecords

LEMMA OwnSoundNext ==
    ASSUME TransferSound, OwnSound, TypeOK', AllShaped', [Next]_vars, UNCHANGED transfer
    PROVE  OwnSound'
<1>1. /\ GroundsGrow /\ decisions \subseteq decisions'
      /\ \A o \in observations : Kept(o, observations')
      /\ AllDated' /\ AllJustified' /\ DecisionsOfCalls'
      /\ Explained(decisions, approvals, bypasses)'
  BY OwnNext
<1>2. file' = file /\ exported' = exported
  BY DEF transfer
<1>3. FileKept'
  <2>1. \A n \in file.observations : Kept(n, observations')
    BY <1>1, KeptTwice DEF OwnSound, FileKept
  <2> QED BY <1>1, <1>2, <2>1 DEF OwnSound, FileKept, GroundsGrow
<1>4. Explained(file.decisions, ApprovalsRead, BypassesRead)'
  <2>1. ApprovalsRead \subseteq ApprovalsRead' /\ BypassesRead \subseteq BypassesRead'
    BY <1>1, <1>2 DEF ApprovalsRead, BypassesRead, GroundsGrow
  <2>2. \A d \in file.decisions : d.req \in Requests /\ Ended(job[d.req])
    BY DEF OwnSound, FileKept, DecisionsOfCalls
  <2>3. Explained(file.decisions, ApprovalsRead, BypassesRead)
    BY DEF OwnSound
  <2>4. \A d \in file.decisions :
           d.decision = "allow" /\ Quarantined(d.req)'
           => Justified(job'[d.req], ApprovalsRead', BypassesRead', resolvedAt', insertedAt')
    BY <1>1, <2>1, <2>2, <2>3, ExplainedOnward DEF TransferSound
  <2> QED BY <1>2, <2>4 DEF Explained
<1> QED BY <1>1, <1>3, <1>4 DEF OwnSound

(* An own file brings back no more than was there.                          *)
LEMMA OwnSoundImport ==
    ASSUME TransferSound, TransferSound', OwnSound, ImportState(file)
    PROVE  OwnSound'
<1>1. /\ UNCHANGED <<decisions, approvals, freezes, bypasses>>
      /\ \A o \in observations : Kept(o, observations')
      /\ \A o \in observations' : Kept(o, observations)
  BY OwnImport DEF OwnSound
<1>2. UNCHANGED <<clock, job, resolvedAt, insertedAt, exported, file>>
  BY DEF ImportState, history
<1>3. AllDated'
  <2>1. RowsDated'
    BY <1>1, <1>2 DEF OwnSound, AllDated, RowsDated, Kept
  <2>2. InsertedWithRow'
    <3>1. ASSUME NEW t \in Tags, NEW d \in Digests
          PROVE  ObservationsOf(observations', t, d) # {}
                 <=> ObservationsOf(observations, t, d) # {}
      BY <1>1 DEF ObservationsOf, Kept
    <3> QED BY <1>2, <3>1 DEF OwnSound, AllDated, InsertedWithRow
  <2>3. ResolvedBefore'
    BY <1>2 DEF OwnSound, AllDated, ResolvedBefore
  <2>4. \A r \in Requests : CallDated(job'[r], clock', resolvedAt', insertedAt')
    BY <1>2 DEF OwnSound, AllDated
  <2> QED BY <2>1, <2>2, <2>3, <2>4 DEF AllDated
<1>4. AllJustified' /\ DecisionsOfCalls' /\ Explained(decisions, approvals, bypasses)'
  BY <1>1, <1>2 DEF OwnSound, AllJustified, DecisionsOfCalls, Explained, Quarantined, Pinned
<1>5. FileKept'
  <2>1. \A n \in file.observations : Kept(n, observations')
    BY <1>1, KeptTwice DEF OwnSound, FileKept
  <2> QED BY <1>1, <1>2, <2>1 DEF OwnSound, FileKept
<1>6. Explained(file.decisions, ApprovalsRead, BypassesRead)'
  BY <1>1, <1>2 DEF OwnSound, Explained, ApprovalsRead, BypassesRead, Quarantined, Pinned
<1> QED BY <1>3, <1>4, <1>5, <1>6 DEF OwnSound

(* The tables are read one after another: what explains a decision is read  *)
(* after it, and is no less by then.                                        *)
LEMMA OwnSoundExport ==
    ASSUME TransferSound, OwnSound, ExportBegins \/ ExportTable
    PROVE  OwnSound'
<1>1. UNCHANGED vars
  BY DEF ExportBegins, ExportTable
<1>2. AllDated' /\ AllJustified' /\ DecisionsOfCalls' /\ Explained(decisions, approvals, bypasses)'
  BY <1>1 DEF OwnSound, AllDated, RowsDated, InsertedWithRow, ResolvedBefore, CallDated,
              AllJustified, DecisionsOfCalls, Explained, Quarantined, Pinned, vars, tables,
              history
<1>3. CASE ExportBegins
  <2>1. file' = NoRows /\ \A t \in TableNames : file'[t] = {}
    BY <1>3, NoRowsType DEF ExportBegins
  <2>2. /\ file'.decisions = {} /\ file'.observations = {} /\ file'.approvals = {}
        /\ file'.freezes = {} /\ file'.bypasses = {}
    BY <2>1 DEF TableNames
  <2>3. FileKept' /\ Explained(file.decisions, ApprovalsRead, BypassesRead)'
    BY <2>2 DEF FileKept, Explained
  <2> QED BY <1>2, <2>3 DEF OwnSound
<1>4. CASE ExportTable
  <2> DEFINE t == TableOrder[exported + 1]
  <2>1. /\ exported \in 0..5 /\ exported' = exported + 1
        /\ \A u \in TableNames : file'[u] = IF u = t THEN TableRows[u] ELSE file[u]
    BY <1>4, ExportTableSound
  <2>2. /\ exported = 0 => t = "observations"
        /\ exported = 1 => t = "decisions"
        /\ exported = 2 => t = "approvals"
        /\ exported = 3 => t = "freezes"
        /\ exported = 4 => t = "bypasses"
        /\ exported = 5 => t = "cosign"
    BY Order
  <2> HIDE DEF t
  <2>3. /\ file'.observations = IF t = "observations" THEN observations
                                ELSE file.observations
        /\ file'.decisions = IF t = "decisions" THEN decisions ELSE file.decisions
        /\ file'.approvals = IF t = "approvals" THEN approvals ELSE file.approvals
        /\ file'.freezes = IF t = "freezes" THEN freezes ELSE file.freezes
        /\ file'.bypasses = IF t = "bypasses" THEN bypasses ELSE file.bypasses
    BY <2>1, TableRowsFields DEF TableNames
  <2>4. /\ observations' = observations /\ approvals' = approvals /\ freezes' = freezes
        /\ bypasses' = bypasses /\ decisions' = decisions /\ job' = job
        /\ resolvedAt' = resolvedAt /\ insertedAt' = insertedAt
    BY <1>1 DEF vars, tables, history
  <2>5. FileKept'
    BY <2>3, <2>4 DEF OwnSound, FileKept, Kept
  <2>6. Explained(file.decisions, ApprovalsRead, BypassesRead)'
    <3>1. /\ t = "decisions" => /\ file'.decisions = decisions
                                /\ ApprovalsRead' = approvals /\ BypassesRead' = bypasses
          /\ t # "decisions" => /\ file'.decisions = file.decisions
                                /\ ApprovalsRead' = ApprovalsRead
                                /\ BypassesRead' = BypassesRead
      <4>1. exported = 0 \/ exported = 1 \/ exported = 2 \/ exported = 3
            \/ exported = 4 \/ exported = 5
        BY <2>1
      <4> QED BY <2>1, <2>2, <2>3, <2>4, <4>1 DEF ApprovalsRead, BypassesRead
    <3> QED BY <2>4, <3>1 DEF OwnSound, Explained, Quarantined, Pinned
  <2> QED BY <1>2, <2>5, <2>6 DEF OwnSound
<1> QED BY <1>3, <1>4

LEMMA OwnFilesNext ==
    ASSUME TransferSound, TransferSound', OwnFilesSound, [TransferNext]_allVars,
           imported' = {}
    PROVE  OwnSound' /\ KeepsRows
<1>1. TypeOK' /\ AllShaped'
  BY DEF TransferSound
<1>2. CASE Next /\ UNCHANGED transfer
  <2>1. OwnSound
    BY <1>2 DEF OwnFilesSound, transfer
  <2>2. OwnSound'
    BY <1>1, <1>2, <2>1, OwnSoundNext
  <2>3. /\ GroundsGrow /\ decisions \subseteq decisions'
        /\ \A o \in observations : Kept(o, observations')
    BY <1>1, <1>2, <2>1, OwnNext
  <2>4. KeepsRows
    BY <2>3 DEF KeepsRows, GroundsGrow, Kept, Snap
  <2> QED BY <2>2, <2>4
<1>3. CASE ImportOwn
  <2>1. OwnSound /\ ImportState(file)
    BY <1>3 DEF ImportOwn, OwnFilesSound
  <2>2. /\ UNCHANGED <<decisions, approvals, freezes, bypasses>>
        /\ \A o \in observations : Kept(o, observations')
    BY <2>1, OwnImport DEF OwnSound
  <2> QED BY <2>1, <2>2, OwnSoundImport DEF KeepsRows, Kept, Snap
<1>4. CASE ExportBegins \/ ExportTable
  <2>1. UNCHANGED vars /\ imported' = imported
    BY <1>4 DEF ExportBegins, ExportTable
  <2> QED BY <1>4, <2>1, OwnSoundExport DEF OwnFilesSound, KeepsRows, vars, tables
<1>5. ASSUME NEW f \in PeerFiles, ImportPeer(f)
      PROVE  FALSE
  BY <1>5 DEF ImportPeer
<1>6. CASE UNCHANGED allVars
  <2>1. UNCHANGED vars /\ UNCHANGED transfer
    BY <1>6 DEF allVars
  <2>2. OwnSound
    BY <2>1 DEF OwnFilesSound, transfer
  <2>3. OwnSound'
    BY <1>1, <2>1, <2>2, OwnSoundNext
  <2> QED BY <2>1, <2>3 DEF KeepsRows, vars, tables
<1> QED BY <1>2, <1>3, <1>4, <1>5, <1>6 DEF TransferNext

LEMMA OwnFilesInvariant == TransferSpec => []OwnFilesSound
<1>1. TransferInit => OwnSound
  <2>1. Init => AllDated /\ AllJustified
    BY DEF Init, AllDated, RowsDated, InsertedWithRow, ResolvedBefore, CallDated, NewJob,
           ObservationsOf, DigestSteps, ReadSteps, VerifySteps, Never, AllJustified,
           CallJustified, PastTheGate, Allowing, OverrideSteps
  <2>2. /\ NoRows.decisions = {} /\ NoRows.observations = {} /\ NoRows.approvals = {}
        /\ NoRows.freezes = {} /\ NoRows.bypasses = {}
    BY NoRowsType DEF TableNames
  <2>3. TransferInit => /\ FileKept /\ DecisionsOfCalls
                        /\ Explained(decisions, approvals, bypasses)
                        /\ Explained(file.decisions, ApprovalsRead, BypassesRead)
    BY <2>2 DEF TransferInit, Init, FileKept, DecisionsOfCalls, Explained
  <2> QED BY <2>1, <2>3 DEF OwnSound, TransferInit
<1>2. TransferSound /\ TransferSound' /\ OwnFilesSound /\ [TransferNext]_allVars
      => OwnFilesSound'
  BY OwnFilesNext DEF OwnFilesSound
<1> QED BY <1>1, <1>2, TransferStaysSound, PTL DEF TransferSpec, OwnFilesSound

(* While only files of this database are imported, however old they are and *)
(* whatever overlapped with their export, no step loses a freeze, an        *)
(* approval, a bypass, a decision or an observation: ids are never reused   *)
(* and a row keeps its id (ExportState and ImportState, sqlite.go:497-609). *)
THEOREM OwnFilesKeepState == TransferSpec => OwnFileKeepsState
<1>1. TransferSound /\ TransferSound' /\ OwnFilesSound /\ [TransferNext]_allVars
      => [imported' = {} => KeepsRows]_allVars
  BY OwnFilesNext
<1> QED BY <1>1, TransferStaysSound, OwnFilesInvariant, PTL
        DEF TransferSpec, OwnFileKeepsState

(* A complete export of this database explains the allows it holds although *)
(* its tables were read one after another while decisions were made         *)
(* (ExportState, sqlite.go:497-531: decisions first, overrides after).      *)
THEOREM ExportsExplainAllows == TransferSpec => []ExportExplainsAllows
<1>1. TransferSound /\ OwnFilesSound => ExportExplainsAllows
  <2>1. Complete => exported >= 5 /\ exported >= 3
    BY Order DEF Complete
  <2> QED BY <2>1 DEF OwnFilesSound, OwnSound, ExportExplainsAllows, Explained,
                      ApprovalsRead, BypassesRead
<1> QED BY <1>1, TransferStaysSound, OwnFilesInvariant, PTL

-----------------------------------------------------------------------------
(* With files of other hosts.                                               *)

(* At that time the tuple k was known: some call of this host had learnt of *)
(* it, or a host that lent its rows had had one of it for Slack.            *)
Known(k, at, resolved, lent) ==
    \/ resolved[k] # Never /\ resolved[k] <= at
    \/ \E o \in lent : k = <<o.tag, o.digest>> /\ o.firstSeenAt + Slack <= at

RowsKnown ==
    \A o \in observations \cup file.observations :
        Known(<<o.tag, o.digest>>, o.firstSeenAt + Slack, resolvedAt, Lent)

CallKnown(j, time, resolved, lent) ==
    LET k == <<j.tag, j.digest>> IN
    /\ j.pc = "resolve" => time <= j.now + MaxResolve
    /\ j.pc \in DigestSteps /\ j.pin = NoDigest =>
          resolved[k] # Never /\ resolved[k] <= j.now + MaxResolve
    /\ j.pc = "touch" => Known(k, j.obs.firstSeenAt + Slack, resolved, lent)

(* Imports alone delete overrides.  A row that an import takes away makes   *)
(* its digest new at any time.  since is when the tuples a call found old   *)
(* enough were known.                                                       *)
ApprovedEver == approvals \cup replaced.approvals
BypassedEver == bypasses \cup replaced.bypasses
AlwaysNew(j) == [k \in Tags \X Digests |-> j.now]
KnownTimes(resolved, lent) ==
    {since \in [Tags \X Digests -> Time] :
        \A k \in Tags \X Digests :
            since[k] # Never => Known(k, since[k], resolved, lent)}
CallReasoned(j, approved, bypassed, times) ==
    \E since \in times : CallJustified(j, approved, bypassed, since, AlwaysNew(j))

AllLent ==
    /\ ResolvedBefore /\ RowsKnown
    /\ \A r \in Requests :
          /\ CallKnown(job[r], clock, resolvedAt, Lent)
          /\ CallReasoned(job[r], ApprovedEver, BypassedEver,
                          KnownTimes(resolvedAt, Lent))

(* What is known stays known, and what was ever an override stays one.      *)
LentGrow ==
    /\ Lent \subseteq Lent' /\ clock \in Nat /\ clock <= clock'
    /\ \A k \in Tags \X Digests : resolvedAt[k] # Never => resolvedAt'[k] = resolvedAt[k]
    /\ ApprovedEver \subseteq ApprovedEver' /\ BypassedEver \subseteq BypassedEver'

LEMMA KnownOnward ==
    ASSUME LentGrow, NEW k \in Tags \X Digests, NEW at, Known(k, at, resolvedAt, Lent)
    PROVE  Known(k, at, resolvedAt', Lent')
BY DEF LentGrow, Known

LEMMA TimesOnward ==
    ASSUME LentGrow
    PROVE  KnownTimes(resolvedAt, Lent) \subseteq KnownTimes(resolvedAt', Lent')
<1> SUFFICES ASSUME NEW since \in KnownTimes(resolvedAt, Lent)
             PROVE  since \in KnownTimes(resolvedAt', Lent')
  OBVIOUS
<1>1. /\ since \in [Tags \X Digests -> Time]
      /\ \A k \in Tags \X Digests :
            since[k] # Never => Known(k, since[k], resolvedAt, Lent)
  BY DEF KnownTimes
<1>2. \A k \in Tags \X Digests : since[k] # Never => Known(k, since[k], resolvedAt', Lent')
  BY <1>1, KnownOnward
<1> QED BY <1>1, <1>2 DEF KnownTimes

LEMMA ReasonedOnward ==
    ASSUME LentGrow, NEW j,
           CallReasoned(j, ApprovedEver, BypassedEver, KnownTimes(resolvedAt, Lent))
    PROVE  CallReasoned(j, ApprovedEver', BypassedEver', KnownTimes(resolvedAt', Lent'))
<1>1. PICK since \in KnownTimes(resolvedAt, Lent) :
         CallJustified(j, ApprovedEver, BypassedEver, since, AlwaysNew(j))
  BY DEF CallReasoned
<1>2. /\ ApprovalFor(ApprovedEver, j) => ApprovalFor(ApprovedEver', j)
      /\ BypassFor(BypassedEver, j) => BypassFor(BypassedEver', j)
  BY DEF LentGrow, ApprovalFor, BypassFor
<1>3. CallJustified(j, ApprovedEver', BypassedEver', since, AlwaysNew(j))
  BY <1>1, <1>2 DEF CallJustified, Justified
<1> QED BY <1>1, <1>3, TimesOnward DEF CallReasoned

LEMMA KnownCallOnward ==
    ASSUME TypeOK, LentGrow, NEW r \in Requests, CallShape(job[r]),
           CallKnown(job[r], clock, resolvedAt, Lent),
           job[r].pc = "resolve" => clock' <= job[r].now + MaxResolve
    PROVE  CallKnown(job[r], clock', resolvedAt', Lent')
<1> DEFINE j == job[r]
           k == <<j.tag, j.digest>>
<1>1. j.pc \in DigestSteps /\ j.pin = NoDigest => k \in Tags \X Digests
  BY DEF CallShape
<1>2. j.pc = "touch" => j.pc \in DigestSteps /\ j.pin = NoDigest
  BY DEF CallShape, DigestSteps, ObservationSteps
<1>3. j.pc \in DigestSteps /\ j.pin = NoDigest =>
         resolvedAt'[k] # Never /\ resolvedAt'[k] <= j.now + MaxResolve
  BY <1>1 DEF CallKnown, LentGrow
<1>4. j.pc = "touch" => Known(k, j.obs.firstSeenAt + Slack, resolvedAt', Lent')
  BY <1>1, <1>2, KnownOnward DEF CallKnown
<1> QED BY <1>3, <1>4 DEF CallKnown

(* The row of a call dates from the second it began in, which is less than  *)
(* Slack before the registry's answer.                                      *)
LEMMA RowsKnownNext ==
    ASSUME TransferSound, AllLent, LentGrow, [Next]_vars
    PROVE  \A o \in observations' :
              Known(<<o.tag, o.digest>>, o.firstSeenAt + Slack, resolvedAt', Lent')
<1>0. /\ observations \in SUBSET ObservationRow
      /\ \A o \in observations : <<o.tag, o.digest>> \in Tags \X Digests
  BY DEF TransferSound, TypeOK, ObservationRow
<1>1. \A o \in observations :
         Known(<<o.tag, o.digest>>, o.firstSeenAt + Slack, resolvedAt', Lent')
  BY <1>0, KnownOnward DEF AllLent, RowsKnown
<1>2. CASE observations' = observations
  BY <1>1, <1>2
<1>3. CASE \E r \in Requests : TouchObservation(r) \/ MarkAllowed(r)
  <2>1. PICK r \in Requests : TouchObservation(r) \/ MarkAllowed(r)
    BY <1>3
  <2>2. \/ observations' = Touched(observations, job[r].obs.id, job[r].now)
        \/ observations' = MarkedAllowed(observations, job[r].obs.id, job[r].now)
    BY <2>1 DEF TouchObservation, MarkAllowed
  <2>3. Refreshed(observations', observations)
    BY <1>0, <2>2, UpdateRefreshes
  <2>4. ASSUME NEW n \in observations'
        PROVE  Known(<<n.tag, n.digest>>, n.firstSeenAt + Slack, resolvedAt', Lent')
    <3>1. PICK o \in observations :
             n.tag = o.tag /\ n.digest = o.digest /\ n.firstSeenAt = o.firstSeenAt
      BY <2>3 DEF Refreshed
    <3> QED BY <1>1, <3>1
  <2> QED BY <2>4
<1>4. ASSUME NEW r \in Requests, CreateObservation(r)
      PROVE  \A o \in observations' :
                Known(<<o.tag, o.digest>>, o.firstSeenAt + Slack, resolvedAt', Lent')
  <2> DEFINE j == job[r]
             k == <<j.tag, j.digest>>
             row == FreshObservation(seq.observations + 1, j.tag, j.digest, j.now)
  <2>1. /\ j \in Job /\ j.now \in Nat /\ j.pc \in DigestSteps /\ j.pin = NoDigest
        /\ k \in Tags \X Digests
    BY <1>4 DEF TransferSound, AllShaped, CallShape, CreateObservation, DigestSteps,
                ObservationSteps, TypeOK, Job
  <2>2. row.tag = j.tag /\ row.digest = j.digest /\ row.firstSeenAt = Unix(j.now)
    BY DEF FreshObservation
  <2>3. resolvedAt[k] # Never /\ resolvedAt[k] <= j.now + MaxResolve
    BY <2>1 DEF AllLent, CallKnown
  <2>4. /\ Unix(j.now) \in Nat /\ j.now - Unix(j.now) <= TicksPerSecond - 1
    BY <2>1, UnixBounds
  <2>5. resolvedAt[k] <= Unix(j.now) + Slack
    <3>1. resolvedAt[k] \in Nat
      BY <2>1, <2>3 DEF TransferSound, TypeOK, Time
    <3> HIDE DEF j, k
    <3> QED BY <2>1, <2>3, <2>4, <3>1, TicksAssumption, BoundsAssumption DEF Slack
  <2>6. observations' \subseteq observations \cup {row}
    BY <1>4 DEF CreateObservation, InsertOrIgnore
  <2>7. Known(<<row.tag, row.digest>>, row.firstSeenAt + Slack, resolvedAt, Lent)
    BY <2>2, <2>3, <2>5 DEF Known
  <2> HIDE DEF row
  <2>8. Known(<<row.tag, row.digest>>, row.firstSeenAt + Slack, resolvedAt', Lent')
    BY <2>1, <2>2, <2>7, KnownOnward
  <2> QED BY <1>1, <2>6, <2>8
<1>5. ASSUME NEW r \in Requests, ResolveDigest(r)
      PROVE  observations' = observations
  BY <1>5 DEF ResolveDigest, tables
<1>6. CASE Operator \/ Environment \/ UNCHANGED vars
  <2>1. observations' = observations
    BY <1>6 DEF Operator, Environment, ApproveDigest, FreezeTag, BypassTag, Tick,
                MoveTag, vars, tables
  <2> QED BY <1>2, <2>1
<1>7. CASE \E r \in Requests : BeginAny(r) \/ Progress(r) \/ Die(r)
  BY <1>2, <1>3, <1>4, <1>5, <1>7, IdleSteps DEF Progress, Idle
<1> QED BY <1>6, <1>7 DEF Next

LEMMA ResolvedBeforeNext ==
    ASSUME TransferSound, ResolvedBefore, TypeOK', [Next]_vars
    PROVE  ResolvedBefore'
<1>1. CASE UNCHANGED resolvedAt
  <2>1. Onward
    BY OnwardNext DEF TransferSound
  <2> QED BY <1>1, <2>1 DEF ResolvedBefore, Onward, TransferSound, TypeOK, Time, Never
<1>2. ASSUME NEW r \in Requests, ResolveDigest(r)
      PROVE  ResolvedBefore'
  <2> DEFINE k == <<job[r].tag, registry[job[r].tag]>>
  <2>1. /\ resolvedAt' = IF resolvedAt[k] = Never
                         THEN [resolvedAt EXCEPT ![k] = clock] ELSE resolvedAt
        /\ clock' = clock
    BY <1>2, Zenon DEF ResolveDigest
  <2>2. resolvedAt \in [Tags \X Digests -> Time] /\ clock \in Nat
    BY DEF TransferSound, TypeOK
  <2> HIDE DEF k
  <2> QED BY <2>1, <2>2 DEF ResolvedBefore
<1>3. ASSUME NEW r \in Requests,
             CreateObservation(r) \/ TouchObservation(r) \/ MarkAllowed(r)
      PROVE  UNCHANGED resolvedAt
  BY <1>3 DEF CreateObservation, TouchObservation, MarkAllowed, history
<1>4. CASE Operator \/ Environment \/ UNCHANGED vars
  <2>1. UNCHANGED resolvedAt
    BY <1>4 DEF Operator, Environment, ApproveDigest, FreezeTag, BypassTag, Tick,
                MoveTag, vars, history
  <2> QED BY <1>1, <2>1
<1>5. CASE \E r \in Requests : BeginAny(r) \/ Progress(r) \/ Die(r)
  BY <1>1, <1>2, <1>3, <1>5, IdleSteps DEF Progress, Idle
<1> QED BY <1>4, <1>5 DEF Next

LEMMA KnownLater ==
    ASSUME NEW j, NEW n, NEW time, NEW resolved, NEW lent,
           CallKnown(j, time, resolved, lent),
           \/ Later(n, j) \/ \E v : Stops(n, j, v)
           \/ Keeps(n, j) /\ n.pc = "reget" /\ j.pc = "create"
    PROVE  CallKnown(n, time, resolved, lent)
BY DEF CallKnown, Later, Stops, Same, Keeps, Reads, DigestSteps, ReadSteps, VerifySteps

(* What the call that moves knows of the times.                             *)
LEMMA KnownMoves ==
    ASSUME TransferSound, AllLent, LentGrow, ResolvedBefore', TypeOK', NEW r \in Requests,
           BeginAny(r) \/ Progress(r) \/ Die(r),
           CallKnown(job[r], clock', resolvedAt', Lent')
    PROVE  CallKnown(job'[r], clock', resolvedAt', Lent')
<1> DEFINE j == job[r]
           n == job'[r]
           k == <<j.tag, j.digest>>
<1>0. /\ TypeOK /\ j \in Job /\ CallShape(j) /\ j.now \in Nat
      /\ CallKnown(j, clock, resolvedAt, Lent)
  BY DEF TransferSound, TypeOK, AllShaped, AllLent, Job
<1>1. CASE \E tag \in AnyTag, pin \in AnyDigest, p \in Policies : Begin(r, tag, pin, p)
  <2>1. /\ n.now = clock /\ clock' = clock
        /\ n.pc \in {"resolve", "record"} \/ (n.pc = "freeze" /\ n.pin # NoDigest)
    <3>1. PICK tag \in AnyTag, pin \in AnyDigest, p \in Policies : Begin(r, tag, pin, p)
      BY <1>1
    <3>2. clock' = clock
      BY <3>1 DEF Begin
    <3> QED BY <1>0, <3>1, <3>2, BeginForms
  <2>2. clock <= clock + MaxResolve
    BY <1>0, BoundsAssumption DEF TypeOK
  <2> HIDE DEF n
  <2>3. CallKnown(n, clock', resolvedAt', Lent')
    BY <2>1, <2>2 DEF CallKnown, DigestSteps, ReadSteps, VerifySteps
  <2> QED BY <2>3 DEF n
<1>2. CASE ResolveDigest(r)
  <2> DEFINE d == registry[j.tag]
             q == <<j.tag, d>>
  <2>1. /\ Same(n, j) /\ n.digest = d /\ n.pc = "freeze"
        /\ j.pc = "resolve" /\ clock' = clock
    BY <1>0, <1>2, ResolveForms DEF ResolveDigest
  <2>2. q \in Tags \X Digests
    BY <1>0, <2>1 DEF CallShape, TypeOK
  <2>3. /\ resolvedAt' = IF resolvedAt[q] = Never
                         THEN [resolvedAt EXCEPT ![q] = clock] ELSE resolvedAt
    BY <1>2, Zenon DEF ResolveDigest
  <2>4. /\ clock \in Nat /\ resolvedAt \in [Tags \X Digests -> Time]
        /\ resolvedAt' \in [Tags \X Digests -> Time]
    BY <1>0 DEF TypeOK
  <2>5. clock <= j.now + MaxResolve
    BY <1>0, <2>1 DEF CallKnown
  <2> HIDE DEF d, q, j, n
  <2>6. resolvedAt'[q] # Never
    BY <2>2, <2>3, <2>4 DEF Never
  <2>7. resolvedAt'[q] <= clock
    BY <2>1, <2>2 DEF ResolvedBefore
  <2>8. resolvedAt'[q] <= j.now + MaxResolve
    BY <1>0, <2>2, <2>4, <2>5, <2>7, BoundsAssumption DEF Time, Never
  <2> QED BY <2>1, <2>6, <2>8 DEF CallKnown, Same, q, j, n
<1>3. CASE ReadObservation(r)
  <2>1. /\ Same(n, j) /\ n.digest = j.digest /\ j.pc = "get"
        /\ \/ n.pc = "create"
           \/ n.pc = "touch" /\ \E o \in Row(r) : n.obs = Snap(o)
    BY <1>0, <1>3, ObservationForms DEF ReadObservation
  <2>2. j.pin = NoDigest /\ k \in Tags \X Digests /\ j.pc \in DigestSteps
    BY <1>0, <2>1 DEF CallShape, DigestSteps, ReadSteps, ObservationSteps
  <2>3. \A o \in Row(r) : Known(k, o.firstSeenAt + Slack, resolvedAt, Lent)
    BY DEF AllLent, RowsKnown, Row, ObservationsOf
  <2>4. n.pc = "touch" => Known(k, n.obs.firstSeenAt + Slack, resolvedAt', Lent')
    <3>1. \A o \in Row(r) : Snap(o).firstSeenAt = o.firstSeenAt
      BY DEF Snap
    <3>2. \A o \in Row(r) : Known(k, Snap(o).firstSeenAt + Slack, resolvedAt, Lent)
      BY <2>3, <3>1
    <3> HIDE DEF k, n
    <3> QED BY <2>1, <2>2, <3>2, KnownOnward
  <2>5. resolvedAt'[k] # Never /\ resolvedAt'[k] <= j.now + MaxResolve
    BY <2>2 DEF CallKnown
  <2> HIDE DEF j, n
  <2> QED BY <2>1, <2>4, <2>5 DEF CallKnown, Same, j, n, k
<1>4. CASE CreateObservation(r)
  <2>1. Keeps(n, j) /\ j.pc = "create" /\ n.pc = "reget"
    BY <1>0, <1>4, EndForms DEF CreateObservation
  <2> QED BY <2>1, KnownLater
<1>5. CASE \/ ResolveFails(r) \/ ReadFreeze(r) \/ ReadApproval(r) \/ ReadBypass(r)
           \/ ReadCreated(r) \/ TouchObservation(r) \/ ReadCosignCache(r)
           \/ (\E s \in BOOLEAN : CosignAnswers(r, s)) \/ RecordCosign(r)
           \/ MarkAllowed(r) \/ VerificationFails(r)
           \/ RecordDecision(r) \/ WriteAudit(r) \/ CallFails(r)
           \/ BeginMalformed(r) \/ Die(r)
  BY <1>0, <1>5, LaterForms, KnownLater
<1> QED BY <1>1, <1>2, <1>3, <1>4, <1>5 DEF BeginAny, Progress

(* What the call that moves rests on.                                       *)
LEMMA ReasonedMoves ==
    ASSUME TransferSound, AllLent, TypeOK', NEW r \in Requests,
           BeginAny(r) \/ Progress(r) \/ Die(r)
    PROVE  CallReasoned(job'[r], ApprovedEver, BypassedEver, KnownTimes(resolvedAt, Lent))
<1> DEFINE j == job[r]
           n == job'[r]
           k == <<j.tag, j.digest>>
           times == KnownTimes(resolvedAt, Lent)
<1>0. /\ TypeOK /\ AllShaped /\ j \in Job /\ n \in Job /\ CallShape(j)
      /\ CallReasoned(j, ApprovedEver, BypassedEver, times)
      /\ CallKnown(j, clock, resolvedAt, Lent)
      /\ approvals \subseteq ApprovedEver /\ bypasses \subseteq BypassedEver
  BY DEF TransferSound, TypeOK, AllShaped, AllLent, ApprovedEver, BypassedEver
<1>1. PICK since \in times :
         CallJustified(j, ApprovedEver, BypassedEver, since, AlwaysNew(j))
  BY <1>0 DEF CallReasoned
<1> HIDE DEF times
<1>2. CASE BeginAny(r) /\ ~BeginMalformed(r)
  <2>1. /\ n.answer = "none"
        /\ \/ n.pc \in {"freeze", "resolve"}
           \/ n.pc = "record" /\ n.digest = NoDigest
    BY <1>0, <1>2, BeginForms DEF BeginAny
  <2>2. CallJustified(n, ApprovedEver, BypassedEver, since, AlwaysNew(n))
    BY <2>1 DEF CallJustified, PastTheGate, Allowing, Gated, OverrideSteps, VerifySteps
  <2> QED BY <1>1, <2>2 DEF CallReasoned, times
<1>3. ASSUME NEW s \in times,
             CallJustified(n, ApprovedEver, BypassedEver, s, AlwaysNew(j)),
             n.now = j.now
      PROVE  CallReasoned(n, ApprovedEver, BypassedEver, times)
  BY <1>3 DEF CallReasoned, AlwaysNew
<1>4. CASE \/ ResolveDigest(r) \/ ResolveFails(r)
           \/ ReadFreeze(r) \/ ReadApproval(r) \/ ReadBypass(r) \/ ReadObservation(r)
  <2>1. CallJustified(n, ApprovedEver, BypassedEver, since, AlwaysNew(j))
    BY <1>0, <1>1, <1>4, JustifiedEarly
  <2>2. n.now = j.now
    BY <1>0, <1>4, ResolveForms, ResolveFailsForms, FreezeForms, ApprovalForms,
       BypassForms, ObservationForms DEF Keeps, Same
  <2> QED BY <1>1, <1>3, <2>1, <2>2 DEF times
<1>5. CASE ReadCreated(r)
  <2>1. k \in Tags \X Digests
    BY <1>0, <1>5 DEF ReadCreated, CallShape, DigestSteps, ReadSteps, ObservationSteps
  <2>2. AlwaysNew(j)[k] >= j.now
    BY <1>0, <2>1 DEF AlwaysNew, Job
  <2>3. since \in [Tags \X Digests -> Time]
    BY <1>1 DEF times, KnownTimes
  <2>4. CallJustified(n, ApprovedEver, BypassedEver, since, AlwaysNew(j))
    BY <1>0, <1>1, <1>5, <2>2, <2>3, JustifiedGate DEF ReadCreated, TouchObservation
  <2>5. n.now = j.now
    BY <1>0, <1>5, CreatedForms DEF Keeps, Same, Stops
  <2> QED BY <1>1, <1>3, <2>4, <2>5 DEF times
<1>6. CASE TouchObservation(r)
  <2> DEFINE seen == j.obs.firstSeenAt + Slack
             then == [q \in Tags \X Digests |-> IF q = k THEN seen ELSE Never]
  <2>1. /\ k \in Tags \X Digests /\ j.pc = "touch" /\ j.answer = "none"
        /\ j.obs.firstSeenAt \in Nat /\ Slack \in Nat
    <3>1. j.pc = "touch" /\ k \in Tags \X Digests /\ j.answer = "none"
      BY <1>0, <1>6, Unanswered
      DEF TouchObservation, CallShape, DigestSteps, ReadSteps, ObservationSteps
    <3>2. j.obs \in Snapshot
      BY <1>0 DEF Job
    <3>3. Slack \in Nat
      BY TicksAssumption, BoundsAssumption DEF Slack
    <3> HIDE DEF j, k
    <3> QED BY <3>1, <3>2, <3>3 DEF Snapshot
  <2>2. Known(k, seen, resolvedAt, Lent)
    BY <1>0, <2>1 DEF CallKnown
  <2>3. /\ then \in [Tags \X Digests -> Time] /\ then[k] = seen /\ seen # Never
        /\ \A q \in Tags \X Digests : then[q] # Never => q = k
    <3> HIDE DEF j, k
    <3> QED BY <2>1 DEF Time, Never
  <2> HIDE DEF then
  <2>4. then \in times
    BY <2>2, <2>3 DEF times, KnownTimes
  <2>5. CallJustified(j, ApprovedEver, BypassedEver, then, AlwaysNew(j))
    BY <1>1, <2>1 DEF CallJustified, PastTheGate, Allowing, VerifySteps
  <2>6. j.obs.firstSeenAt >= then[k] - Slack
    <3> HIDE DEF j, k
    <3> QED BY <2>1, <2>3
  <2>7. CallJustified(n, ApprovedEver, BypassedEver, then, AlwaysNew(j))
    BY <1>0, <1>6, <2>1, <2>3, <2>5, <2>6, JustifiedGate DEF ReadCreated
  <2>8. n.now = j.now
    BY <1>0, <1>6, EndForms, PassedForms
    DEF TouchObservation, AllowWithVerification, Keeps, Same, Stops
  <2> QED BY <1>3, <2>4, <2>7, <2>8 DEF times
<1>7. CASE \/ CreateObservation(r) \/ ReadCosignCache(r) \/ RecordCosign(r)
           \/ (\E s \in BOOLEAN : CosignAnswers(r, s))
           \/ MarkAllowed(r) \/ VerificationFails(r)
           \/ RecordDecision(r) \/ WriteAudit(r) \/ CallFails(r)
           \/ BeginMalformed(r) \/ Die(r)
  <2>1. CallJustified(n, ApprovedEver, BypassedEver, since, AlwaysNew(j))
    BY <1>0, <1>1, <1>7, JustifiedAfter
  <2>2. n.now = j.now
    BY <1>0, <1>7, LaterForms, EndForms DEF CreateObservation, Later, Keeps, Same, Stops
  <2> QED BY <1>1, <1>3, <2>1, <2>2 DEF times
<1> QED BY <1>2, <1>4, <1>5, <1>6, <1>7 DEF BeginAny, Progress

LEMMA LentGrowNext ==
    ASSUME TransferSound, [Next]_vars, UNCHANGED transfer
    PROVE  LentGrow
<1>1. Onward /\ clock \in Nat
  BY OnwardNext DEF TransferSound, TypeOK
<1> QED BY <1>1 DEF Onward, LentGrow, transfer, Lent, ApprovedEver, BypassedEver

LEMMA LentGrowImport ==
    ASSUME TransferSound, NEW f, Importable(f), ImportState(f), imported \subseteq imported'
    PROVE  LentGrow
<1>1. Lent \subseteq Lent'
  BY DEF Lent
<1>2. UNCHANGED <<clock, resolvedAt>>
  BY DEF ImportState, history
<1>3. /\ "approvals" \in DOMAIN NoRows /\ "bypasses" \in DOMAIN NoRows
      /\ approvals' = ImportedTables(f)["approvals"]
      /\ bypasses' = ImportedTables(f)["bypasses"]
  BY Order DEF NoRows, TableNames, ImportState, ImportedTables
<1>4. /\ replaced'["approvals"] = replaced["approvals"] \cup (approvals \ approvals')
      /\ replaced'["bypasses"] = replaced["bypasses"] \cup (bypasses \ bypasses')
  BY <1>3, TableRowsFields DEF ImportState
<1>5. ApprovedEver \subseteq ApprovedEver' /\ BypassedEver \subseteq BypassedEver'
  BY <1>4 DEF ApprovedEver, BypassedEver
<1> QED BY <1>1, <1>2, <1>5 DEF LentGrow, TransferSound, TypeOK

LEMMA LentNext ==
    ASSUME TransferSound, TransferSound', AllLent, [Next]_vars, UNCHANGED transfer
    PROVE  AllLent'
<1>1. LentGrow /\ ResolvedBefore'
  BY LentGrowNext, ResolvedBeforeNext DEF AllLent, TransferSound
<1>2. TypeOK /\ TypeOK' /\ AllShaped
  BY DEF TransferSound
<1>3. RowsKnown'
  <2>1. \A o \in observations' :
           Known(<<o.tag, o.digest>>, o.firstSeenAt + Slack, resolvedAt', Lent')
    BY <1>1, RowsKnownNext
  <2>2. \A o \in file.observations : <<o.tag, o.digest>> \in Tags \X Digests
    BY DEF TransferSound, TableSets, ObservationRow
  <2>3. \A o \in file.observations :
           Known(<<o.tag, o.digest>>, o.firstSeenAt + Slack, resolvedAt', Lent')
    BY <1>1, <2>2, KnownOnward DEF AllLent, RowsKnown
  <2> QED BY <2>1, <2>3 DEF RowsKnown, transfer
<1>4. \A q \in Requests : CallKnown(job[q], clock', resolvedAt', Lent')
  <2>1. \A q \in Requests : job[q].pc = "resolve" => clock' <= job[q].now + MaxResolve
    BY <1>2, ResolveWaits DEF AllLent, CallKnown
  <2> QED BY <1>1, <1>2, <2>1, KnownCallOnward DEF AllLent, AllShaped
<1>5. ASSUME NEW q \in Requests, job'[q] = job[q]
      PROVE  /\ CallKnown(job'[q], clock', resolvedAt', Lent')
             /\ CallReasoned(job'[q], ApprovedEver', BypassedEver',
                             KnownTimes(resolvedAt', Lent'))
  BY <1>1, <1>4, <1>5, ReasonedOnward DEF AllLent
<1>6. ASSUME NEW r \in Requests, BeginAny(r) \/ Progress(r) \/ Die(r), NEW q \in Requests
      PROVE  /\ CallKnown(job'[q], clock', resolvedAt', Lent')
             /\ CallReasoned(job'[q], ApprovedEver', BypassedEver',
                             KnownTimes(resolvedAt', Lent'))
  <2>1. CASE q # r
    BY <1>2, <1>5, <1>6, <2>1, OneMoves
  <2>2. CASE q = r
    <3>1. CallKnown(job'[q], clock', resolvedAt', Lent')
      BY <1>1, <1>2, <1>4, <1>6, <2>2, KnownMoves
    <3>2. CallReasoned(job'[q], ApprovedEver, BypassedEver, KnownTimes(resolvedAt, Lent))
      BY <1>2, <1>6, <2>2, ReasonedMoves
    <3> QED BY <1>1, <3>1, <3>2, ReasonedOnward
  <2> QED BY <2>1, <2>2
<1>7. CASE Operator \/ Environment \/ UNCHANGED vars
  <2>1. UNCHANGED job
    BY <1>7 DEF Operator, Environment, ApproveDigest, FreezeTag, BypassTag, Tick,
                MoveTag, vars
  <2> QED BY <1>1, <1>3, <1>5, <2>1 DEF AllLent
<1>8. CASE \E r \in Requests : BeginAny(r) \/ Progress(r) \/ Die(r)
  BY <1>1, <1>3, <1>6, <1>8 DEF AllLent
<1> QED BY <1>7, <1>8 DEF Next

LEMMA LentType ==
    ASSUME NEW files \in SUBSET PeerFiles, NEW o \in UNION {f.observations : f \in files}
    PROVE  o.firstSeenAt \in Nat
<1>1. PICK f \in PeerFiles : o \in f.observations
  OBVIOUS
<1>2. f \in TableSets
  BY PeerFilesAssumption
<1> QED BY <1>1, <1>2 DEF TableSets, ObservationRow

(* A step that only moves rows between tables and files.                    *)
LEMMA LentRows ==
    ASSUME TransferSound, TransferSound', AllLent, LentGrow,
           UNCHANGED <<clock, resolvedAt, job>>,
           observations' \cup file'.observations
              \subseteq observations \cup file.observations \cup Lent'
    PROVE  AllLent'
<1>1. \A o \in observations \cup file.observations :
         <<o.tag, o.digest>> \in Tags \X Digests
  BY DEF TransferSound, TypeOK, TableSets, ObservationRow
<1>2. ASSUME NEW o \in observations' \cup file'.observations
      PROVE  Known(<<o.tag, o.digest>>, o.firstSeenAt + Slack, resolvedAt', Lent')
  <2>1. CASE o \in observations \cup file.observations
    BY <1>1, <2>1, KnownOnward DEF AllLent, RowsKnown
  <2>2. CASE o \in Lent'
    <3>1. o.firstSeenAt \in Nat
      BY <2>2, LentType DEF TransferSound, Lent
    <3>2. Slack \in Nat
      BY TicksAssumption, BoundsAssumption DEF Slack
    <3> QED BY <2>2, <3>1, <3>2 DEF Known
  <2> QED BY <1>2, <2>1, <2>2
<1>3. RowsKnown'
  BY <1>2 DEF RowsKnown
<1>4. ASSUME NEW q \in Requests
      PROVE  /\ CallKnown(job'[q], clock', resolvedAt', Lent')
             /\ CallReasoned(job'[q], ApprovedEver', BypassedEver',
                             KnownTimes(resolvedAt', Lent'))
  <2>1. job[q].pc = "resolve" => clock' <= job[q].now + MaxResolve
    BY DEF AllLent, CallKnown
  <2>2. TypeOK /\ CallShape(job[q])
    BY DEF TransferSound, AllShaped
  <2> QED BY <2>1, <2>2, KnownCallOnward, ReasonedOnward DEF AllLent
<1> QED BY <1>3, <1>4 DEF AllLent, ResolvedBefore

LEMMA LentImport ==
    ASSUME TransferSound, TransferSound', AllLent, NEW f, Importable(f), ImportState(f),
           imported \subseteq imported', f = file \/ f \in imported'
    PROVE  AllLent'
<1>1. LentGrow
  BY LentGrowImport
<1>2. UNCHANGED <<clock, resolvedAt, job>> /\ file' = file
  BY DEF ImportState, history
<1>3. observations' \subseteq observations \cup f.observations
  BY ImportForms DEF Staying
<1>4. f.observations \subseteq file.observations \cup Lent'
  BY DEF Lent
<1> QED BY <1>1, <1>2, <1>3, <1>4, LentRows

LEMMA LentExport ==
    ASSUME TransferSound, TransferSound', AllLent, ExportBegins \/ ExportTable
    PROVE  AllLent'
<1>1. UNCHANGED vars /\ UNCHANGED <<imported, replaced>>
  BY DEF ExportBegins, ExportTable
<1>2. LentGrow
  BY <1>1 DEF LentGrow, Lent, ApprovedEver, BypassedEver, vars, tables, history,
              TransferSound, TypeOK
<1>3. file'.observations \subseteq observations \cup file.observations
  <2>1. CASE ExportBegins
    <3>1. file'["observations"] = {}
      BY <2>1, NoRowsType DEF ExportBegins, TableNames
    <3> QED BY <3>1
  <2>2. CASE ExportTable
    <3>1. file'["observations"] \in {observations, file["observations"]}
      BY <2>2, ExportTableSound, TableRowsFields DEF TableNames
    <3> QED BY <3>1
  <2> QED BY <2>1, <2>2
<1> QED BY <1>1, <1>2, <1>3, LentRows DEF vars, tables, history

LEMMA LentInvariant == TransferSpec => []AllLent
<1>1. TransferInit => AllLent
  <2>1. TransferInit => ResolvedBefore /\ RowsKnown
    <3>1. NoRows.observations = {}
      BY NoRowsType DEF TableNames
    <3> QED BY <3>1 DEF TransferInit, Init, ResolvedBefore, RowsKnown, Never
  <2>2. ASSUME TransferInit, NEW r \in Requests
        PROVE  /\ CallKnown(job[r], clock, resolvedAt, Lent)
               /\ CallReasoned(job[r], ApprovedEver, BypassedEver,
                               KnownTimes(resolvedAt, Lent))
    <3> DEFINE since == [k \in Tags \X Digests |-> Never]
    <3>1. job[r].pc = "new" /\ job[r].answer = "none"
      BY <2>2 DEF TransferInit, Init, NewJob
    <3>2. since \in KnownTimes(resolvedAt, Lent)
      BY DEF KnownTimes, Time
    <3> HIDE DEF since
    <3>3. CallJustified(job[r], ApprovedEver, BypassedEver, since, AlwaysNew(job[r]))
      BY <3>1 DEF CallJustified, PastTheGate, Allowing, OverrideSteps, VerifySteps
    <3>4. CallKnown(job[r], clock, resolvedAt, Lent)
      BY <3>1 DEF CallKnown, DigestSteps, ReadSteps, VerifySteps
    <3> QED BY <3>2, <3>3, <3>4 DEF CallReasoned
  <2> QED BY <2>1, <2>2 DEF AllLent
<1>2. ASSUME TransferSound, TransferSound', AllLent, [TransferNext]_allVars
      PROVE  AllLent'
  <2>1. CASE Next /\ UNCHANGED transfer
    BY <1>2, <2>1, LentNext
  <2>2. CASE ExportBegins \/ ExportTable
    BY <1>2, <2>2, LentExport
  <2>3. CASE ImportOwn
    BY <1>2, <2>3, LentImport, OwnFileImportable DEF ImportOwn
  <2>4. ASSUME NEW f \in PeerFiles, ImportPeer(f)
        PROVE  AllLent'
    BY <1>2, <2>4, LentImport, PeerFileImportable DEF ImportPeer
  <2>5. CASE UNCHANGED allVars
    BY <1>2, <2>5, LentNext DEF allVars
  <2> QED BY <1>2, <2>1, <2>2, <2>3, <2>4, <2>5 DEF TransferNext
<1> QED BY <1>1, <1>2, TransferStaysSound, PTL DEF TransferSpec

(* With rows of other hosts coming and going under a running decision, what *)
(* ages a digest is still an observation of that very tag and digest, made  *)
(* here or on the host the row came from: the id a call keeps between its   *)
(* SELECT and its age test may change hands (ImportState, sqlite.go:533-609 *)
(* against engine.go:131-184) without lending its age to another digest.    *)
THEOREM AgesAreObserved == TransferSpec => []AgedHereOrAtPeer
<1>1. ASSUME TransferSound, AllLent, NEW r \in Requests, Admitted(r), Quarantined(r),
             ~job[r].policy.allowFirstSeen
      PROVE  \/ Justified(job[r], ApprovedEver, BypassedEver, resolvedAt, insertedAt)
             \/ \E o \in Lent :
                   /\ o.tag = job[r].tag /\ o.digest = job[r].digest
                   /\ job[r].now - o.firstSeenAt >= job[r].policy.minAge
  <2> DEFINE j == job[r]
             k == <<j.tag, j.digest>>
  <2>0. TypeOK /\ AllShaped /\ imported \subseteq PeerFiles
    BY <1>1 DEF TransferSound
  <2>1. /\ j \in Job /\ CallShape(j) /\ PastTheGate(j)
        /\ j.now \in Nat /\ j.policy.minAge \in Nat /\ k \in Tags \X Digests
    <3>1. j \in Job /\ CallShape(j) /\ j.policy \in Policy
      <4>1. j \in Job /\ CallShape(j)
        BY <2>0 DEF TypeOK, AllShaped
      <4> QED BY <4>1, JobFields
    <3>2. PastTheGate(j) /\ j.digest # NoDigest
      BY <1>1 DEF PastTheGate, Allowing, Gated, Quarantined, Pinned, Admitted
    <3>3. k \in Tags \X Digests
      BY <3>1, <3>2 DEF CallShape, PastTheGate, Job, AnyDigest
    <3> QED BY <3>1, <3>2, <3>3 DEF Job, Policy
  <2>2. PICK since \in KnownTimes(resolvedAt, Lent) :
           CallJustified(j, ApprovedEver, BypassedEver, since, AlwaysNew(j))
    BY <1>1 DEF AllLent, CallReasoned
  <2>3. \/ ApprovalFor(ApprovedEver, j) \/ BypassFor(BypassedEver, j)
        \/ /\ since[k] # Never /\ j.now - since[k] >= j.policy.minAge - Slack
    BY <1>1, <2>1, <2>2 DEF CallJustified, Justified
  <2>4. CASE since[k] # Never /\ j.now - since[k] >= j.policy.minAge - Slack
    <3>1. Known(k, since[k], resolvedAt, Lent) /\ since[k] \in Nat
      BY <2>1, <2>2, <2>4 DEF KnownTimes, Time
    <3>2. Slack \in Nat
      BY TicksAssumption, BoundsAssumption DEF Slack
    <3>3. CASE resolvedAt[k] # Never /\ resolvedAt[k] <= since[k]
      <4>1. resolvedAt[k] \in Nat
        BY <2>0, <2>1, <3>3 DEF TypeOK, Time
      <4>2. j.now - resolvedAt[k] >= j.policy.minAge - Slack
        <5> HIDE DEF j, k
        <5> QED BY <2>1, <2>4, <3>1, <3>2, <3>3, <4>1
      <4> QED BY <3>3, <4>2 DEF Justified
    <3>4. ASSUME NEW o \in Lent, k = <<o.tag, o.digest>>,
                 o.firstSeenAt + Slack <= since[k]
          PROVE  /\ o.tag = j.tag /\ o.digest = j.digest
                 /\ j.now - o.firstSeenAt >= j.policy.minAge
      <4>1. o.firstSeenAt \in Nat
        BY <2>0, LentType DEF Lent
      <4>2. j.now - o.firstSeenAt >= j.policy.minAge
        <5> HIDE DEF j, k
        <5> QED BY <2>1, <2>4, <3>1, <3>2, <3>4, <4>1
      <4> QED BY <3>4, <4>2
    <3> QED BY <3>1, <3>3, <3>4 DEF Known
  <2>5. CASE ApprovalFor(ApprovedEver, j) \/ BypassFor(BypassedEver, j)
    BY <2>5 DEF Justified
  <2> QED BY <2>3, <2>4, <2>5
<1>2. TransferSound /\ AllLent => AgedHereOrAtPeer
  BY <1>1 DEF AgedHereOrAtPeer, ApprovedEver, BypassedEver
<1> QED BY <1>2, TransferStaysSound, LentInvariant, PTL
=============================================================================
