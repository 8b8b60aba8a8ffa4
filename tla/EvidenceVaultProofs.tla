------------------------- MODULE EvidenceVaultProofs -------------------------
(***************************************************************************)
(* What holds of the vault and the root MFA control for any number of      *)
(* clients, contents, rows, holds and executions, and in every             *)
(* environment.                                                            *)
(***************************************************************************)
EXTENDS RootMfaControl, TLAPS

(* The parts of ControlTypeOK.                                             *)
ObjectRows == [state: {"absent", "intact", "corrupt"}, version: 0..MaxVersions, retention: Times]
HoldRows == [status: {"NONE", "ACTIVE", "RELEASED", "DELETED"}, evidence: EvidenceIds \union {None}]
RequestRows == [op: Ops, pc: Pcs, id: EvidenceIds \union {None}, row: Row, good: BOOLEAN,
                hold: HoldIds \union {None}, exec: Executions \union {None}, at: Times]
ResultRows == [status: {"NONE", "PASS", "FAIL", "ERROR"}, evidence: EvidenceIds \union {None}]
OutcomeStates == {"NONE", "RUNNING", "PASS", "FAIL", "ERROR", "FAILED"}

StoreType == now \in Times /\ objects \in [Contents -> ObjectRows]
RowType == rows \in [EvidenceIds -> Row] /\ holds \in [HoldIds -> HoldRows]
RequestType ==
  /\ req \in [Clients -> RequestRows]
  /\ \A c \in Clients : req[c].op = "control" <=> req[c].exec \in Executions
ControlType == outcomes \in [Executions -> OutcomeStates] /\ results \in [Executions -> ResultRows]

LEMMA TypeByParts == ControlTypeOK <=> StoreType /\ RowType /\ RequestType /\ ControlType
  BY Zenon DEF ControlTypeOK, TypeOK, StoreType, RowType, RequestType, ControlType, ObjectRows,
               HoldRows, RequestRows, ResultRows, OutcomeStates

LEMMA ConstantsFit ==
  /\ MaxTime \in Nat /\ MaxVersions \in Nat /\ MaxVersions >= 1 /\ 0 \in Times /\ MaxTime \in Times
  /\ None \notin Executions /\ Custodians \subseteq Clients /\ Collectors \subseteq Clients
  BY VaultAssumption DEF Times

LEMMA NoRowFits == NoRow \in Row
  BY ConstantsFit DEF NoRow, Row

LEMMA IdleFits == Idle \in RequestRows /\ ~(Idle.op = "control") /\ ~(Idle.exec \in Executions)
  BY NoRowFits, ConstantsFit DEF Idle, RequestRows, Ops, Pcs

LEMMA EndFits ==
  ASSUME RequestType, NEW c \in Clients, End(c)
  PROVE  RequestType'
  BY IdleFits DEF RequestType, End

LEMMA GotoFits ==
  ASSUME RequestType, NEW c \in Clients, NEW pc \in Pcs, Goto(c, pc)
  PROVE  RequestType'
<1>1. \A d \in Clients : req'[d].op = req[d].op /\ req'[d].exec = req[d].exec
  BY DEF RequestType, Goto, RequestRows
<1>2. req' \in [Clients -> RequestRows]
  BY DEF RequestType, Goto, RequestRows
<1> QED
  BY <1>1, <1>2 DEF RequestType

LEMMA ThrowFits ==
  ASSUME RequestType, NEW c \in Clients, NEW pc \in Pcs, Throw(c, pc)
  PROVE  RequestType'
  BY GotoFits, EndFits DEF Throw

LEMMA CallFits ==
  ASSUME RequestType, NEW c \in Clients, NEW record \in RequestRows, Call(c, record),
         record.op = "control" <=> record.exec \in Executions
  PROVE  RequestType'
  BY DEF RequestType, Call

LEMMA FieldsFit ==
  ASSUME NEW q \in [Clients -> RequestRows], NEW c \in Clients
  PROVE  /\ \A pc \in Pcs : [q EXCEPT ![c].pc = pc] \in [Clients -> RequestRows]
         /\ \A row \in Row : [q EXCEPT ![c].row = row] \in [Clients -> RequestRows]
         /\ \A id \in EvidenceIds \union {None} : [q EXCEPT ![c].id = id] \in [Clients -> RequestRows]
         /\ \A good \in BOOLEAN : [q EXCEPT ![c].good = good] \in [Clients -> RequestRows]
         /\ \A at \in Times : [q EXCEPT ![c].at = at] \in [Clients -> RequestRows]
  BY DEF RequestRows

LEMMA VerdictFits ==
  ASSUME NEW q \in [EvidenceIds -> Row], NEW i, NEW verdict \in {"VALID", "INTEGRITY_FAILED"}
  PROVE  [q EXCEPT ![i].integrity = verdict] \in [EvidenceIds -> Row]
  BY ZenonT(30) DEF Row

LEMMA FlagFits ==
  ASSUME NEW q \in [EvidenceIds -> Row], NEW i, NEW flag \in {"ACTIVE", "RELEASED"}
  PROVE  [q EXCEPT ![i].hold = flag] \in [EvidenceIds -> Row]
  BY ZenonT(30) DEF Row

LEMMA NewRowFits ==
  ASSUME StoreType', NEW k \in Contents, NEW meta \in Metas \union Executions, NEW t \in Times,
         NEW original \in EvidenceIds \union {None}
  PROVE  /\ NewRow(k, meta, t, original) \in Row
         /\ NewRow(k, meta, t, original).state = "KEPT"
         /\ NewRow(k, meta, t, original).key = k
         /\ NewRow(k, meta, t, original).version = objects'[k].version
         /\ NewRow(k, meta, t, original).meta = meta
         /\ NewRow(k, meta, t, original).retention = t
         /\ NewRow(k, meta, t, original).hold = "NONE"
<1>1. objects'[k].version \in 0..MaxVersions
  BY DEF StoreType, ObjectRows
<1> QED
  BY <1>1, NoRowFits DEF NewRow, NoRow, Row

LEMMA PutFits ==
  ASSUME StoreType, NEW k \in Contents, NEW t \in Times, Put(k, t), now' \in Times
  PROVE  StoreType'
  BY ConstantsFit DEF StoreType, Put, ObjectRows

LEMMA GoneFits ==
  ASSUME NEW object \in ObjectRows
  PROVE  Gone(object) \in ObjectRows
  BY ConstantsFit DEF Gone, ObjectRows
-----------------------------------------------------------------------------
(* What a request carries agrees with the rows, whoever changes them: a    *)
(* row that is kept keeps its key, version, metadata and retention.        *)
RowsAreSound ==
  \A i \in EvidenceIds : rows[i].state = "KEPT" =>
    rows[i].key \in Contents /\ rows[i].version <= objects[rows[i].key].version

SameRow(row, i) ==
  row.key = rows[i].key /\ row.version = rows[i].version /\ row.retention = rows[i].retention

Carries(c) ==
  At(c, "stored") \/ At(c, "checked") =>
    /\ req[c].row.state = "KEPT" /\ req[c].row.hold = "NONE" /\ req[c].row.key \in Contents
    /\ req[c].row.version <= objects[req[c].row.key].version
    /\ req[c].op = "control" => /\ req[c].row.meta = req[c].exec
                               /\ VerdictOf[req[c].row.key] # "ERROR"

Names(c) ==
  req[c].pc \in {"committed", "read", "inspected", "marked", "verified", "dropped"} =>
    /\ req[c].id \in EvidenceIds /\ rows[req[c].id].state # "NONE"
    /\ req[c].op = "control" /\ Kept(req[c].id) =>
         rows[req[c].id].meta = req[c].exec /\ VerdictOf[rows[req[c].id].key] # "ERROR"

Remembers(c) ==
  At(c, "read") \/ At(c, "verified") =>
    /\ req[c].row.state = "KEPT" /\ req[c].row.key \in Contents
    /\ Kept(req[c].id) => SameRow(req[c].row, req[c].id)

Decided(c) ==
  At(c, "concluding") => /\ req[c].row.key \in Contents /\ req[c].exec \in Executions
                         /\ results[req[c].exec].status = VerdictOf[req[c].row.key]

Called(c) == req[c].op = "delete" => req[c].at <= now

Doing(c) ==
  /\ At(c, "observing") => req[c].op = "control"
  /\ At(c, "holding") => req[c].op = "hold"
  /\ At(c, "releasing") \/ At(c, "flagging") => req[c].op = "release"
  /\ At(c, "dropped") => req[c].op = "delete"

Sound(c) == Doing(c) /\ Carries(c) /\ Names(c) /\ Remembers(c) /\ Decided(c) /\ Called(c)

BaseInv ==
  /\ StoreType /\ RowType /\ RequestType /\ ControlType /\ RowsAreSound
  /\ \A c \in Clients : Sound(c)

(* What no step takes back.                                                *)
Stands ==
  /\ now <= now'
  /\ \A k \in Contents : objects[k].version <= objects'[k].version
  /\ \A i \in EvidenceIds : rows[i].state # "NONE" =>
       /\ rows'[i].state # "NONE"
       /\ rows'[i].state = "KEPT" =>
            /\ rows[i].state = "KEPT" /\ rows'[i].meta = rows[i].meta
            /\ rows'[i].key = rows[i].key /\ rows'[i].version = rows[i].version
            /\ rows'[i].retention = rows[i].retention

ResultsStand ==
  \A e \in Executions : results[e].status # "NONE" => results'[e].status = results[e].status

StoreFine == StoreType' /\ RowType' /\ RowsAreSound' /\ Stands
ReqFine(c) ==
  RequestType' /\ Sound(c)' /\ \A d \in Clients : d # c => req'[d] = req[d]

LEMMA OthersStaySound ==
  ASSUME BaseInv, StoreFine, ControlType', ResultsStand, NEW d \in Clients, req'[d] = req[d]
  PROVE  Sound(d)'
<1> USE DEF BaseInv, StoreFine, Sound
<1>1. req[d] \in RequestRows
  BY DEF RequestType
<1>2. Carries(d)'
  <2>1. At(d, "stored") \/ At(d, "checked") =>
          req[d].row.version \in Nat /\ objects[req[d].row.key].version \in Nat
            /\ objects'[req[d].row.key].version \in Nat
    BY <1>1, ConstantsFit DEF Carries, StoreType, ObjectRows, RequestRows, Row
  <2> QED
    BY <2>1 DEF Carries, At, Stands
<1>3. Names(d)'
  BY <1>1 DEF Names, Stands, Kept
<1>4. Remembers(d)'
  <2>1. At(d, "read") \/ At(d, "verified") =>
          req[d].id \in EvidenceIds /\ rows[req[d].id].state # "NONE"
    BY DEF Names, At
  <2> QED
    BY <2>1 DEF Remembers, Stands, Kept, SameRow, At
<1>5. Decided(d)'
  BY ControlAssumption, <1>1 DEF Decided, ResultsStand, At, RequestRows, ControlType
<1>6. Called(d)'
  BY <1>1, ConstantsFit DEF Called, Stands, RequestRows, Times, StoreType
<1>7. Doing(d)'
  BY DEF Doing, At
<1> QED
  BY <1>2, <1>3, <1>4, <1>5, <1>6, <1>7

(* What the steps leave alone, and how a request goes on.                  *)
LEMMA UnchangedVault ==
  ASSUME BaseInv, UNCHANGED vault
  PROVE  StoreFine
  BY ConstantsFit DEF vault, BaseInv, StoreFine, StoreType, RowType, RowsAreSound, Stands, ObjectRows, Row, Times

LEMMA VersionsStand ==
  ASSUME BaseInv, UNCHANGED <<now, rows, holds>>, objects' \in [Contents -> ObjectRows],
         \A k \in Contents : objects'[k].version = objects[k].version
  PROVE  StoreFine
<1>1. now \in Nat /\ \A k \in Contents : objects[k].version \in Nat
  BY ConstantsFit DEF BaseInv, StoreType, ObjectRows, Times
<1>2. StoreType' /\ RowType' /\ Stands
  BY <1>1 DEF BaseInv, StoreType, RowType, Stands
<1>3. RowsAreSound'
  BY DEF BaseInv, RowsAreSound
<1> QED
  BY <1>2, <1>3 DEF StoreFine

Free == {"uncommitted", "error", "errorResult", "auditing"}

LEMMA EndFine ==
  ASSUME BaseInv, Stands, NEW c \in Clients, End(c)
  PROVE  ReqFine(c)
<1>1. RequestType' /\ \A d \in Clients : d # c => req'[d] = req[d]
  BY EndFits DEF BaseInv, End, RequestType
<1>2. req'[c].pc = "idle" /\ req'[c].op = "none"
  BY DEF End, Idle, BaseInv, RequestType
<1>3. Sound(c)'
  BY <1>2 DEF Sound, Doing, Carries, Names, Remembers, Decided, Called, At
<1> QED
  BY <1>1, <1>3 DEF ReqFine

LEMMA GotoFine ==
  ASSUME BaseInv, Stands, StoreType', NEW c \in Clients, NEW pc \in Free, Goto(c, pc)
  PROVE  ReqFine(c)
<1>1. RequestType'
  BY GotoFits DEF BaseInv, Free, Pcs
<1>2. \A d \in Clients : d # c => req'[d] = req[d]
  BY DEF BaseInv, Goto, RequestType
<1>3. req'[c].pc = pc /\ req'[c].op = req[c].op /\ req'[c].at = req[c].at
  BY DEF BaseInv, Goto, RequestType, RequestRows
<1>4. Called(c)'
  <2>1. Called(c) /\ now <= now' /\ now \in Times /\ now' \in Times /\ req[c].at \in Times
    BY DEF BaseInv, Sound, Stands, StoreType, RequestType, RequestRows
  <2> QED
    BY <1>3, <2>1, ConstantsFit DEF Called, Times
<1>5. Sound(c)'
  BY <1>3, <1>4 DEF Sound, Doing, Carries, Names, Remembers, Decided, At, Free
<1> QED
  BY <1>1, <1>2, <1>5 DEF ReqFine

LEMMA ThrowFine ==
  ASSUME BaseInv, Stands, StoreType', NEW c \in Clients, NEW pc \in Free, Throw(c, pc)
  PROVE  ReqFine(c)
  BY GotoFine, EndFine DEF Throw

-----------------------------------------------------------------------------
(* commit.                                                                 *)
LEMMA PutFine ==
  ASSUME BaseInv, NEW k \in Contents, NEW t \in Times, Put(k, t), UNCHANGED <<now, rows, holds>>
  PROVE  StoreFine
<1>1. StoreType'
  BY PutFits DEF BaseInv, StoreType
<1>2. \A j \in Contents : objects[j].version <= objects'[j].version
  BY <1>1, ConstantsFit DEF Put, BaseInv, StoreType, ObjectRows
<1>3. RowType' /\ Stands
  BY <1>2, ConstantsFit DEF BaseInv, RowType, Stands, StoreType, Times
<1>4. RowsAreSound'
  <2> SUFFICES ASSUME NEW i \in EvidenceIds, rows[i].state = "KEPT"
               PROVE  rows[i].key \in Contents /\ rows[i].version <= objects'[rows[i].key].version
    BY DEF RowsAreSound
  <2>1. /\ rows[i].key \in Contents /\ rows[i].version <= objects[rows[i].key].version
        /\ rows[i].version \in Nat /\ objects[rows[i].key].version \in Nat
        /\ objects'[rows[i].key].version \in Nat
    BY <1>1, ConstantsFit DEF BaseInv, RowsAreSound, RowType, Row, StoreType, ObjectRows
  <2> QED
    BY <1>2, <2>1
<1> QED
  BY <1>1, <1>3, <1>4 DEF StoreFine

(* A request that starts, and one that goes on with a row of its own.      *)
LEMMA CallFine ==
  ASSUME BaseInv, NEW c \in Clients, NEW record \in RequestRows, Call(c, record),
         record.op = "control" <=> record.exec \in Executions
  PROVE  /\ RequestType' /\ req'[c] = record /\ req[c] = Idle
         /\ \A d \in Clients : d # c => req'[d] = req[d]
  BY CallFits DEF BaseInv, Call, RequestType

LEMMA StoredFine ==
  ASSUME BaseInv, StoreFine, NEW c \in Clients, req'[c].pc = "stored", req'[c].op # "delete",
         NEW k \in Contents, NEW meta \in Metas \union Executions, NEW t \in Times,
         NEW original \in EvidenceIds \union {None}, req'[c].row = NewRow(k, meta, t, original),
         req'[c].op = "control" => meta = req'[c].exec /\ VerdictOf[k] # "ERROR"
  PROVE  Sound(c)'
<1>1. /\ req'[c].row.state = "KEPT" /\ req'[c].row.key = k /\ req'[c].row.hold = "NONE"
      /\ req'[c].row.meta = meta /\ req'[c].row.version = objects'[k].version
  BY NewRowFits DEF StoreFine
<1>2. objects'[k].version \in Nat
  BY ConstantsFit DEF StoreFine, StoreType, ObjectRows
<1>3. Carries(c)'
  BY <1>1, <1>2 DEF Carries
<1> QED
  BY <1>3 DEF Sound, Doing, Names, Remembers, Decided, Called, At

LEMMA CommitFine ==
  ASSUME BaseInv, NEW c \in Clients, NEW k \in Contents, NEW meta \in Metas, NEW t \in Times,
         \/ Commit(c, k, meta, t)
         \/ \E original \in EvidenceIds : Supersede(c, k, meta, t, original)
  PROVE  StoreFine /\ ReqFine(c)
<1>1. PICK original \in EvidenceIds \union {None} :
        /\ Put(k, t) /\ UNCHANGED <<now, rows, holds>>
        /\ Call(c, [Idle EXCEPT !.op = "commit", !.pc = "stored",
                                !.row = NewRow(k, meta, t, original)])
  BY DEF Commit, Supersede
<1>2. StoreFine
  BY <1>1, PutFine
<1> DEFINE record == [Idle EXCEPT !.op = "commit", !.pc = "stored",
                                  !.row = NewRow(k, meta, t, original)]
<1>3. NewRow(k, meta, t, original) \in Row
  BY <1>2, NewRowFits DEF StoreFine
<1>4. /\ record \in RequestRows /\ record.op = "commit" /\ record.pc = "stored"
      /\ record.row = NewRow(k, meta, t, original) /\ record.exec = None
  BY <1>3, ConstantsFit DEF Idle, RequestRows, Ops, Pcs
<1> HIDE DEF record
<1>5. RequestType' /\ req'[c] = record /\ \A d \in Clients : d # c => req'[d] = req[d]
  BY <1>1, <1>4, CallFine, ConstantsFit DEF record
<1>6. Sound(c)'
  BY <1>2, <1>4, <1>5, StoredFine
<1> QED
  BY <1>2, <1>5, <1>6 DEF ReqFine

(* What a step that keeps the operation and the execution has to show.     *)
LEMMA SameRequest ==
  ASSUME BaseInv, NEW c \in Clients, req' \in [Clients -> RequestRows],
         req'[c].op = req[c].op, req'[c].exec = req[c].exec, Sound(c)',
         \A d \in Clients : d # c => req'[d] = req[d]
  PROVE  ReqFine(c)
<1>1. \A d \in Clients : req'[d].op = "control" <=> req'[d].exec \in Executions
  BY DEF BaseInv, RequestType
<1> QED
  BY <1>1 DEF ReqFine, RequestType

LEMMA RequestFields ==
  ASSUME BaseInv, NEW c \in Clients
  PROVE  /\ req[c] \in RequestRows /\ req[c].pc \in Pcs /\ req[c].at \in Times
         /\ req[c].id \in EvidenceIds \union {None} /\ req[c].row \in Row
         /\ req[c].hold \in HoldIds \union {None} /\ req[c].exec \in Executions \union {None}
         /\ req[c].op = "control" <=> req[c].exec \in Executions
         /\ Sound(c) /\ req \in [Clients -> RequestRows] /\ now \in Times
<1>1. req[c] \in RequestRows /\ (req[c].op = "control" <=> req[c].exec \in Executions)
  BY DEF BaseInv, RequestType
<1> QED
  BY <1>1 DEF BaseInv, RequestType, RequestRows, StoreType

LEMMA CalledStays ==
  ASSUME BaseInv, Stands, StoreType', NEW c \in Clients,
         req'[c].op = req[c].op, req'[c].at = req[c].at
  PROVE  Called(c)'
<1>1. Called(c) /\ now <= now' /\ now \in Nat /\ now' \in Nat /\ req[c].at \in Nat
  BY RequestFields, ConstantsFit DEF Sound, Doing, Stands, StoreType, Times
<1> QED
  BY <1>1 DEF Called

LEMMA GotoFields ==
  ASSUME BaseInv, NEW c \in Clients, NEW pc \in Pcs, Goto(c, pc)
  PROVE  /\ req' \in [Clients -> RequestRows] /\ RequestType'
         /\ \A d \in Clients : d # c => req'[d] = req[d]
         /\ req'[c].pc = pc /\ req'[c].op = req[c].op /\ req'[c].id = req[c].id
         /\ req'[c].row = req[c].row /\ req'[c].good = req[c].good
         /\ req'[c].hold = req[c].hold /\ req'[c].exec = req[c].exec /\ req'[c].at = req[c].at
<1>1. RequestType'
  BY GotoFits DEF BaseInv
<1>2. /\ req'[c].pc = pc /\ req'[c].op = req[c].op /\ req'[c].id = req[c].id
      /\ req'[c].row = req[c].row /\ req'[c].good = req[c].good
      /\ req'[c].hold = req[c].hold /\ req'[c].exec = req[c].exec /\ req'[c].at = req[c].at
      /\ \A d \in Clients : d # c => req'[d] = req[d]
  BY RequestFields DEF Goto, RequestRows
<1> QED
  BY <1>1, <1>2 DEF RequestType

LEMMA ReadBackFine ==
  ASSUME BaseInv, NEW c \in Clients, ReadBack(c)
  PROVE  StoreFine /\ ReqFine(c)
<1>1. StoreFine
  BY UnchangedVault DEF ReadBack
<1>2. CASE Throw(c, "uncommitted")
  BY <1>1, <1>2, ThrowFine DEF StoreFine, Free
<1>3. CASE Goto(c, "checked")
  <2>1. /\ req' \in [Clients -> RequestRows] /\ req'[c].pc = "checked"
        /\ req'[c].op = req[c].op /\ req'[c].exec = req[c].exec /\ req'[c].at = req[c].at
        /\ req'[c].row = req[c].row /\ \A d \in Clients : d # c => req'[d] = req[d]
    BY <1>3, GotoFields DEF Pcs
  <2>2. Carries(c)'
    BY <2>1, <1>1, UnchangedVault, RequestFields DEF Carries, Sound, ReadBack, At, vault
  <2>3. Called(c)'
    BY <1>1, <2>1, CalledStays DEF StoreFine
  <2>4. Sound(c)'
    BY <2>1, <2>2, <2>3 DEF Sound, Doing, Names, Remembers, Decided, At
  <2> QED
    BY <1>1, <2>1, <2>4, SameRequest
<1> QED
  BY <1>2, <1>3 DEF ReadBack

(* The commit has its row: a control goes on with it.                      *)
LEMMA CommittedFine ==
  ASSUME BaseInv, StoreFine, NEW c \in Clients, NEW i \in EvidenceIds, Committed(c, i),
         rows'[i].state # "NONE",
         req[c].op = "control" /\ Kept(i)' =>
           rows'[i].meta = req[c].exec /\ VerdictOf[rows'[i].key] # "ERROR"
  PROVE  ReqFine(c)
<1>1. CASE req[c].op # "control"
  BY <1>1, EndFine DEF Committed, StoreFine
<1>2. CASE req[c].op = "control"
  <2>1. req' = [req EXCEPT ![c].pc = "committed", ![c].id = i] /\ "committed" \in Pcs
    BY <1>2 DEF Committed, Pcs
  <2>2. req' \in [Clients -> RequestRows]
    BY <2>1, FieldsFit, RequestFields
  <2>3. /\ req'[c].pc = "committed" /\ req'[c].id = i
        /\ req'[c].op = req[c].op /\ req'[c].exec = req[c].exec /\ req'[c].at = req[c].at
        /\ \A d \in Clients : d # c => req'[d] = req[d]
    BY <2>1, RequestFields DEF RequestRows
  <2>4. Called(c)'
    BY <2>3, CalledStays DEF StoreFine
  <2>5. Names(c)'
    BY <2>3 DEF Names
  <2>6. Sound(c)'
    BY <2>3, <2>4, <2>5 DEF Sound, Doing, Carries, Remembers, Decided, At
  <2> QED
    BY <2>2, <2>3, <2>6, SameRequest
<1> QED
  BY <1>1, <1>2

LEMMA CreateRowFine ==
  ASSUME BaseInv, NEW c \in Clients, CreateRow(c)
  PROVE  StoreFine /\ ReqFine(c)
<1>1. PICK i \in EvidenceIds :
        rows[i].state = "NONE" /\ rows' = [rows EXCEPT ![i] = req[c].row] /\ Committed(c, i)
  BY DEF CreateRow
<1>2. /\ req[c].row \in Row /\ req[c].row.state = "KEPT" /\ req[c].row.key \in Contents
      /\ req[c].row.version <= objects[req[c].row.key].version
      /\ req[c].op = "control" =>
           req[c].row.meta = req[c].exec /\ VerdictOf[req[c].row.key] # "ERROR"
  BY RequestFields DEF CreateRow, Sound, Carries
<1>3. UNCHANGED <<now, objects, holds>> /\ rows \in [EvidenceIds -> Row]
  BY DEF CreateRow, BaseInv, RowType
<1>4. StoreType' /\ RowType' /\ Stands
  BY <1>1, <1>2, <1>3, ConstantsFit DEF BaseInv, StoreType, RowType, Stands, ObjectRows, Times
<1>5. RowsAreSound'
  BY <1>1, <1>2, <1>3 DEF BaseInv, RowsAreSound
<1>6. StoreFine
  BY <1>4, <1>5 DEF StoreFine
<1>7. rows'[i] = req[c].row
  BY <1>1, <1>3
<1> QED
  BY <1>1, <1>2, <1>6, <1>7, CommittedFine

LEMMA ReturnExistingFine ==
  ASSUME BaseInv, NEW c \in Clients, ReturnExisting(c)
  PROVE  StoreFine /\ ReqFine(c)
<1>1. StoreFine /\ StoreType' /\ Stands /\ rows' = rows
  BY UnchangedVault DEF ReturnExisting, StoreFine, vault
<1>2. PICK i \in EvidenceIds :
        /\ Kept(i)
        /\ IF SameMetadata(rows[i], req[c].row) THEN Committed(c, i) ELSE Throw(c, "uncommitted")
  BY DEF ReturnExisting, Existing
<1>3. CASE Throw(c, "uncommitted")
  BY <1>1, <1>3, ThrowFine DEF Free
<1>4. CASE SameMetadata(rows[i], req[c].row) /\ Committed(c, i)
  <2>1. req[c].op = "control" =>
          req[c].row.meta = req[c].exec /\ VerdictOf[req[c].row.key] # "ERROR"
    BY RequestFields DEF ReturnExisting, Sound, Carries
  <2> QED
    BY <1>1, <1>2, <1>4, <2>1, CommittedFine DEF SameMetadata, Kept
<1> QED
  BY <1>2, <1>3, <1>4

LEMMA OriginalGoneFine ==
  ASSUME BaseInv, NEW c \in Clients, OriginalGone(c)
  PROVE  StoreFine /\ ReqFine(c)
  BY UnchangedVault, ThrowFine DEF OriginalGone, StoreFine, Free

-----------------------------------------------------------------------------
(* verify, and what retrieve goes on with.                                 *)
LEMMA VerifyReadFine ==
  ASSUME BaseInv, NEW c \in Clients, NEW i \in EvidenceIds,
         NEW op \in {"verify", "retrieve", "delete"}, VerifyRead(c, i, op)
  PROVE  StoreFine /\ ReqFine(c)
<1>1. StoreFine /\ UNCHANGED vault
  BY UnchangedVault DEF VerifyRead
<1> DEFINE record == [Idle EXCEPT !.op = op, !.pc = "read", !.id = i, !.row = rows[i],
                                  !.at = IF op = "delete" THEN now ELSE 0]
<1>2. Kept(i) /\ Call(c, record) /\ rows[i] \in Row /\ rows[i].key \in Contents /\ now \in Times
  BY DEF VerifyRead, BaseInv, RowType, RowsAreSound, Kept, StoreType
<1>3. /\ record \in RequestRows /\ record.op = op /\ record.pc = "read" /\ record.id = i
      /\ record.row = rows[i] /\ record.exec = None /\ record.at \in {0, now}
  BY <1>2, ConstantsFit DEF Idle, RequestRows, Ops, Pcs
<1> HIDE DEF record
<1>4. RequestType' /\ req'[c] = record /\ \A d \in Clients : d # c => req'[d] = req[d]
  BY <1>2, <1>3, CallFine, ConstantsFit
<1>5. Names(c)' /\ Remembers(c)'
  BY <1>1, <1>2, <1>3, <1>4 DEF Names, Remembers, vault, At, Kept, SameRow
<1>6. Called(c)'
  BY <1>1, <1>2, <1>3, <1>4, ConstantsFit DEF Called, vault, Times
<1>7. Sound(c)'
  BY <1>3, <1>4, <1>5, <1>6 DEF Sound, Doing, Carries, Decided, At
<1> QED
  BY <1>1, <1>4, <1>7 DEF ReqFine

LEMMA InspectFine ==
  ASSUME BaseInv, NEW c \in Clients, Inspect(c)
  PROVE  StoreFine /\ ReqFine(c)
<1>1. StoreFine /\ StoreType' /\ Stands /\ UNCHANGED vault
  BY UnchangedVault DEF Inspect, StoreFine
<1>2. /\ req' = [req EXCEPT ![c].pc = "inspected", ![c].good = Intact(req[c].row), ![c].row = NoRow]
      /\ "inspected" \in Pcs /\ Intact(req[c].row) \in BOOLEAN /\ At(c, "read")
  BY DEF Inspect, Pcs, Intact, Present
<1>3. req' \in [Clients -> RequestRows]
  BY <1>2, FieldsFit, NoRowFits, RequestFields
<1>4. /\ req'[c].pc = "inspected" /\ req'[c].id = req[c].id /\ req'[c].op = req[c].op
      /\ req'[c].exec = req[c].exec /\ req'[c].at = req[c].at
      /\ \A d \in Clients : d # c => req'[d] = req[d]
  BY <1>2, RequestFields DEF RequestRows
<1>5. Names(c)'
  BY <1>1, <1>2, <1>4, RequestFields DEF Names, Sound, At, Kept, vault
<1>6. Called(c)'
  BY <1>1, <1>4, CalledStays
<1>7. Sound(c)'
  BY <1>4, <1>5, <1>6 DEF Sound, Doing, Carries, Remembers, Decided, At
<1> QED
  BY <1>1, <1>3, <1>4, <1>7, SameRequest

(* A verdict changes nothing else about a row.                             *)
LEMMA MarkFine ==
  ASSUME BaseInv, NEW i \in EvidenceIds, NEW verdict \in {"VALID", "INTEGRITY_FAILED"},
         rows' = [rows EXCEPT ![i].integrity = verdict], UNCHANGED <<now, objects, holds>>
  PROVE  /\ StoreFine
         /\ \A j \in EvidenceIds :
              /\ rows'[j].state = rows[j].state /\ rows'[j].meta = rows[j].meta
              /\ rows'[j].key = rows[j].key /\ rows'[j].version = rows[j].version
              /\ rows'[j].retention = rows[j].retention /\ rows'[j].hold = rows[j].hold
              /\ rows'[j].supersedes = rows[j].supersedes
<1>1. rows \in [EvidenceIds -> Row] /\ now \in Nat /\ objects \in [Contents -> ObjectRows]
  BY ConstantsFit DEF BaseInv, RowType, StoreType, Times
<1>2. \A j \in EvidenceIds :
        /\ rows'[j].state = rows[j].state /\ rows'[j].meta = rows[j].meta
        /\ rows'[j].key = rows[j].key /\ rows'[j].version = rows[j].version
        /\ rows'[j].retention = rows[j].retention /\ rows'[j].hold = rows[j].hold
        /\ rows'[j].supersedes = rows[j].supersedes
  BY <1>1 DEF Row
<1>3. rows' \in [EvidenceIds -> Row]
  BY <1>1, VerdictFits
<1>4. StoreType' /\ RowType'
  BY <1>3 DEF BaseInv, StoreType, RowType
<1>5. \A k \in Contents : objects[k].version \in Nat
  BY <1>1, ConstantsFit DEF ObjectRows
<1>6. Stands
  BY <1>1, <1>2, <1>5 DEF Stands
<1>7. RowsAreSound'
  BY <1>2 DEF BaseInv, RowsAreSound
<1> QED
  BY <1>2, <1>4, <1>6, <1>7 DEF StoreFine

LEMMA MarkValidFine ==
  ASSUME BaseInv, NEW c \in Clients, MarkValid(c)
  PROVE  StoreFine /\ ReqFine(c)
<1>1. /\ At(c, "inspected") /\ Kept(req[c].id) /\ UNCHANGED <<now, objects, holds>>
      /\ rows' = [rows EXCEPT ![req[c].id].integrity = "VALID"]
      /\ req' = [req EXCEPT ![c].pc = "marked", ![c].good = FALSE] /\ "marked" \in Pcs
  BY DEF MarkValid, Pcs
<1>2. req[c].id \in EvidenceIds
  BY <1>1, RequestFields DEF Kept
<1>3. /\ StoreFine /\ StoreType' /\ Stands
      /\ \A j \in EvidenceIds : rows'[j].state = rows[j].state /\ rows'[j].meta = rows[j].meta
  BY <1>1, <1>2, MarkFine DEF StoreFine
<1>4. req' \in [Clients -> RequestRows]
  BY <1>1, FieldsFit, RequestFields
<1>5. /\ req'[c].pc = "marked" /\ req'[c].id = req[c].id /\ req'[c].op = req[c].op
      /\ req'[c].exec = req[c].exec /\ req'[c].at = req[c].at
      /\ \A d \in Clients : d # c => req'[d] = req[d]
  BY <1>1, RequestFields DEF RequestRows
<1>6. Names(c)'
  BY <1>1, <1>2, <1>3, <1>5, RequestFields, SMTT(30) DEF Names, Sound, At, Kept
<1>7. Called(c)'
  BY <1>3, <1>5, CalledStays
<1>8. Sound(c)'
  BY <1>5, <1>6, <1>7 DEF Sound, Doing, Carries, Remembers, Decided, At
<1> QED
  BY <1>3, <1>4, <1>5, <1>8, SameRequest

(* A request goes on with the row as it is.                                *)
LEMMA RereadingFine ==
  ASSUME BaseInv, StoreFine, NEW c \in Clients, NEW pc \in {"read", "verified"},
         rows'[req[c].id].state = "KEPT", req[c].pc \in {"marked", "committed", "inspected"},
         req' = [req EXCEPT ![c].pc = pc, ![c].row = rows'[req[c].id]]
  PROVE  /\ ReqFine(c)
         /\ req'[c].pc = pc /\ req'[c].row = rows'[req[c].id] /\ req'[c].id = req[c].id
         /\ req'[c].op = req[c].op /\ req'[c].at = req[c].at
<1> DEFINE i == req[c].id
<1>1. StoreType' /\ Stands /\ RowType' /\ RowsAreSound'
  BY DEF StoreFine
<1>2. /\ i \in EvidenceIds /\ rows[i].state # "NONE"
      /\ req[c].op = "control" /\ Kept(i) =>
           rows[i].meta = req[c].exec /\ VerdictOf[rows[i].key] # "ERROR"
  BY RequestFields DEF Sound, Names
<1>3. /\ pc \in Pcs /\ rows'[i] \in Row /\ rows'[i].state = "KEPT" /\ rows'[i].key \in Contents
  BY <1>1, <1>2 DEF Pcs, Kept, RowType, RowsAreSound
<1>4. req' \in [Clients -> RequestRows]
  BY <1>3, FieldsFit, RequestFields
<1>5. /\ req'[c].pc = pc /\ req'[c].id = i /\ req'[c].op = req[c].op
      /\ req'[c].row = rows'[i] /\ req'[c].exec = req[c].exec /\ req'[c].at = req[c].at
      /\ \A d \in Clients : d # c => req'[d] = req[d]
  BY RequestFields DEF RequestRows
<1> HIDE DEF i
<1>6. rows[i].state = "KEPT" /\ rows'[i].meta = rows[i].meta /\ rows'[i].key = rows[i].key
  BY <1>1, <1>2, <1>3 DEF Stands
<1>7. Names(c)'
  BY <1>2, <1>3, <1>5, <1>6 DEF Names, Kept
<1>8. Remembers(c)'
  BY <1>3, <1>5 DEF Remembers, SameRow
<1>9. Called(c)'
  BY <1>1, <1>5, CalledStays
<1>10. Sound(c)'
  BY <1>5, <1>7, <1>8, <1>9 DEF Sound, Doing, Carries, Decided, At
<1>11. ReqFine(c)
  BY <1>4, <1>5, <1>10, SameRequest
<1> QED
  BY <1>5, <1>11 DEF i

LEMMA JudgeFine ==
  ASSUME BaseInv, StoreFine, NEW c \in Clients, rows'[req[c].id].state = "KEPT",
         At(c, "marked") \/ At(c, "inspected"), Judge(c, rows'[req[c].id])
  PROVE  ReqFine(c)
<1>1. CASE End(c)
  BY <1>1, EndFine DEF StoreFine
<1>2. CASE req' = [req EXCEPT ![c].pc = "verified", ![c].row = rows'[req[c].id]]
  BY <1>2, RereadingFine DEF At
<1> QED
  BY <1>1, <1>2 DEF Judge

LEMMA MarkFailedFine ==
  ASSUME BaseInv, NEW c \in Clients, MarkFailed(c)
  PROVE  StoreFine /\ ReqFine(c)
<1>1. /\ Kept(req[c].id) /\ UNCHANGED <<now, objects, holds>>
      /\ rows' = [rows EXCEPT ![req[c].id].integrity = "INTEGRITY_FAILED"]
      /\ \/ At(c, "inspected") /\ Judge(c, rows'[req[c].id])
         \/ Throw(c, "error") \/ End(c)
  BY DEF MarkFailed
<1>2. req[c].id \in EvidenceIds
  BY <1>1, RequestFields DEF Kept
<1>3. StoreFine /\ StoreType' /\ Stands /\ rows'[req[c].id].state = "KEPT"
  BY <1>1, <1>2, MarkFine DEF StoreFine, Kept
<1>4. CASE At(c, "inspected") /\ Judge(c, rows'[req[c].id])
  BY <1>3, <1>4, JudgeFine
<1>5. CASE Throw(c, "error")
  BY <1>3, <1>5, ThrowFine DEF Free
<1>6. CASE End(c)
  BY <1>3, <1>6, EndFine
<1> QED
  BY <1>1, <1>3, <1>4, <1>5, <1>6

LEMMA RereadFine ==
  ASSUME BaseInv, NEW c \in Clients, Reread(c)
  PROVE  StoreFine /\ ReqFine(c)
<1>1. StoreFine /\ StoreType' /\ Stands /\ UNCHANGED vault /\ rows' = rows /\ At(c, "marked")
  BY UnchangedVault DEF Reread, StoreFine, vault
<1>2. CASE ~Kept(req[c].id)
  BY <1>1, <1>2, ThrowFine DEF Reread, Free
<1>3. CASE Kept(req[c].id)
  <2>1. rows'[req[c].id].state = "KEPT" /\ Judge(c, rows'[req[c].id])
    BY <1>1, <1>3 DEF Reread, Kept
  <2> QED
    BY <1>1, <2>1, JudgeFine
<1> QED
  BY <1>2, <1>3

LEMMA VerdictLostFine ==
  ASSUME BaseInv, NEW c \in Clients, VerdictLost(c)
  PROVE  StoreFine /\ ReqFine(c)
  BY UnchangedVault, ThrowFine DEF VerdictLost, StoreFine, Free

LEMMA RetrieveFine ==
  ASSUME BaseInv, NEW c \in Clients, Retrieve(c)
  PROVE  StoreFine /\ ReqFine(c)
  BY UnchangedVault, EndFine DEF Retrieve, StoreFine

-----------------------------------------------------------------------------
(* Holds and deletions.                                                    *)
LEMMA HoldReadFine ==
  ASSUME BaseInv, NEW c \in Clients, NEW i \in EvidenceIds, HoldRead(c, i)
  PROVE  /\ StoreFine /\ ReqFine(c)
         /\ req'[c].op = "hold" /\ req'[c].pc = "holding" /\ req'[c].id = i
<1>1. StoreFine
  BY UnchangedVault DEF HoldRead
<1> DEFINE record == [Idle EXCEPT !.op = "hold", !.pc = "holding", !.id = i]
<1>2. /\ record \in RequestRows /\ record.op = "hold" /\ record.pc = "holding" /\ record.id = i
      /\ record.exec = None
  BY NoRowFits, ConstantsFit DEF Idle, RequestRows, Ops, Pcs
<1>3. Call(c, record)
  BY DEF HoldRead
<1> HIDE DEF record
<1>4. RequestType' /\ req'[c] = record /\ \A d \in Clients : d # c => req'[d] = req[d]
  BY <1>2, <1>3, CallFine, ConstantsFit
<1>5. Sound(c)'
  BY <1>2, <1>4 DEF Sound, Doing, Carries, Names, Remembers, Decided, Called, At
<1> QED
  BY <1>1, <1>2, <1>4, <1>5 DEF ReqFine

LEMMA ReleaseReadFine ==
  ASSUME BaseInv, NEW c \in Clients, NEW h \in HoldIds, ReleaseRead(c, h)
  PROVE  /\ StoreFine /\ ReqFine(c)
         /\ req'[c].op = "release" /\ req'[c].pc = "releasing" /\ req'[c].hold = h
<1>1. StoreFine
  BY UnchangedVault DEF ReleaseRead
<1> DEFINE record == [Idle EXCEPT !.op = "release", !.pc = "releasing", !.hold = h]
<1>2. /\ record \in RequestRows /\ record.op = "release" /\ record.pc = "releasing"
      /\ record.hold = h /\ record.exec = None
  BY NoRowFits, ConstantsFit DEF Idle, RequestRows, Ops, Pcs
<1>3. Call(c, record)
  BY DEF ReleaseRead
<1> HIDE DEF record
<1>4. RequestType' /\ req'[c] = record /\ \A d \in Clients : d # c => req'[d] = req[d]
  BY <1>2, <1>3, CallFine, ConstantsFit
<1>5. Sound(c)'
  BY <1>2, <1>4 DEF Sound, Doing, Carries, Names, Remembers, Decided, Called, At
<1> QED
  BY <1>1, <1>2, <1>4, <1>5 DEF ReqFine

(* A flag that is written changes nothing else about a row.                *)
LEMMA FlagFine ==
  ASSUME BaseInv, NEW i, NEW flag \in {"ACTIVE", "RELEASED"},
         rows' = [rows EXCEPT ![i].hold = flag], holds' \in [HoldIds -> HoldRows],
         UNCHANGED <<now, objects>>
  PROVE  /\ StoreFine
         /\ \A j \in EvidenceIds :
              /\ rows'[j].state = rows[j].state /\ rows'[j].retention = rows[j].retention
              /\ rows'[j].hold = IF j = i THEN flag ELSE rows[j].hold
<1>1. rows \in [EvidenceIds -> Row] /\ now \in Nat /\ objects \in [Contents -> ObjectRows]
  BY ConstantsFit DEF BaseInv, RowType, StoreType, Times
<1>2. \A j \in EvidenceIds :
        /\ rows'[j].state = rows[j].state /\ rows'[j].meta = rows[j].meta
        /\ rows'[j].key = rows[j].key /\ rows'[j].version = rows[j].version
        /\ rows'[j].retention = rows[j].retention
        /\ rows'[j].hold = IF j = i THEN flag ELSE rows[j].hold
  BY <1>1 DEF Row
<1>3. rows' \in [EvidenceIds -> Row]
  BY <1>1, FlagFits
<1>4. StoreType' /\ RowType'
  BY <1>3 DEF BaseInv, StoreType, RowType
<1>5. \A k \in Contents : objects[k].version \in Nat
  BY <1>1, ConstantsFit DEF ObjectRows
<1>6. Stands
  BY <1>1, <1>2, <1>5 DEF Stands
<1>7. RowsAreSound'
  BY <1>2 DEF BaseInv, RowsAreSound
<1> QED
  BY <1>2, <1>4, <1>6, <1>7 DEF StoreFine

LEMMA CreateHoldFine ==
  ASSUME BaseInv, NEW c \in Clients, CreateHold(c)
  PROVE  StoreFine /\ ReqFine(c)
<1>1. StoreFine
  <2>1. CASE Kept(req[c].id)
    <3>1. PICK h \in HoldIds :
            /\ holds' = [holds EXCEPT ![h] = [status |-> "ACTIVE", evidence |-> req[c].id]]
            /\ rows' = [rows EXCEPT ![req[c].id].hold = "ACTIVE"]
            /\ UNCHANGED <<now, objects>>
      BY <2>1 DEF CreateHold
    <3>2. holds' \in [HoldIds -> HoldRows]
      BY <3>1, RequestFields DEF BaseInv, RowType, HoldRows
    <3> QED
      BY <3>1, <3>2, FlagFine, RequestFields
  <2>2. CASE ~Kept(req[c].id)
    BY <2>2, UnchangedVault DEF CreateHold, vault
  <2> QED
    BY <2>1, <2>2
<1> QED
  BY <1>1, EndFine DEF CreateHold, StoreFine

LEMMA CountHoldsFine ==
  ASSUME BaseInv, NEW c \in Clients, CountHolds(c)
  PROVE  StoreFine /\ ReqFine(c)
<1>1. StoreFine /\ StoreType' /\ Stands
  BY UnchangedVault DEF CountHolds, StoreFine
<1> DEFINE others == \E g \in HoldIds \ {req[c].hold} :
                       holds[g] = [status |-> "ACTIVE", evidence |-> holds[req[c].hold].evidence]
<1>2. CASE End(c)
  BY <1>1, <1>2, EndFine
<1>3. CASE req' = [req EXCEPT ![c].pc = "flagging", ![c].good = others]
  <2>1. "flagging" \in Pcs /\ others \in BOOLEAN
    BY DEF Pcs
  <2> HIDE DEF others
  <2>2. req' \in [Clients -> RequestRows]
    BY <1>3, <2>1, FieldsFit, RequestFields
  <2>3. /\ req'[c].pc = "flagging" /\ req'[c].op = req[c].op
        /\ req'[c].exec = req[c].exec /\ req'[c].at = req[c].at
        /\ \A d \in Clients : d # c => req'[d] = req[d]
    BY <1>3, RequestFields DEF RequestRows
  <2>4. Called(c)'
    BY <1>1, <2>3, CalledStays
  <2>5. req[c].op = "release"
    BY RequestFields DEF CountHolds, Sound, Doing
  <2>6. Sound(c)'
    BY <2>3, <2>4, <2>5 DEF Sound, Doing, Carries, Names, Remembers, Decided, At
  <2> QED
    BY <1>1, <2>2, <2>3, <2>6, SameRequest
<1> QED
  BY <1>2, <1>3 DEF CountHolds

LEMMA ReleaseHoldFine ==
  ASSUME BaseInv, NEW c \in Clients, ReleaseHold(c)
  PROVE  StoreFine /\ ReqFine(c)
<1> DEFINE i == holds[req[c].hold].evidence
<1>1. /\ holds' = [holds EXCEPT ![req[c].hold].status = "RELEASED"]
      /\ rows' = [rows EXCEPT ![i].hold = FlagAfter(req[c].good)]
      /\ UNCHANGED <<now, objects>> /\ End(c)
  BY DEF ReleaseHold
<1>2. holds' \in [HoldIds -> HoldRows]
  BY <1>1 DEF BaseInv, RowType, HoldRows
<1>3. FlagAfter(req[c].good) \in {"ACTIVE", "RELEASED"}
  BY DEF FlagAfter
<1>4. StoreFine
  BY <1>1, <1>2, <1>3, FlagFine
<1> QED
  BY <1>1, <1>4, EndFine DEF StoreFine

LEMMA DeleteObjectFine ==
  ASSUME BaseInv, NEW c \in Clients, DeleteObject(c)
  PROVE  StoreFine /\ ReqFine(c)
<1>1. UNCHANGED <<now, rows, holds>>
  BY DEF DeleteObject
<1>2. CASE End(c) /\ UNCHANGED objects
  <2>1. StoreFine
    BY <1>1, <1>2, UnchangedVault DEF vault
  <2> QED
    BY <1>2, <2>1, EndFine DEF StoreFine
<1>3. CASE /\ req[c].op = "delete"
           /\ objects' = IF Present(req[c].row)
                         THEN [objects EXCEPT ![req[c].row.key] = Gone(@)] ELSE objects
           /\ req' = [req EXCEPT ![c].pc = "dropped", ![c].row = NoRow, ![c].at = 0]
  <2>1. /\ objects' \in [Contents -> ObjectRows]
        /\ \A k \in Contents : objects'[k].version = objects[k].version
    BY <1>3, GoneFits DEF BaseInv, StoreType, Gone
  <2>2. StoreFine
    BY <1>1, <2>1, VersionsStand
  <2>3. "dropped" \in Pcs /\ 0 \in Times
    BY ConstantsFit DEF Pcs
  <2>4. req' \in [Clients -> RequestRows]
    BY <1>3, <2>3, FieldsFit, NoRowFits, RequestFields
  <2>5. /\ req'[c].pc = "dropped" /\ req'[c].op = req[c].op /\ req'[c].id = req[c].id
        /\ req'[c].exec = req[c].exec /\ req'[c].at = 0
        /\ \A d \in Clients : d # c => req'[d] = req[d]
    BY <1>3, RequestFields DEF RequestRows
  <2>6. Called(c)'
    BY <1>1, <2>5, RequestFields, ConstantsFit DEF Called, Times
  <2>7. Names(c)'
    BY <1>1, <1>3, <2>5, RequestFields DEF DeleteObject, Names, Sound, At
  <2>8. Sound(c)'
    BY <1>3, <2>5, <2>6, <2>7 DEF Sound, Doing, Carries, Remembers, Decided, At
  <2> QED
    BY <2>2, <2>4, <2>5, <2>8, SameRequest
<1> QED
  BY <1>2, <1>3 DEF DeleteObject

(* A deleted row, and the successors it leaves.                            *)
LEMMA OrphanFits ==
  ASSUME NEW row \in Row
  PROVE  /\ Orphan(row) \in Row /\ Orphan(row).state = row.state /\ Orphan(row).meta = row.meta
         /\ Orphan(row).key = row.key /\ Orphan(row).version = row.version
         /\ Orphan(row).retention = row.retention /\ Orphan(row).hold = row.hold
  BY DEF Orphan, Row

LEMMA RemovedFits ==
  LET removed == [NoRow EXCEPT !.state = "DELETED"]
      gone == [NoHold EXCEPT !.status = "DELETED"] IN
  /\ removed \in Row /\ removed.state = "DELETED" /\ removed.retention = 0
  /\ gone \in HoldRows /\ gone.status = "DELETED" /\ gone.evidence = None
  BY ConstantsFit DEF NoRow, Row, NoHold, HoldRows

LEMMA RowDeleted ==
  ASSUME BaseInv, NEW c \in Clients, DeleteRow(c), Kept(req[c].id)
  PROVE  /\ req[c].id \in EvidenceIds
         /\ rows' \in [EvidenceIds -> Row] /\ holds' \in [HoldIds -> HoldRows]
         /\ rows'[req[c].id].state = "DELETED" /\ rows'[req[c].id].retention = 0
         /\ \A j \in EvidenceIds : j # req[c].id =>
              /\ rows'[j].state = rows[j].state /\ rows'[j].meta = rows[j].meta
              /\ rows'[j].key = rows[j].key /\ rows'[j].version = rows[j].version
              /\ rows'[j].retention = rows[j].retention /\ rows'[j].hold = rows[j].hold
         /\ \A h \in HoldIds :
              IF holds[h].evidence = req[c].id
              THEN holds'[h].status = "DELETED" /\ holds'[h].evidence = None
              ELSE holds'[h] = holds[h]
<1> DEFINE i == req[c].id
           removed == [NoRow EXCEPT !.state = "DELETED"]
           gone == [NoHold EXCEPT !.status = "DELETED"]
<1>1. /\ i \in EvidenceIds
      /\ rows' = [j \in EvidenceIds |->
                    IF j = i THEN removed
                    ELSE IF rows[j].supersedes = i THEN Orphan(rows[j]) ELSE rows[j]]
      /\ holds' = [h \in HoldIds |-> IF holds[h].evidence = i THEN gone ELSE holds[h]]
  BY RequestFields DEF DeleteRow, Kept
<1>2. /\ removed \in Row /\ removed.state = "DELETED" /\ removed.retention = 0
      /\ gone \in HoldRows /\ gone.status = "DELETED" /\ gone.evidence = None
  BY RemovedFits
<1>3. rows \in [EvidenceIds -> Row] /\ holds \in [HoldIds -> HoldRows]
  BY DEF BaseInv, RowType
<1> HIDE DEF removed, gone, i
<1>4. rows' \in [EvidenceIds -> Row] /\ holds' \in [HoldIds -> HoldRows]
  BY <1>1, <1>2, <1>3, OrphanFits
<1>5. \A j \in EvidenceIds : j # i =>
        /\ rows'[j].state = rows[j].state /\ rows'[j].meta = rows[j].meta
        /\ rows'[j].key = rows[j].key /\ rows'[j].version = rows[j].version
        /\ rows'[j].retention = rows[j].retention /\ rows'[j].hold = rows[j].hold
  BY <1>1, <1>3, OrphanFits
<1> QED
  BY <1>1, <1>2, <1>4, <1>5 DEF i

LEMMA DeleteRowFine ==
  ASSUME BaseInv, NEW c \in Clients, DeleteRow(c)
  PROVE  StoreFine /\ ReqFine(c)
<1>1. UNCHANGED <<now, objects>> /\ End(c)
  BY DEF DeleteRow
<1>2. CASE ~Kept(req[c].id)
  <2>1. StoreFine
    BY <1>1, <1>2, UnchangedVault DEF DeleteRow, vault
  <2> QED
    BY <1>1, <2>1, EndFine DEF StoreFine
<1>3. CASE Kept(req[c].id)
  <2>1. StoreType' /\ RowType'
    BY <1>1, <1>3, RowDeleted DEF BaseInv, StoreType, RowType
  <2>2. now \in Nat /\ \A k \in Contents : objects[k].version \in Nat
    BY ConstantsFit DEF BaseInv, StoreType, ObjectRows, Times
  <2>3. Stands
    BY <1>1, <1>3, <2>2, RowDeleted DEF Stands
  <2>4. RowsAreSound'
    BY <1>1, <1>3, RowDeleted DEF BaseInv, RowsAreSound
  <2> QED
    BY <1>1, <2>1, <2>3, <2>4, EndFine DEF StoreFine
<1> QED
  BY <1>2, <1>3

-----------------------------------------------------------------------------
(* Time and faults.                                                        *)
LEMMA TickFine ==
  ASSUME BaseInv, Tick
  PROVE  StoreFine
<1>1. now \in Nat /\ now' \in Times /\ now <= now' /\ UNCHANGED <<objects, rows, holds>>
  BY ConstantsFit DEF Tick, BaseInv, StoreType, Times
<1>2. \A k \in Contents : objects[k].version \in Nat
  BY ConstantsFit DEF BaseInv, StoreType, ObjectRows
<1> QED
  BY <1>1, <1>2 DEF BaseInv, StoreFine, StoreType, RowType, RowsAreSound, Stands

LEMMA CorruptFine ==
  ASSUME BaseInv, NEW k \in Contents, Corrupt(k)
  PROVE  StoreFine
<1>1. /\ objects' \in [Contents -> ObjectRows]
      /\ \A j \in Contents : objects'[j].version = objects[j].version
  BY DEF Corrupt, BaseInv, StoreType, ObjectRows
<1> QED
  BY <1>1, VersionsStand DEF Corrupt

LEMMA CrashFine ==
  ASSUME BaseInv, Crash
  PROVE  /\ StoreFine /\ RequestType'
         /\ \A c \in Clients : req'[c] = Idle /\ Sound(c)'
<1>1. /\ objects' \in [Contents -> ObjectRows]
      /\ \A k \in Contents : objects'[k].version = objects[k].version
  BY GoneFits DEF Crash, BaseInv, StoreType, Gone
<1>2. StoreFine
  BY <1>1, VersionsStand DEF Crash
<1>3. \A c \in Clients : req'[c] = Idle
  BY DEF Crash
<1>4. \A c \in Clients : req'[c].pc = "idle" /\ req'[c].op = "none"
  BY <1>3 DEF Idle
<1>5. \A c \in Clients : Sound(c)'
  BY <1>4 DEF Sound, Doing, Carries, Names, Remembers, Decided, Called, At
<1>6. RequestType'
  BY <1>3, IdleFits DEF RequestType, Crash
<1> QED
  BY <1>2, <1>3, <1>5, <1>6

LEMMA DbErrorFine ==
  ASSUME BaseInv, NEW c \in Clients, DbError(c)
  PROVE  StoreFine /\ ReqFine(c)
  BY UnchangedVault, EndFine DEF DbError, StoreFine

-----------------------------------------------------------------------------
(* The control.                                                            *)
LEMMA CollectorsAreClients == Collectors \subseteq Clients
  BY ConstantsFit

LEMMA ControlGoes ==
  ASSUME BaseInv, UNCHANGED vault, NEW c \in Clients,
         \/ \E pc \in {"uncommitted", "error", "errorResult", "auditing"} : Goto(c, pc)
         \/ End(c)
  PROVE  StoreFine /\ ReqFine(c)
  BY UnchangedVault, GotoFine, EndFine DEF StoreFine, Free

LEMMA StartControlFine ==
  ASSUME BaseInv, NEW c \in Clients, NEW e \in Executions, StartControl(c, e)
  PROVE  StoreFine /\ ReqFine(c)
<1>1. StoreFine
  BY UnchangedVault DEF StartControl
<1> DEFINE record == [Idle EXCEPT !.op = "control", !.pc = "observing", !.exec = e]
<1>2. record \in RequestRows /\ record.op = "control" /\ record.pc = "observing" /\ record.exec = e
  BY NoRowFits, ConstantsFit DEF Idle, RequestRows, Ops, Pcs
<1>3. Call(c, record)
  BY DEF StartControl
<1> HIDE DEF record
<1>4. RequestType' /\ req'[c] = record /\ \A d \in Clients : d # c => req'[d] = req[d]
  BY <1>2, <1>3, CallFine
<1>5. Sound(c)'
  BY <1>2, <1>4 DEF Sound, Doing, Carries, Names, Remembers, Decided, Called, At
<1> QED
  BY <1>1, <1>4, <1>5 DEF ReqFine

LEMMA ObserveFine ==
  ASSUME BaseInv, NEW c \in Clients, NEW k \in Contents, Observe(c, k)
  PROVE  StoreFine /\ ReqFine(c)
<1>1. CASE Goto(c, "uncommitted") /\ UNCHANGED objects
  BY <1>1, ControlGoes DEF Observe, vault
<1>2. CASE /\ Put(k, MaxTime)
           /\ req' = [req EXCEPT ![c].pc = "stored",
                                 ![c].row = NewRow(k, Execution(c), MaxTime, None)]
  <2> DEFINE row == NewRow(k, Execution(c), MaxTime, None)
  <2>1. StoreFine
    BY <1>2, PutFine, ConstantsFit DEF Observe
  <2>2. /\ req[c].op = "control" /\ Execution(c) \in Executions /\ "stored" \in Pcs
        /\ VerdictOf[k] # "ERROR"
    BY RequestFields DEF Observe, Execution, Pcs, Sound, Doing
  <2>3. row \in Row
    BY <2>1, <2>2, NewRowFits, ConstantsFit DEF StoreFine
  <2> HIDE DEF row
  <2>4. req' = [req EXCEPT ![c].pc = "stored", ![c].row = row]
    BY <1>2 DEF row
  <2>5. req' \in [Clients -> RequestRows]
    BY <2>2, <2>3, <2>4, FieldsFit, RequestFields
  <2>6. /\ req'[c].pc = "stored" /\ req'[c].row = row /\ req'[c].op = req[c].op
        /\ req'[c].exec = req[c].exec /\ \A d \in Clients : d # c => req'[d] = req[d]
    BY <2>4, RequestFields DEF RequestRows
  <2>7. Sound(c)'
    BY <2>1, <2>2, <2>6, StoredFine, ConstantsFit DEF row, Execution
  <2> QED
    BY <2>1, <2>5, <2>6, <2>7, SameRequest
<1> QED
  BY <1>1, <1>2 DEF Observe

LEMMA VerifyCommittedFine ==
  ASSUME BaseInv, NEW c \in Clients, VerifyCommitted(c)
  PROVE  StoreFine /\ ReqFine(c)
<1>1. CASE ~Kept(req[c].id)
  BY <1>1, ControlGoes DEF VerifyCommitted
<1>2. CASE Kept(req[c].id)
  <2>1. /\ req' = [req EXCEPT ![c].pc = "read", ![c].row = rows'[req[c].id]]
        /\ rows'[req[c].id].state = "KEPT" /\ req[c].pc = "committed" /\ UNCHANGED vault
    BY <1>2 DEF VerifyCommitted, vault, Kept, At
  <2> QED
    BY <2>1, RereadingFine, UnchangedVault
<1> QED
  BY <1>1, <1>2

LEMMA PersistResultFine ==
  ASSUME BaseInv, NEW c \in Clients, PersistResult(c)
  PROVE  /\ StoreFine /\ ReqFine(c)
         /\ req[c].op = "control" /\ req[c].exec \in Executions /\ req[c].id \in EvidenceIds
         /\ req[c].row.key \in Contents
         /\ \/ results' = results
            \/ /\ Kept(req[c].id) /\ results[req[c].exec] = NoResult
               /\ rows[req[c].id].key = req[c].row.key /\ rows[req[c].id].meta = req[c].exec
               /\ VerdictOf[req[c].row.key] # "ERROR"
               /\ results' = [results EXCEPT ![req[c].exec] =
                    [status |-> VerdictOf[req[c].row.key], evidence |-> req[c].id]]
<1>1. StoreFine /\ Stands /\ StoreType' /\ UNCHANGED vault /\ At(c, "verified") /\ req[c].op = "control"
  BY UnchangedVault DEF PersistResult, Verified, StoreFine
<1>2. /\ req[c].exec \in Executions /\ req[c].id \in EvidenceIds /\ req[c].row.key \in Contents
      /\ Kept(req[c].id) => /\ rows[req[c].id].key = req[c].row.key
                            /\ rows[req[c].id].meta = req[c].exec
                            /\ VerdictOf[req[c].row.key] # "ERROR"
  BY <1>1, RequestFields DEF Sound, Doing, Names, Remembers, SameRow, At
<1>3. CASE Goto(c, "error") /\ UNCHANGED results
  BY <1>1, <1>2, <1>3, ControlGoes
<1>4. CASE /\ Kept(req[c].id) /\ results[req[c].exec] = NoResult /\ Goto(c, "concluding")
           /\ results' = [results EXCEPT ![req[c].exec] =
                [status |-> VerdictOf[req[c].row.key], evidence |-> req[c].id]]
  <2>1. "concluding" \in Pcs
    BY DEF Pcs
  <2>2. /\ RequestType' /\ req'[c].pc = "concluding" /\ req'[c].row = req[c].row
        /\ req'[c].exec = req[c].exec /\ req'[c].op = "control"
        /\ \A d \in Clients : d # c => req'[d] = req[d]
    BY <1>1, <1>4, <2>1, GotoFields
  <2>3. results'[req[c].exec].status = VerdictOf[req[c].row.key]
    BY <1>2, <1>4 DEF BaseInv, ControlType
  <2>4. Decided(c)'
    BY <1>2, <2>2, <2>3 DEF Decided
  <2>5. Sound(c)'
    BY <2>2, <2>4 DEF Sound, Doing, Carries, Names, Remembers, Called, At
  <2> QED
    BY <1>1, <1>2, <1>4, <2>2, <2>5 DEF ReqFine
<1> QED
  BY <1>1, <1>2, <1>3, <1>4 DEF PersistResult, Execution

(* What results and outcomes say.                                          *)
VaultInv == BaseInv /\ VerdictsAreEvidenced /\ OutcomesHaveResults

ControlFine ==
  ControlType' /\ ResultsStand /\ VerdictsAreEvidenced' /\ OutcomesHaveResults'

LEMMA UnlinkFine ==
  ASSUME VaultInv, StoreFine, Unlink, UNCHANGED outcomes
  PROVE  ControlFine
<1> USE DEF VaultInv
<1>1. results \in [Executions -> ResultRows] /\ outcomes \in [Executions -> OutcomeStates]
  BY DEF BaseInv, ControlType
<1>2. ASSUME NEW e \in Executions
      PROVE  /\ results'[e] \in ResultRows /\ results'[e].status = results[e].status
             /\ results'[e].evidence \in {results[e].evidence, None}
             /\ results'[e].evidence # None => rows'[results[e].evidence].state # "DELETED"
  BY <1>1 DEF Unlink, ResultRows
<1>3. ControlType' /\ ResultsStand /\ OutcomesHaveResults'
  BY <1>1, <1>2 DEF ControlType, ResultsStand, OutcomesHaveResults, Unlink
<1>4. VerdictsAreEvidenced'
  <2> SUFFICES ASSUME NEW e \in Executions
               PROVE  LET i == results'[e].evidence IN
                      /\ results'[e].status \in {"NONE", "ERROR"} => i = None
                      /\ i # None => /\ rows'[i].state = "KEPT" /\ rows'[i].meta = e
                                     /\ VerdictOf[rows'[i].key] = results'[e].status
    BY DEF VerdictsAreEvidenced
  <2> DEFINE i == results[e].evidence
  <2>1. CASE results'[e].evidence = None
    BY <2>1
  <2>2. CASE results'[e].evidence # None
    <3>1. /\ results'[e].evidence = i /\ i \in EvidenceIds /\ rows'[i].state # "DELETED"
          /\ rows[i].state = "KEPT" /\ rows[i].meta = e /\ VerdictOf[rows[i].key] = results[e].status
          /\ results[e].status \notin {"NONE", "ERROR"}
      BY <1>1, <1>2, <2>2 DEF VerdictsAreEvidenced, ResultRows
    <3>2. rows'[i].state = "KEPT"
      BY <3>1 DEF StoreFine, Stands, RowType, Row
    <3> QED
      BY <1>2, <3>1, <3>2 DEF StoreFine, Stands
  <2> QED
    BY <2>1, <2>2
<1> QED
  BY <1>3, <1>4 DEF ControlFine

LEMMA OutcomeFine ==
  ASSUME VaultInv, UNCHANGED <<rows, results>>, NEW e \in Executions, NEW status \in OutcomeStates,
         outcomes' = outcomes \/ SetOutcome(e, status),
         status \in {"PASS", "FAIL"} => results[e].status = status
  PROVE  ControlFine
<1>1. ControlType' /\ ResultsStand /\ OutcomesHaveResults'
  BY DEF VaultInv, BaseInv, ControlType, ResultsStand, OutcomesHaveResults, SetOutcome
<1>2. VerdictsAreEvidenced'
  BY DEF VaultInv, VerdictsAreEvidenced
<1> QED
  BY <1>1, <1>2 DEF ControlFine

LEMMA UnwrittenFine ==
  ASSUME VaultInv, UNCHANGED <<rows, results, outcomes>>
  PROVE  ControlFine
  BY DEF VaultInv, BaseInv, ControlFine, ControlType, ResultsStand, VerdictsAreEvidenced,
         OutcomesHaveResults

LEMMA ResultErrorFine ==
  ASSUME VaultInv, NEW c \in Clients, ResultError(c)
  PROVE  StoreFine /\ ReqFine(c) /\ ControlFine
<1> USE DEF VaultInv
<1>1. StoreFine /\ ReqFine(c)
  BY ControlGoes DEF ResultError
<1>2. rows' = rows /\ outcomes' = outcomes
  BY DEF ResultError, vault
<1>3. ASSUME NEW e \in Executions
      PROVE  /\ results'[e] \in ResultRows
             /\ \/ results'[e] = results[e]
                \/ /\ results[e].status = "NONE"
                   /\ results'[e].status = "ERROR" /\ results'[e].evidence = None
  BY DEF ResultError, NoResult, BaseInv, ControlType, ResultRows
<1>4. ControlType'
  BY <1>2, <1>3 DEF ResultError, BaseInv, ControlType
<1>5. ResultsStand /\ OutcomesHaveResults'
  BY <1>2, <1>3 DEF ResultsStand, OutcomesHaveResults
<1>6. VerdictsAreEvidenced'
  BY <1>2, <1>3 DEF VerdictsAreEvidenced
<1> QED
  BY <1>1, <1>4, <1>5, <1>6 DEF ControlFine

LEMMA PersistedFine ==
  ASSUME VaultInv, NEW c \in Clients, PersistResult(c)
  PROVE  ControlFine
<1> USE DEF VaultInv
<1> DEFINE e == req[c].exec
           i == req[c].id
<1>1. rows' = rows /\ outcomes' = outcomes
  BY DEF PersistResult, vault
<1>2. /\ e \in Executions /\ i \in EvidenceIds /\ req[c].row.key \in Contents
      /\ \/ results' = results
         \/ /\ Kept(i) /\ results[e] = NoResult
            /\ rows[i].key = req[c].row.key /\ rows[i].meta = e /\ VerdictOf[req[c].row.key] # "ERROR"
            /\ results' = [results EXCEPT ![e] =
                 [status |-> VerdictOf[req[c].row.key], evidence |-> i]]
  BY PersistResultFine
<1> HIDE DEF e, i
<1>3. CASE results' = results
  BY <1>1, <1>2, <1>3, OutcomeFine DEF OutcomeStates
<1>4. CASE /\ Kept(i) /\ results[e] = NoResult
           /\ rows[i].key = req[c].row.key /\ rows[i].meta = e /\ VerdictOf[req[c].row.key] # "ERROR"
           /\ results' = [results EXCEPT ![e] =
                [status |-> VerdictOf[req[c].row.key], evidence |-> i]]
  <2>1. VerdictOf[req[c].row.key] \in {"PASS", "FAIL"} /\ results[e].status = "NONE"
    BY <1>2, <1>4, ControlAssumption DEF NoResult
  <2>2. /\ results'[e].status = VerdictOf[req[c].row.key] /\ results'[e].evidence = i
        /\ \A f \in Executions : f # e => results'[f] = results[f]
    BY <1>2, <1>4 DEF BaseInv, ControlType
  <2>3. ControlType'
    BY <1>1, <1>2, <1>4, <2>1 DEF BaseInv, ControlType, ResultRows
  <2>4. ResultsStand /\ OutcomesHaveResults'
    BY <1>1, <2>1, <2>2 DEF ResultsStand, OutcomesHaveResults
  <2>5. VerdictsAreEvidenced'
    BY <1>1, <1>4, <2>1, <2>2 DEF VerdictsAreEvidenced, Kept
  <2> QED
    BY <2>3, <2>4, <2>5 DEF ControlFine
<1> QED
  BY <1>2, <1>3, <1>4

LEMMA ControlStepFine ==
  ASSUME VaultInv, NEW c \in Clients, ControlSteps(c)
  PROVE  StoreFine /\ ReqFine(c) /\ ControlFine
<1> USE DEF VaultInv
<1>1. ASSUME NEW e \in Executions, StartControl(c, e)
      PROVE  StoreFine /\ ReqFine(c) /\ ControlFine
  BY <1>1, StartControlFine, OutcomeFine DEF StartControl, vault, OutcomeStates
<1>2. ASSUME NEW k \in Contents, Observe(c, k)
      PROVE  StoreFine /\ ReqFine(c) /\ ControlFine
  <2>1. UNCHANGED <<rows, results, outcomes>>
    BY <1>2 DEF Observe, control
  <2> QED
    BY <1>2, <2>1, ObserveFine, UnwrittenFine
<1>3. CASE VerifyCommitted(c)
  <2>1. UNCHANGED <<rows, results, outcomes>>
    BY <1>3 DEF VerifyCommitted, control, vault
  <2> QED
    BY <1>3, <2>1, VerifyCommittedFine, UnwrittenFine
<1>4. CASE PersistResult(c)
  BY <1>4, PersistResultFine, PersistedFine
<1>5. CASE ProviderFails(c) \/ Distrust(c) \/ Audited(c) \/ ControlDbError(c)
  <2>1. UNCHANGED vault /\ UNCHANGED <<rows, results, outcomes>>
    BY <1>5 DEF ProviderFails, Distrust, Audited, ControlDbError, control, vault
  <2>2. \/ \E pc \in {"uncommitted", "error", "errorResult", "auditing"} : Goto(c, pc)
        \/ End(c)
    BY <1>5 DEF ProviderFails, Distrust, Audited, ControlDbError
  <2> QED
    BY <2>1, <2>2, ControlGoes, UnwrittenFine
<1>6. CASE CommitFails(c) \/ OutcomeError(c)
  <2>1. StoreFine /\ ReqFine(c)
    BY <1>6, ControlGoes DEF CommitFails, OutcomeError
  <2>2. ASSUME NEW status \in {"FAILED", "ERROR"}, SetOutcome(req[c].exec, status),
               UNCHANGED <<rows, results>>
        PROVE  ControlFine
    <3>1. CASE req[c].exec \in Executions
      BY <2>2, <3>1, OutcomeFine DEF OutcomeStates
    <3>2. CASE req[c].exec \notin Executions
      <4>1. outcomes' = outcomes
        BY <2>2, <3>2 DEF SetOutcome, BaseInv, ControlType
      <4> QED
        BY <2>2, <4>1, UnwrittenFine
    <3> QED
      BY <3>1, <3>2
  <2> QED
    BY <1>6, <2>1, <2>2 DEF CommitFails, OutcomeError, Execution, vault
<1>7. CASE Conclude(c)
  <2>1. StoreFine /\ ReqFine(c)
    BY <1>7, ControlGoes DEF Conclude
  <2>2. /\ req[c].exec \in Executions /\ req[c].row.key \in Contents
        /\ results[req[c].exec].status = VerdictOf[req[c].row.key]
    BY <1>7, RequestFields DEF Conclude, Sound, Decided
  <2>3. VerdictOf[req[c].row.key] \in OutcomeStates
    BY <2>2, ControlAssumption DEF OutcomeStates
  <2> QED
    BY <1>7, <2>1, <2>2, <2>3, OutcomeFine DEF Conclude, Execution, vault
<1>8. CASE ResultError(c)
  BY <1>8, ResultErrorFine
<1> QED
  BY <1>1, <1>2, <1>3, <1>4, <1>5, <1>6, <1>7, <1>8 DEF ControlSteps

(* Steps of the vault's clients.                                           *)
LEMMA ClientStepFine ==
  ASSUME BaseInv, NEW c \in Clients, Collect(c) \/ Preserve(c) \/ Steps(c)
  PROVE  StoreFine /\ ReqFine(c)
<1>1. CASE Collect(c)
  <2>1. ASSUME NEW k \in Contents, NEW m \in Metas, NEW t \in Times,
               \/ Commit(c, k, m, t)
               \/ \E i \in EvidenceIds : Supersede(c, k, m, t, i)
        PROVE  StoreFine /\ ReqFine(c)
    BY <2>1, CommitFine
  <2> QED
    BY <1>1, <2>1, VerifyReadFine DEF Collect
<1>2. CASE Preserve(c)
  BY <1>2, HoldReadFine, VerifyReadFine, ReleaseReadFine DEF Preserve
<1>3. CASE Steps(c)
  BY <1>3, ReadBackFine, CreateRowFine, ReturnExistingFine, OriginalGoneFine, InspectFine,
     MarkValidFine, RereadFine, MarkFailedFine, VerdictLostFine, RetrieveFine, CreateHoldFine,
     CountHoldsFine, ReleaseHoldFine, DeleteObjectFine, DeleteRowFine DEF Steps
<1> QED
  BY <1>1, <1>2, <1>3

LEMMA StepComplete ==
  ASSUME VaultInv, StoreFine, ControlFine, RequestType',
         \A c \in Clients : Sound(c)' \/ req'[c] = req[c]
  PROVE  VaultInv'
<1>1. \A c \in Clients : Sound(c)'
  BY OthersStaySound DEF VaultInv, ControlFine
<1> QED
  BY <1>1 DEF VaultInv, BaseInv, StoreFine, ControlFine

LEMMA VaultInvInit == ControlInit => VaultInv
<1> SUFFICES ASSUME ControlInit PROVE VaultInv
  OBVIOUS
<1> USE DEF ControlInit, Init
<1>1. StoreType /\ RowType /\ RowsAreSound
  BY ConstantsFit, NoRowFits DEF StoreType, RowType, ObjectRows, HoldRows, NoHold, RowsAreSound, NoRow
<1>2. RequestType
  BY IdleFits DEF RequestType
<1>3. \A c \in Clients : Sound(c)
  BY DEF Sound, Doing, Carries, Names, Remembers, Decided, Called, At, Idle
<1>4. ControlType /\ VerdictsAreEvidenced /\ OutcomesHaveResults
  BY DEF ControlType, OutcomeStates, ResultRows, NoResult, VerdictsAreEvidenced, OutcomesHaveResults
<1> QED
  BY <1>1, <1>2, <1>3, <1>4 DEF VaultInv, BaseInv

LEMMA VaultInvStep ==
  ASSUME VaultInv, [ControlNext]_allVars
  PROVE  VaultInv'
<1>1. ASSUME NEW c \in Clients, StoreFine, ReqFine(c), ControlFine
      PROVE  VaultInv'
  BY <1>1, StepComplete DEF ReqFine
<1>2. CASE Next /\ Unlink /\ UNCHANGED outcomes
  <2>1. ASSUME NEW c \in Clients, StoreFine, ReqFine(c)
        PROVE  VaultInv'
    BY <1>1, <1>2, <2>1, UnlinkFine
  <2>2. ASSUME NEW c \in Clients, Collect(c) \/ Preserve(c) \/ Steps(c) \/ DbError(c)
        PROVE  VaultInv'
    BY <2>1, <2>2, ClientStepFine, DbErrorFine DEF VaultInv
  <2>3. CASE Tick
    BY <1>2, <2>3, TickFine, UnlinkFine, StepComplete DEF Tick, VaultInv, BaseInv, RequestType
  <2>4. CASE \E k \in Contents : Corrupt(k)
    BY <1>2, <2>4, CorruptFine, UnlinkFine, StepComplete DEF Corrupt, VaultInv, BaseInv, RequestType
  <2>5. CASE Crash
    BY <1>2, <2>5, CrashFine, UnlinkFine, StepComplete DEF VaultInv
  <2> QED
    BY <1>2, <2>2, <2>3, <2>4, <2>5, ConstantsFit DEF Next, Faults
<1>3. CASE \E c \in Collectors : ControlSteps(c)
  BY <1>1, <1>3, ControlStepFine, CollectorsAreClients DEF VaultInv
<1>4. CASE UNCHANGED allVars
  <2>1. UNCHANGED <<vault, req, outcomes, results>> /\ UNCHANGED <<rows, results, outcomes>>
    BY <1>4 DEF allVars, vars, control, vault
  <2>2. StoreFine /\ ControlFine
    BY <2>1, UnchangedVault, UnwrittenFine DEF VaultInv
  <2> QED
    BY <2>1, <2>2, StepComplete DEF VaultInv, BaseInv, RequestType
<1> QED
  BY <1>2, <1>3, <1>4 DEF ControlNext

LEMMA VaultInvHolds == ControlSpec => []VaultInv
  BY VaultInvInit, VaultInvStep, PTL DEF ControlSpec

(* Rows, requests, outcomes and results keep their types.                  *)
THEOREM VaultTypeCorrect == ControlSpec => []ControlTypeOK
<1>1. VaultInv => ControlTypeOK
  BY TypeByParts DEF VaultInv, BaseInv
<1> QED
  BY <1>1, VaultInvHolds, PTL

(* A verdict rests on evidence that its own execution committed and that   *)
(* says so, whatever is deleted, superseded, corrupted or lost.            *)
THEOREM VerdictsAreEvidencedHolds == ControlSpec => []VerdictsAreEvidenced
<1>1. VaultInv => VerdictsAreEvidenced
  BY DEF VaultInv
<1> QED
  BY <1>1, VaultInvHolds, PTL

(* An outcome never shows a verdict its result does not have, whichever    *)
(* statement of a control fails.                                           *)
THEOREM OutcomesHaveResultsHolds == ControlSpec => []OutcomesHaveResults
<1>1. VaultInv => OutcomesHaveResults
  BY DEF VaultInv
<1> QED
  BY <1>1, VaultInvHolds, PTL

-----------------------------------------------------------------------------
(* Objects.                                                                *)
ObjectsStay ==
  \A k \in Contents : objects[k].state # "absent" =>
    objects'[k].state # "absent" /\ objects'[k].version = objects[k].version

LEMMA PutKeeps ==
  ASSUME BaseInv, NEW k \in Contents, NEW t, Put(k, t) \/ UNCHANGED objects
  PROVE  ObjectsStay
  BY DEF ObjectsStay, Put, BaseInv, StoreType

LEMMA CorruptKeeps ==
  ASSUME BaseInv, NEW k \in Contents, Corrupt(k)
  PROVE  ObjectsStay
<1>1. \A j \in Contents : j # k => objects'[j] = objects[j]
  BY DEF Corrupt, BaseInv, StoreType
<1>2. objects'[k].state = "corrupt" /\ objects'[k].version = objects[k].version
  BY DEF Corrupt, BaseInv, StoreType, ObjectRows
<1> QED
  BY <1>1, <1>2 DEF ObjectsStay

(* Steps that neither delete nor lose an object.                           *)
Gentle(c) ==
  \/ Collect(c) \/ Preserve(c) \/ ControlSteps(c) \/ DbError(c)
  \/ ReadBack(c) \/ CreateRow(c) \/ ReturnExisting(c) \/ OriginalGone(c)
  \/ Inspect(c) \/ MarkValid(c) \/ Reread(c) \/ MarkFailed(c)
  \/ VerdictLost(c) \/ Retrieve(c) \/ CountHolds(c)

LEMMA GentleObjects ==
  ASSUME BaseInv, NEW c \in Clients, Gentle(c) \/ CreateHold(c) \/ ReleaseHold(c) \/ DeleteRow(c)
  PROVE  ObjectsStay
<1>1. CASE UNCHANGED objects
  BY <1>1 DEF ObjectsStay
<1>2. CASE Collect(c)
  BY <1>1, <1>2, PutKeeps DEF Collect, Commit, Supersede, VerifyRead, vault
<1>3. CASE Preserve(c)
  BY <1>1, <1>3 DEF Preserve, HoldRead, VerifyRead, ReleaseRead, vault
<1>4. CASE ControlSteps(c)
  <2>1. ASSUME NEW k \in Contents, Observe(c, k)
        PROVE  ObjectsStay
    BY <2>1, PutKeeps DEF Observe
  <2> QED
    BY <1>1, <1>4, <2>1 DEF ControlSteps, StartControl, ProviderFails, CommitFails, VerifyCommitted,
       PersistResult, Distrust, Conclude, Audited, OutcomeError, ResultError, ControlDbError, vault
<1> QED
  BY <1>1, <1>2, <1>3, <1>4 DEF Gentle, DbError, ReadBack, CreateRow, ReturnExisting, OriginalGone,
     Inspect, MarkValid, Reread, MarkFailed, VerdictLost, Retrieve, CountHolds, CreateHold,
     ReleaseHold, DeleteRow, vault

LEMMA DeletedWasExpired ==
  ASSUME BaseInv, NEW c \in Clients, DeleteObject(c)
  PROVE  \A k \in Contents : objects[k].state # "absent" /\ objects'[k].state = "absent" =>
           objects[k].retention <= now
<1> SUFFICES ASSUME NEW k \in Contents, objects[k].state # "absent", objects'[k].state = "absent"
             PROVE  objects[k].retention <= now
  OBVIOUS
<1>1. /\ k = req[c].row.key /\ Present(req[c].row) /\ ObjectMayGo(req[c].row, req[c].at)
      /\ req[c].op = "delete"
  BY DEF DeleteObject, BaseInv, StoreType
<1>2. objects[k].retention <= req[c].at /\ req[c].at <= now
  BY <1>1, RequestFields DEF ObjectMayGo, Sound, Doing, Called
<1>3. objects[k].retention \in Nat /\ req[c].at \in Nat /\ now \in Nat
  BY RequestFields, ConstantsFit DEF BaseInv, StoreType, ObjectRows, Times
<1> QED
  BY <1>2, <1>3

(* An object leaves the store only when its own retention is over, or with *)
(* a store in memory.                                                      *)
THEOREM ObjectsOutliveRetentionHolds == ControlSpec => ObjectsOutliveRetention
<1> DEFINE Step == \A k \in Contents : objects[k].state # "absent" /\ objects'[k].state = "absent" =>
                     objects[k].retention <= now \/ \A c \in Clients : req'[c] = Idle
<1>1. VaultInv /\ [ControlNext]_allVars => [Step]_<<objects, req>>
  <2> SUFFICES ASSUME BaseInv, [ControlNext]_allVars
               PROVE  Step \/ UNCHANGED <<objects, req>>
    BY DEF VaultInv
  <2>1. CASE ObjectsStay
    BY <2>1 DEF ObjectsStay
  <2>2. ASSUME NEW c \in Clients, DeleteObject(c)
        PROVE  Step
    BY <2>2, DeletedWasExpired
  <2>3. CASE Crash
    BY <2>3 DEF Crash
  <2>4. CASE Tick \/ \E k \in Contents : Corrupt(k)
    BY <2>1, <2>4, CorruptKeeps DEF Tick, ObjectsStay
  <2>5. CASE UNCHANGED allVars
    BY <2>5 DEF allVars, vars, vault
  <2> QED
    BY <2>1, <2>2, <2>3, <2>4, <2>5, GentleObjects, ConstantsFit
       DEF ControlNext, Next, Faults, Steps, Gentle
<1> QED
  BY <1>1, VaultInvHolds, PTL DEF ControlSpec, ObjectsOutliveRetention

-----------------------------------------------------------------------------
(* Requests past the inspection of an object, and the steps that take one  *)
(* there or further.                                                       *)
Late == {"inspected", "marked", "verified", "dropped"}

Early(c) ==
  \/ Collect(c) \/ Preserve(c) \/ ControlSteps(c) \/ DbError(c)
  \/ ReadBack(c) \/ CreateRow(c) \/ ReturnExisting(c) \/ OriginalGone(c)
  \/ VerdictLost(c) \/ Retrieve(c)
  \/ CreateHold(c) \/ CountHolds(c) \/ ReleaseHold(c) \/ DeleteRow(c)

Any(c) == Collect(c) \/ Preserve(c) \/ Steps(c) \/ ControlSteps(c) \/ DbError(c)

LEMMA EarlyOrLate ==
  ASSUME NEW c, Any(c)
  PROVE  Early(c) \/ Inspect(c) \/ MarkValid(c) \/ Reread(c) \/ MarkFailed(c) \/ DeleteObject(c)
  BY DEF Any, Early, Steps

LEMMA EarlySteps ==
  ASSUME BaseInv, NEW c \in Clients, Early(c)
  PROVE  req'[c].pc \notin Late
<1>1. ASSUME End(c) PROVE req'[c].pc \notin Late
  BY <1>1, RequestFields DEF End, Idle, Late
<1>2. ASSUME NEW pc, pc \notin Late, Goto(c, pc) PROVE req'[c].pc \notin Late
  BY <1>2, RequestFields DEF Goto, RequestRows
<1>3. ASSUME NEW pc, pc \notin Late, Throw(c, pc) PROVE req'[c].pc \notin Late
  BY <1>1, <1>2, <1>3 DEF Throw
<1>4. ASSUME NEW i, Committed(c, i) PROVE req'[c].pc \notin Late
  BY <1>1, <1>4, RequestFields DEF Committed, RequestRows, Late
<1>5. ASSUME NEW i \in EvidenceIds, NEW op, VerifyRead(c, i, op) PROVE req'[c].pc \notin Late
  BY <1>5, RequestFields DEF VerifyRead, Call, Idle, Late
<1>6. CASE Collect(c)
  <2>1. ASSUME NEW k \in Contents, NEW m \in Metas, NEW t \in Times,
               \/ Commit(c, k, m, t)
               \/ \E i \in EvidenceIds : Supersede(c, k, m, t, i)
        PROVE  req'[c].pc \notin Late
    <3>1. PICK row : Call(c, [Idle EXCEPT !.op = "commit", !.pc = "stored", !.row = row])
      BY <2>1 DEF Commit, Supersede
    <3> QED
      BY <3>1, RequestFields DEF Call, Idle, Late
  <2> QED
    BY <1>5, <1>6, <2>1 DEF Collect
<1>7. CASE Preserve(c)
  BY <1>5, <1>7, HoldReadFine, ReleaseReadFine DEF Preserve, Late
<1>8. CASE \E e \in Executions : StartControl(c, e)
  BY <1>8, RequestFields DEF StartControl, Call, Idle, Late
<1>9. CASE VerifyCommitted(c) \/ \E k \in Contents : Observe(c, k)
  BY <1>2, <1>9, RequestFields DEF VerifyCommitted, Observe, RequestRows, Late
<1>10. CASE CountHolds(c)
  BY <1>1, <1>10, RequestFields DEF CountHolds, RequestRows, Late
<1> QED
  BY <1>1, <1>2, <1>3, <1>4, <1>6, <1>7, <1>8, <1>9, <1>10
     DEF Early, ControlSteps, DbError, ReadBack, CreateRow, ReturnExisting, OriginalGone,
         VerdictLost, Retrieve, CreateHold, ReleaseHold, DeleteRow, ProviderFails, CommitFails,
         PersistResult, Distrust, Conclude, Audited, OutcomeError, ResultError, ControlDbError, Late

(* What the later steps leave of the request.                              *)
LEMMA InspectLeaves ==
  ASSUME BaseInv, NEW c \in Clients, Inspect(c)
  PROVE  /\ At(c, "read") /\ req'[c].pc = "inspected" /\ req'[c].id = req[c].id
         /\ req'[c].good = Intact(req[c].row) /\ UNCHANGED vault
  BY RequestFields DEF Inspect, RequestRows

LEMMA MarkValidLeaves ==
  ASSUME BaseInv, NEW c \in Clients, MarkValid(c)
  PROVE  /\ At(c, "inspected") /\ req[c].good
         /\ req'[c].pc = "marked" /\ req'[c].id = req[c].id /\ req'[c].op = req[c].op
  BY RequestFields DEF MarkValid, RequestRows

LEMMA JudgeLeaves ==
  ASSUME BaseInv, NEW c \in Clients, NEW row, Judge(c, row) \/ Throw(c, "error") \/ End(c)
  PROVE  \/ req'[c].pc \notin Late
         \/ /\ req'[c].pc = "verified" /\ req'[c].id = req[c].id /\ req'[c].op = req[c].op
            /\ req'[c].row = row /\ req'[c].at = req[c].at /\ Judge(c, row)
<1>1. ASSUME End(c) PROVE req'[c].pc \notin Late
  BY <1>1, RequestFields DEF End, Idle, Late
<1>2. ASSUME Throw(c, "error") PROVE req'[c].pc \notin Late
  BY <1>1, <1>2, RequestFields DEF Throw, Goto, RequestRows, Late
<1>3. ASSUME req' = [req EXCEPT ![c].pc = "verified", ![c].row = row]
      PROVE  /\ req'[c].pc = "verified" /\ req'[c].id = req[c].id /\ req'[c].op = req[c].op
             /\ req'[c].row = row /\ req'[c].at = req[c].at
  BY <1>3, RequestFields DEF RequestRows
<1> QED
  BY <1>1, <1>2, <1>3 DEF Judge

LEMMA RereadLeaves ==
  ASSUME BaseInv, NEW c \in Clients, Reread(c)
  PROVE  /\ At(c, "marked") /\ UNCHANGED vault
         /\ \/ req'[c].pc \notin Late
            \/ /\ req'[c].pc = "verified" /\ req'[c].id = req[c].id /\ req'[c].op = req[c].op
               /\ req'[c].row = rows[req[c].id] /\ req'[c].at = req[c].at /\ Kept(req[c].id)
<1>1. CASE Kept(req[c].id)
  BY <1>1, JudgeLeaves DEF Reread
<1>2. CASE ~Kept(req[c].id)
  BY <1>2, JudgeLeaves DEF Reread
<1> QED
  BY <1>1, <1>2 DEF Reread

LEMMA MarkFailedLeaves ==
  ASSUME BaseInv, NEW c \in Clients, MarkFailed(c)
  PROVE  \/ req'[c].pc \notin Late
         \/ req'[c].pc = "verified" /\ req'[c].row.integrity = "INTEGRITY_FAILED"
<1>1. rows'[req[c].id].integrity = "INTEGRITY_FAILED"
  <2>1. req[c].id \in EvidenceIds /\ rows \in [EvidenceIds -> Row]
    BY RequestFields DEF MarkFailed, Kept, BaseInv, RowType
  <2> QED
    BY <2>1 DEF MarkFailed, Row
<1>2. Judge(c, rows'[req[c].id]) \/ Throw(c, "error") \/ End(c)
  BY DEF MarkFailed
<1> QED
  BY <1>1, <1>2, JudgeLeaves

LEMMA DeleteObjectLeaves ==
  ASSUME BaseInv, NEW c \in Clients, DeleteObject(c)
  PROVE  \/ req'[c].pc \notin Late
         \/ /\ req'[c].pc = "dropped" /\ req'[c].id = req[c].id /\ req'[c].op = req[c].op
            /\ At(c, "verified") /\ req[c].op = "delete" /\ MayDelete(req[c].row, req[c].at)
<1>1. CASE End(c)
  BY <1>1, RequestFields DEF End, Idle, Late
<1>2. CASE /\ MayDelete(req[c].row, req[c].at)
           /\ req' = [req EXCEPT ![c].pc = "dropped", ![c].row = NoRow, ![c].at = 0]
  BY <1>2, RequestFields DEF DeleteObject, RequestRows
<1> QED
  BY <1>1, <1>2 DEF DeleteObject

(* Steps that change a row change neither what is kept nor its retention,  *)
(* and only the flag of one row, but for the row that is inserted and the  *)
(* one that is deleted.                                                    *)
SameRows ==
  \A i \in EvidenceIds :
    /\ rows'[i].state = rows[i].state /\ rows'[i].retention = rows[i].retention
    /\ rows'[i].hold = rows[i].hold

LEMMA MarkKeeps ==
  ASSUME BaseInv, NEW c \in Clients, MarkValid(c) \/ MarkFailed(c)
  PROVE  SameRows
<1>1. req[c].id \in EvidenceIds
  BY RequestFields DEF MarkValid, MarkFailed, Kept
<1> QED
  BY <1>1, MarkFine DEF MarkValid, MarkFailed, SameRows

LEMMA RowsUntouched ==
  ASSUME BaseInv, NEW c \in Clients, Any(c),
         ~CreateRow(c), ~CreateHold(c), ~ReleaseHold(c), ~DeleteRow(c)
  PROVE  SameRows
<1>1. CASE UNCHANGED rows
  BY <1>1 DEF SameRows
<1>2. CASE Collect(c)
  BY <1>1, <1>2 DEF Collect, Commit, Supersede, VerifyRead, vault
<1>3. CASE Preserve(c)
  BY <1>1, <1>3 DEF Preserve, HoldRead, VerifyRead, ReleaseRead, vault
<1>4. CASE ControlSteps(c)
  BY <1>1, <1>4 DEF ControlSteps, StartControl, Observe, ProviderFails, CommitFails,
     VerifyCommitted, PersistResult, Distrust, Conclude, Audited, OutcomeError, ResultError,
     ControlDbError, vault
<1> QED
  BY <1>1, <1>2, <1>3, <1>4, MarkKeeps DEF Any, Steps, DbError, ReadBack, ReturnExisting,
     OriginalGone, Inspect, Reread, VerdictLost, Retrieve, CountHolds, DeleteObject, vault

(* A hold that is created or released changes the flag of one row.         *)
LEMMA FlagWritten ==
  ASSUME BaseInv, NEW c \in Clients, CreateHold(c) \/ ReleaseHold(c)
  PROVE  \/ UNCHANGED rows
         \/ \E i \in EvidenceIds, flag \in {"ACTIVE", "RELEASED"} :
              \A j \in EvidenceIds :
                /\ rows'[j].state = rows[j].state /\ rows'[j].retention = rows[j].retention
                /\ rows'[j].hold = IF j = i THEN flag ELSE rows[j].hold
<1>1. ASSUME NEW i, NEW flag \in {"ACTIVE", "RELEASED"}, rows' = [rows EXCEPT ![i].hold = flag]
      PROVE  \/ UNCHANGED rows
             \/ i \in EvidenceIds /\ \A j \in EvidenceIds :
                   /\ rows'[j].state = rows[j].state /\ rows'[j].retention = rows[j].retention
                   /\ rows'[j].hold = IF j = i THEN flag ELSE rows[j].hold
  <2>1. rows \in [EvidenceIds -> Row]
    BY DEF BaseInv, RowType
  <2>2. CASE i \in EvidenceIds
    BY <1>1, <2>1, <2>2 DEF Row
  <2>3. CASE i \notin EvidenceIds
    BY <1>1, <2>1, <2>3
  <2> QED
    BY <2>2, <2>3
<1>2. CASE CreateHold(c)
  BY <1>1, <1>2 DEF CreateHold
<1>3. CASE ReleaseHold(c)
  <2>1. PICK i, flag : flag \in {"ACTIVE", "RELEASED"} /\ rows' = [rows EXCEPT ![i].hold = flag]
    BY <1>3 DEF ReleaseHold, FlagAfter
  <2>2. \/ UNCHANGED rows
        \/ i \in EvidenceIds /\ \A j \in EvidenceIds :
              /\ rows'[j].state = rows[j].state /\ rows'[j].retention = rows[j].retention
              /\ rows'[j].hold = IF j = i THEN flag ELSE rows[j].hold
    BY <1>1, <2>1
  <2> QED
    BY <2>1, <2>2
<1> QED
  BY <1>2, <1>3

-----------------------------------------------------------------------------
(* Lost evidence: a version that is gone does not come back.               *)
NothingReturns ==
  \A k \in Contents : objects[k].state = "absent" /\ objects'[k].state # "absent" =>
    objects'[k].version > objects[k].version

LEMMA NothingPut ==
  ASSUME NEW k \in Contents, NEW t, BaseInv, Put(k, t) \/ UNCHANGED objects
  PROVE  NothingReturns
<1>1. \A j \in Contents : objects[j].version \in Nat
  BY ConstantsFit DEF BaseInv, StoreType, ObjectRows
<1> QED
  BY <1>1 DEF NothingReturns, Put, BaseInv, StoreType

LEMMA StepsReturnNothing ==
  ASSUME BaseInv, NEW c \in Clients, Collect(c) \/ Preserve(c) \/ Steps(c) \/ ControlSteps(c) \/ DbError(c)
  PROVE  NothingReturns
<1>1. CASE UNCHANGED objects
  BY <1>1 DEF NothingReturns
<1>2. CASE Collect(c)
  BY <1>1, <1>2, NothingPut DEF Collect, Commit, Supersede, VerifyRead, vault
<1>3. CASE Preserve(c)
  BY <1>1, <1>3 DEF Preserve, HoldRead, VerifyRead, ReleaseRead, vault
<1>4. CASE ControlSteps(c)
  <2>1. ASSUME NEW k \in Contents, Observe(c, k)
        PROVE  NothingReturns
    BY <1>1, <2>1, NothingPut DEF Observe
  <2> QED
    BY <1>1, <1>4, <2>1 DEF ControlSteps, StartControl, ProviderFails, CommitFails, VerifyCommitted,
       PersistResult, Distrust, Conclude, Audited, OutcomeError, ResultError, ControlDbError, vault
<1>5. CASE DeleteObject(c)
  <2>1. \A k \in Contents : objects'[k] \in {objects[k], Gone(objects[k])}
    BY <1>5 DEF DeleteObject, BaseInv, StoreType
  <2> QED
    BY <2>1 DEF NothingReturns, Gone
<1> QED
  BY <1>1, <1>2, <1>3, <1>4, <1>5 DEF Steps, DbError, ReadBack, CreateRow, ReturnExisting,
     OriginalGone, Inspect, MarkValid, Reread, MarkFailed, VerdictLost, Retrieve, CountHolds,
     CreateHold, ReleaseHold, DeleteRow, vault

LEMMA FaultsReturnNothing ==
  ASSUME BaseInv, Tick \/ Crash \/ UNCHANGED objects \/ \E k \in Contents : Corrupt(k)
  PROVE  NothingReturns
<1>1. CASE Crash
  BY <1>1 DEF Crash, Gone, NothingReturns
<1>2. ASSUME NEW k \in Contents, Corrupt(k)
      PROVE  NothingReturns
  <2>1. objects[k].state = "intact" /\ \A j \in Contents : j # k => objects'[j] = objects[j]
    BY <1>2 DEF Corrupt, BaseInv, StoreType
  <2> QED
    BY <2>1 DEF NothingReturns
<1> QED
  BY <1>1, <1>2 DEF Tick, NothingReturns

LEMMA LostObjectStays ==
  ASSUME BaseInv, StoreFine, NothingReturns, NEW i \in EvidenceIds,
         Kept(i), Kept(i)', ~Present(rows[i])
  PROVE  ~Present(rows[i])'
<1> DEFINE k == rows[i].key
<1>1. /\ k \in Contents /\ rows[i].version <= objects[k].version
      /\ rows'[i].key = k /\ rows'[i].version = rows[i].version
      /\ objects[k].version <= objects'[k].version
  BY DEF BaseInv, RowsAreSound, StoreFine, Stands, Kept
<1>2. rows[i].version \in Nat /\ objects[k].version \in Nat /\ objects'[k].version \in Nat
  BY <1>1, ConstantsFit DEF BaseInv, StoreFine, StoreType, RowType, ObjectRows, Row
<1> QED
  BY <1>1, <1>2 DEF Present, NothingReturns

(* Only a deletion that saw the object goes on to delete the row.          *)
LEMMA LostIsNotDecided ==
  ASSUME BaseInv, NEW c \in Clients, NEW i \in EvidenceIds, Lost(i), Any(c)
  PROVE  ~Deciding(c, i)'
<1> SUFFICES ASSUME Deciding(c, i)' PROVE FALSE
  OBVIOUS
<1>1. /\ Kept(i) /\ ~Present(rows[i]) /\ ~Deciding(c, i)
      /\ req'[c].op = "delete" /\ req'[c].id = i /\ req'[c].pc \in Late
  BY DEF Lost, Deciding, At, Late
<1>2. ~Early(c)
  BY <1>1, EarlySteps
<1>3. ASSUME Inspect(c) PROVE FALSE
  <2>1. /\ At(c, "read") /\ req[c].id = i /\ Intact(req[c].row)
    BY <1>1, <1>3, InspectLeaves DEF Deciding, At
  <2>2. SameRow(req[c].row, i)
    BY <1>1, <2>1, RequestFields DEF Sound, Remembers
  <2> QED
    BY <1>1, <2>1, <2>2 DEF Intact, Present, SameRow
<1>4. ASSUME MarkValid(c) PROVE FALSE
  BY <1>1, <1>4, MarkValidLeaves DEF Deciding
<1>5. ASSUME Reread(c) PROVE FALSE
  BY <1>1, <1>5, RereadLeaves DEF Deciding
<1>6. ASSUME MarkFailed(c) PROVE FALSE
  BY <1>1, <1>6, MarkFailedLeaves DEF Deciding, At
<1>7. ASSUME DeleteObject(c) PROVE FALSE
  BY <1>1, <1>7, DeleteObjectLeaves DEF Deciding, MayDelete
<1> QED
  BY <1>2, <1>3, <1>4, <1>5, <1>6, <1>7, EarlyOrLate

LEMMA LostIsKept ==
  ASSUME BaseInv, NEW c \in Clients, NEW i \in EvidenceIds, Lost(i), Any(c)
  PROVE  Kept(i)'
<1>1. Kept(i) /\ ~Deciding(c, i)
  BY DEF Lost
<1>2. CASE SameRows
  BY <1>1, <1>2 DEF SameRows, Kept
<1>3. CASE CreateRow(c)
  BY <1>1, <1>3, RequestFields DEF CreateRow, Kept, BaseInv, RowType
<1>4. CASE CreateHold(c) \/ ReleaseHold(c)
  BY <1>1, <1>4, FlagWritten DEF Kept
<1>5. CASE DeleteRow(c)
  <2>1. req[c].op = "delete" /\ At(c, "dropped")
    BY <1>5, RequestFields DEF DeleteRow, Sound, Doing
  <2>2. req[c].id # i
    BY <1>1, <2>1 DEF Deciding
  <2> QED
    BY <1>1, <1>5, <2>2, RowDeleted DEF DeleteRow, Kept
<1> QED
  BY <1>2, <1>3, <1>4, <1>5, RowsUntouched

LEMMA LostStays ==
  ASSUME BaseInv, StoreFine, NothingReturns, NEW i \in EvidenceIds, Lost(i), Kept(i)',
         \A d \in Clients : req'[d] = req[d] \/ ~Deciding(d, i)'
  PROVE  Lost(i)'
<1>1. ~Present(rows[i])'
  BY LostObjectStays DEF Lost
<1>2. \A d \in Clients : ~Deciding(d, i)'
  BY DEF Lost, Deciding, At
<1> QED
  BY <1>1, <1>2 DEF Lost

(* Evidence whose object is missing is an incident that stays: its row is  *)
(* never deleted and no new object passes for the lost one, however many   *)
(* clients delete, verify and commit it at once.                           *)
THEOREM LostEvidenceIsKeptHolds == ControlSpec => LostEvidenceIsKept
<1> DEFINE Step == \A i \in EvidenceIds : Lost(i) => Lost(i)'
<1>1. VaultInv /\ [ControlNext]_allVars => [Step]_<<objects, rows, req>>
  <2> SUFFICES ASSUME VaultInv, [ControlNext]_allVars, NEW i \in EvidenceIds, Lost(i)
               PROVE  Lost(i)' \/ UNCHANGED <<objects, rows, req>>
    OBVIOUS
  <2>0. BaseInv /\ Kept(i)
    BY DEF VaultInv, Lost
  <2>1. ASSUME NEW c \in Clients, StoreFine, ReqFine(c), Any(c)
        PROVE  Lost(i)'
    <3>1. \A d \in Clients : req'[d] = req[d] \/ ~Deciding(d, i)'
      BY <2>0, <2>1, LostIsNotDecided DEF ReqFine
    <3> QED
      BY <2>0, <2>1, <3>1, StepsReturnNothing, LostIsKept, LostStays DEF Any
  <2>2. ASSUME NEW c \in Clients, Collect(c) \/ Preserve(c) \/ Steps(c) \/ DbError(c)
        PROVE  Lost(i)'
    BY <2>0, <2>1, <2>2, ClientStepFine, DbErrorFine DEF Any
  <2>3. ASSUME NEW c \in Clients, ControlSteps(c)
        PROVE  Lost(i)'
    BY <2>1, <2>3, ControlStepFine DEF Any
  <2>4. CASE Tick \/ \E k \in Contents : Corrupt(k)
    <3>1. StoreFine /\ NothingReturns
      BY <2>0, <2>4, TickFine, CorruptFine, FaultsReturnNothing
    <3> QED
      BY <2>0, <2>4, <3>1, LostStays DEF Tick, Corrupt, Kept
  <2>5. CASE Crash
    <3>1. StoreFine /\ NothingReturns /\ \A d \in Clients : req'[d].op = "none"
      BY <2>0, <2>5, CrashFine, FaultsReturnNothing DEF Idle
    <3>2. \A d \in Clients : ~Deciding(d, i)'
      BY <3>1 DEF Deciding
    <3> QED
      BY <2>0, <2>5, <3>1, <3>2, LostStays DEF Crash, Kept
  <2>6. CASE UNCHANGED allVars
    BY <2>6 DEF allVars, vars, vault
  <2> QED
    BY <2>2, <2>3, <2>4, <2>5, <2>6, ConstantsFit DEF ControlNext, Next, Faults
<1> QED
  BY <1>1, VaultInvHolds, PTL DEF ControlSpec, LostEvidenceIsKept

-----------------------------------------------------------------------------
(* The retention policy: what became of each piece of evidence, what is    *)
(* flagged and what is about to be removed.                                *)
Fate == [i \in EvidenceIds |->
           CASE rows[i].state = "NONE"    -> "ABSENT"
             [] rows[i].state = "DELETED" -> "REMOVED"
             [] OTHER                     -> "KEPT"]
Until == [i \in EvidenceIds |-> rows[i].retention]
Flagged == {i \in EvidenceIds : Kept(i) /\ rows[i].hold = "ACTIVE"}
Condemned == {i \in EvidenceIds : Kept(i) /\ \E c \in Clients : Condemns(c, i)}

LEMMA Fates ==
  ASSUME RowType, NEW i \in EvidenceIds
  PROVE  /\ Until[i] = rows[i].retention
         /\ Fate[i] = IF rows[i].state = "NONE" THEN "ABSENT"
                      ELSE IF rows[i].state = "DELETED" THEN "REMOVED" ELSE "KEPT"
<1>1. rows[i].state \in {"NONE", "KEPT", "DELETED"}
  BY DEF RowType, Row
<1> QED
  BY <1>1 DEF Fate, Until

LEMMA FatesThen ==
  ASSUME RowType', NEW i \in EvidenceIds
  PROVE  /\ Until'[i] = rows'[i].retention
         /\ Fate'[i] = IF rows'[i].state = "NONE" THEN "ABSENT"
                       ELSE IF rows'[i].state = "DELETED" THEN "REMOVED" ELSE "KEPT"
<1>1. rows'[i].state \in {"NONE", "KEPT", "DELETED"}
  BY DEF RowType, Row
<1> QED
  BY <1>1 DEF Fate, Until

(* One piece of evidence changes, or none does.                            *)
LEMMA OneChanges ==
  ASSUME NEW i \in EvidenceIds, NEW fate, NEW until,
         \A j \in EvidenceIds : /\ Fate'[j] = IF j = i THEN fate ELSE Fate[j]
                                /\ Until'[j] = IF j = i THEN until ELSE Until[j]
  PROVE  Fate' = [Fate EXCEPT ![i] = fate] /\ Until' = [Until EXCEPT ![i] = until]
<1>1. Fate' = [j \in EvidenceIds |-> Fate'[j]] /\ Until' = [j \in EvidenceIds |-> Until'[j]]
  BY DEF Fate, Until
<1>2. Fate = [j \in EvidenceIds |-> Fate[j]] /\ Until = [j \in EvidenceIds |-> Until[j]]
  BY DEF Fate, Until
<1> HIDE DEF Fate, Until
<1> QED
  BY <1>1, <1>2

LEMMA NothingChanges ==
  ASSUME BaseInv, BaseInv',
         \A j \in EvidenceIds : rows'[j].state = rows[j].state /\ rows'[j].retention = rows[j].retention
  PROVE  UNCHANGED <<Fate, Until>>
<1>1. \A j \in EvidenceIds : Fate'[j] = Fate[j] /\ Until'[j] = Until[j]
  BY Fates, FatesThen DEF BaseInv
<1>2. Fate' = [j \in EvidenceIds |-> Fate'[j]] /\ Until' = [j \in EvidenceIds |-> Until'[j]]
  BY DEF Fate, Until
<1>3. Fate = [j \in EvidenceIds |-> Fate[j]] /\ Until = [j \in EvidenceIds |-> Until[j]]
  BY DEF Fate, Until
<1> HIDE DEF Fate, Until
<1> QED
  BY <1>1, <1>2, <1>3

LEMMA RetentionInit == ControlInit => Retention!Init
<1> SUFFICES ASSUME ControlInit PROVE Retention!Init
  OBVIOUS
<1>1. RowType /\ \A i \in EvidenceIds : rows[i].state = "NONE" /\ rows[i].retention = 0
  BY VaultInvInit DEF VaultInv, BaseInv, ControlInit, Init, NoRow
<1>2. \A i \in EvidenceIds : Fate[i] = "ABSENT" /\ Until[i] = 0
  BY <1>1, Fates
<1>3. Fate = [i \in EvidenceIds |-> "ABSENT"] /\ Until = [i \in EvidenceIds |-> 0]
  BY <1>2 DEF Fate, Until
<1>4. Flagged = {} /\ Condemned = {}
  BY <1>1 DEF Flagged, Condemned, Kept
<1> QED
  BY <1>3, <1>4 DEF Retention!Init, Fate, Until, Flagged, Condemned, ControlInit, Init

(* The time passes between steps.                                          *)
LEMMA TimeStands ==
  ASSUME NEW c, Any(c)
  PROVE  now' = now
<1>1. CASE Collect(c) \/ Preserve(c) \/ DbError(c)
  BY <1>1 DEF Collect, Commit, Supersede, VerifyRead, Preserve, HoldRead, ReleaseRead, DbError, vault
<1>2. CASE Steps(c)
  BY <1>2 DEF Steps, ReadBack, CreateRow, ReturnExisting, OriginalGone, Inspect, MarkValid, Reread,
     MarkFailed, VerdictLost, Retrieve, CreateHold, CountHolds, ReleaseHold, DeleteObject,
     DeleteRow, vault
<1>3. CASE ControlSteps(c)
  BY <1>3 DEF ControlSteps, StartControl, Observe, ProviderFails, CommitFails, VerifyCommitted,
     PersistResult, Distrust, Conclude, Audited, OutcomeError, ResultError, ControlDbError, vault
<1> QED
  BY <1>1, <1>2, <1>3 DEF Any

(* Only rereading its row makes a request condemn anything.                *)
LEMMA NothingCondemned ==
  ASSUME BaseInv, NEW c \in Clients, NEW i, Any(c), ~Reread(c), Condemns(c, i)'
  PROVE  Condemns(c, i)
<1>1. /\ req'[c].op = "delete" /\ req'[c].id = i /\ req'[c].pc \in {"verified", "dropped"}
      /\ req'[c].pc = "verified" => req'[c].row.integrity = "VALID"
  BY DEF Condemns, At
<1>2. DeleteObject(c)
  BY <1>1, EarlyOrLate, EarlySteps, InspectLeaves, MarkValidLeaves, MarkFailedLeaves DEF Late
<1> QED
  BY <1>1, <1>2, DeleteObjectLeaves DEF Condemns, MayDelete, Late

LEMMA SomeSpared ==
  ASSUME BaseInv, NEW c \in Clients, Any(c), ~Reread(c), ReqFine(c), NEW i, Kept(i),
         i \in Condemned'
  PROVE  i \in Condemned
<1>1. i \in EvidenceIds /\ \E d \in Clients : Condemns(d, i)'
  BY DEF Condemned
<1>2. \A d \in Clients : d # c => (Condemns(d, i)' => Condemns(d, i))
  BY DEF ReqFine, Condemns, At
<1> QED
  BY <1>1, <1>2, NothingCondemned DEF Condemned

(* What changes no row is a stutter, or spares.                            *)
LEMMA SpareRefined ==
  ASSUME BaseInv, BaseInv', now' = now, SameRows, Condemned' \subseteq Condemned
  PROVE  Retention!Spare
<1>1. UNCHANGED <<Fate, Until>>
  BY NothingChanges DEF SameRows
<1>2. Flagged' = Flagged
  BY DEF Flagged, SameRows, Kept
<1> QED
  BY <1>1, <1>2 DEF Retention!Spare, Fate, Until, Flagged, Condemned

(* A step that goes on with the row as it is may condemn it.               *)
LEMMA CondemnRefined ==
  ASSUME BaseInv, BaseInv', NEW c \in Clients, Reread(c), ReqFine(c)
  PROVE  Retention!Spare \/ \E i \in EvidenceIds : Retention!Condemn(i)
<1>1. UNCHANGED vault /\ At(c, "marked") /\ \A d \in Clients : d # c => req'[d] = req[d]
  BY RereadLeaves DEF ReqFine
<1>2. now' = now /\ rows' = rows /\ SameRows
  BY <1>1 DEF vault, SameRows
<1>3. \A d \in Clients, j \in EvidenceIds : d # c => (Condemns(d, j)' <=> Condemns(d, j))
  BY <1>1 DEF Condemns, At
<1>4. \A j \in EvidenceIds : ~Condemns(c, j)
  BY <1>1 DEF Condemns, At
<1>5. CASE Condemned' \subseteq Condemned
  BY <1>2, <1>5, SpareRefined
<1>6. CASE ~(Condemned' \subseteq Condemned)
  <2>1. PICK i \in EvidenceIds : i \in Condemned' /\ i \notin Condemned
    BY <1>6 DEF Condemned
  <2>2. Condemns(c, i)' /\ Kept(i)
    BY <1>2, <1>3, <2>1 DEF Condemned, Kept
  <2>3. \A j \in EvidenceIds : Condemns(c, j)' => j = i
    BY <2>2 DEF Condemns
  <2>4. Condemned' = Condemned \union {i}
    BY <1>2, <1>3, <1>4, <2>2, <2>3 DEF Condemned, Kept
  <2>5. /\ req[c].op = "delete" /\ req[c].id = i
        /\ rows[i].hold # "ACTIVE" /\ rows[i].retention <= req[c].at
    BY <1>1, <2>2, RereadLeaves DEF Condemns, At, Late
  <2>6. rows[i].retention <= now
    <3>1. req[c].at <= now /\ req[c].at \in Nat /\ now \in Nat /\ rows[i].retention \in Nat
      BY <2>1, <2>5, RequestFields, ConstantsFit DEF Sound, Called, BaseInv, RowType, Row, Times
    <3> QED
      BY <2>5, <3>1
  <2>7. Fate[i] = "KEPT" /\ Until[i] = rows[i].retention /\ i \notin Flagged
    BY <2>1, <2>2, <2>5, Fates DEF Flagged, Kept, BaseInv
  <2>8. UNCHANGED <<now, Fate, Until, Flagged>>
    BY <1>2 DEF Fate, Until, Flagged, Kept
  <2> HIDE DEF Fate, Until
  <2>9. Fate[i] = "KEPT" /\ Until[i] <= now
    BY <2>6, <2>7
  <2> QED
    BY <2>4, <2>7, <2>8, <2>9 DEF Retention!Condemn, Fate, Until, Flagged, Condemned
<1> QED
  BY <1>5, <1>6

LEMMA CommitRefined ==
  ASSUME BaseInv, BaseInv', NEW c \in Clients, CreateRow(c), ReqFine(c)
  PROVE  \E i \in EvidenceIds : Retention!Commit(i)
<1>1. /\ RowType /\ RowType' /\ UNCHANGED now
      /\ req[c].row.state = "KEPT" /\ req[c].row.retention \in Times /\ req[c].row.hold = "NONE"
  BY RequestFields DEF BaseInv, CreateRow, Sound, Carries, Row
<1>2. PICK i \in EvidenceIds : rows[i].state = "NONE" /\ rows' = [rows EXCEPT ![i] = req[c].row]
  BY DEF CreateRow
<1>3. rows'[i] = req[c].row /\ \A j \in EvidenceIds : j # i => rows'[j] = rows[j]
  BY <1>1, <1>2 DEF RowType
<1>4. \A j \in EvidenceIds : /\ Fate'[j] = IF j = i THEN "KEPT" ELSE Fate[j]
                             /\ Until'[j] = IF j = i THEN req[c].row.retention ELSE Until[j]
  BY <1>1, <1>3, Fates, FatesThen
<1>5. /\ Fate' = [Fate EXCEPT ![i] = "KEPT"]
      /\ Until' = [Until EXCEPT ![i] = req[c].row.retention]
  BY <1>4, OneChanges
<1>6. Fate[i] = "ABSENT"
  BY <1>1, <1>2, Fates
<1>7. Flagged' = Flagged
  BY <1>1, <1>2, <1>3 DEF Flagged, Kept
<1>8. Condemned' = Condemned
  <2>1. \A d \in Clients : ~Condemns(d, i)
    <3> SUFFICES ASSUME NEW d \in Clients, Condemns(d, i) PROVE FALSE
      OBVIOUS
    <3>1. rows[i].state # "NONE"
      BY RequestFields DEF Condemns, Sound, Names, At
    <3> QED
      BY <1>2, <3>1
  <2>2. \A d \in Clients, j \in EvidenceIds : Condemns(d, j)' <=> Condemns(d, j)
    <3>1. \A j \in EvidenceIds : ~Condemns(c, j)
      BY DEF CreateRow, Condemns, At
    <3>2. \A j \in EvidenceIds : ~Condemns(c, j)'
      BY EarlySteps DEF Early, Condemns, At, Late
    <3>3. \A d \in Clients, j \in EvidenceIds : d # c => (Condemns(d, j)' <=> Condemns(d, j))
      BY DEF ReqFine, Condemns, At
    <3> QED
      BY <3>1, <3>2, <3>3
  <2>3. \A j \in EvidenceIds : j # i => (Kept(j)' <=> Kept(j))
    BY <1>3 DEF Kept
  <2> QED
    BY <2>1, <2>2, <2>3 DEF Condemned
<1> QED
  BY <1>1, <1>5, <1>6, <1>7, <1>8
     DEF Retention!Commit, Retention!Become, Fate, Until, Flagged, Condemned, Times

(* A request that is not a deletion and ends condemns nothing.             *)
LEMMA CondemnedStays ==
  ASSUME BaseInv, NEW c \in Clients, CreateHold(c) \/ ReleaseHold(c), ReqFine(c),
         \A j \in EvidenceIds : rows'[j].state = rows[j].state
  PROVE  Condemned' = Condemned
<1>1. \A j \in EvidenceIds : ~Condemns(c, j)
  BY DEF CreateHold, ReleaseHold, Condemns, At
<1>2. \A j \in EvidenceIds : ~Condemns(c, j)'
  BY EarlySteps DEF Early, Condemns, At, Late
<1>3. \A d \in Clients, j \in EvidenceIds : d # c => (Condemns(d, j)' <=> Condemns(d, j))
  BY DEF ReqFine, Condemns, At
<1>4. \A j \in EvidenceIds : Kept(j)' <=> Kept(j)
  BY DEF Kept
<1> QED
  BY <1>1, <1>2, <1>3, <1>4 DEF Condemned

LEMMA FlagRefined ==
  ASSUME BaseInv, BaseInv', NEW c \in Clients, CreateHold(c) \/ ReleaseHold(c), ReqFine(c)
  PROVE  \/ Retention!Spare
         \/ \E i \in EvidenceIds : Retention!Hold(i) \/ Retention!Release(i)
<1>1. now' = now
  BY DEF CreateHold, ReleaseHold
<1>2. CASE UNCHANGED rows
  <2>1. SameRows /\ Condemned' = Condemned
    BY <1>2, CondemnedStays DEF SameRows
  <2> QED
    BY <1>1, <2>1, SpareRefined
<1>3. CASE ~UNCHANGED rows
  <2>1. PICK i \in EvidenceIds, flag \in {"ACTIVE", "RELEASED"} :
          \A j \in EvidenceIds :
            /\ rows'[j].state = rows[j].state /\ rows'[j].retention = rows[j].retention
            /\ rows'[j].hold = IF j = i THEN flag ELSE rows[j].hold
    BY <1>3, FlagWritten
  <2>2. UNCHANGED <<Fate, Until>> /\ Condemned' = Condemned
    BY <2>1, NothingChanges, CondemnedStays
  <2>3. \A j \in EvidenceIds : Kept(j)' <=> Kept(j)
    BY <2>1 DEF Kept
  <2>4. CASE flag = "ACTIVE" /\ Kept(i)
    <3>1. Flagged' = Flagged \union {i}
      BY <2>1, <2>3, <2>4 DEF Flagged
    <3>2. Fate[i] = "KEPT"
      BY <2>4, Fates DEF Kept, BaseInv
    <3> QED
      BY <1>1, <2>2, <3>1, <3>2 DEF Retention!Hold, Fate, Until, Flagged, Condemned
  <2>5. CASE flag # "ACTIVE" \/ ~Kept(i)
    <3>1. Flagged' = Flagged \ {i}
      BY <2>1, <2>3, <2>5 DEF Flagged
    <3> QED
      BY <1>1, <2>2, <3>1 DEF Retention!Release, Fate, Until, Flagged, Condemned
  <2> QED
    BY <2>4, <2>5
<1> QED
  BY <1>2, <1>3

(* Only condemned evidence is removed.                                     *)
LEMMA RemoveRefined ==
  ASSUME BaseInv, BaseInv', NEW c \in Clients, DeleteRow(c), Kept(req[c].id), ReqFine(c)
  PROVE  \E i \in EvidenceIds : Retention!Remove(i)
<1> DEFINE i == req[c].id
<1>1. /\ RowType /\ RowType' /\ UNCHANGED now /\ At(c, "dropped") /\ req[c].op = "delete"
  BY RequestFields DEF BaseInv, DeleteRow, Sound, Doing
<1>2. /\ i \in EvidenceIds /\ rows'[i].state = "DELETED" /\ rows'[i].retention = 0
      /\ \A j \in EvidenceIds : j # i =>
           /\ rows'[j].state = rows[j].state /\ rows'[j].retention = rows[j].retention
           /\ rows'[j].hold = rows[j].hold
  BY RowDeleted
<1>3. Kept(i) /\ Condemns(c, i) /\ \A j \in EvidenceIds : j # i => ~Condemns(c, j)
  BY <1>1 DEF Condemns
<1>4. \A j \in EvidenceIds : ~Condemns(c, j)'
  BY EarlySteps DEF Early, Condemns, At, Late
<1>5. \A d \in Clients, j \in EvidenceIds : d # c => (Condemns(d, j)' <=> Condemns(d, j))
  BY DEF ReqFine, Condemns, At
<1> HIDE DEF i
<1>6. \A j \in EvidenceIds : (Kept(j)' <=> Kept(j) /\ j # i)
  BY <1>2 DEF Kept
<1>7. Flagged' = Flagged \ {i}
  BY <1>2, <1>6 DEF Flagged
<1>8. i \in Condemned /\ Condemned' = Condemned \ {i}
  BY <1>2, <1>3, <1>4, <1>5, <1>6 DEF Condemned
<1>9. /\ Fate[i] = "KEPT"
      /\ \A j \in EvidenceIds : /\ Fate'[j] = IF j = i THEN "REMOVED" ELSE Fate[j]
                                /\ Until'[j] = IF j = i THEN 0 ELSE Until[j]
  BY <1>1, <1>2, <1>3, Fates, FatesThen DEF Kept
<1>10. Fate' = [Fate EXCEPT ![i] = "REMOVED"] /\ Until' = [Until EXCEPT ![i] = 0]
  BY <1>2, <1>9, OneChanges
<1> QED
  BY <1>1, <1>2, <1>7, <1>8, <1>9, <1>10
     DEF Retention!Remove, Retention!Become, Fate, Until, Flagged, Condemned

LEMMA ClientRefines ==
  ASSUME BaseInv, BaseInv', NEW c \in Clients, Any(c), ReqFine(c)
  PROVE  Retention!Next
<1>1. CASE Reread(c)
  BY <1>1, CondemnRefined DEF Retention!Next
<1>2. CASE CreateRow(c)
  BY <1>2, CommitRefined DEF Retention!Next
<1>3. CASE CreateHold(c) \/ ReleaseHold(c)
  BY <1>3, FlagRefined DEF Retention!Next
<1>4. CASE DeleteRow(c) /\ Kept(req[c].id)
  BY <1>4, RemoveRefined DEF Retention!Next
<1>5. CASE /\ ~Reread(c) /\ ~CreateRow(c) /\ ~CreateHold(c) /\ ~ReleaseHold(c)
           /\ ~(DeleteRow(c) /\ Kept(req[c].id))
  <2>1. SameRows
    <3>1. CASE DeleteRow(c)
      BY <1>5, <3>1 DEF DeleteRow, SameRows
    <3>2. CASE ~DeleteRow(c)
      BY <1>5, <3>2, RowsUntouched
    <3> QED
      BY <3>1, <3>2
  <2>2. \A i \in EvidenceIds : Kept(i)' <=> Kept(i)
    BY <2>1 DEF SameRows, Kept
  <2>3. Condemned' \subseteq Condemned
    BY <1>5, <2>2, SomeSpared DEF Condemned
  <2>4. now' = now
    BY TimeStands
  <2> QED
    BY <2>1, <2>3, <2>4, SpareRefined DEF Retention!Next
<1> QED
  BY <1>1, <1>2, <1>3, <1>4, <1>5

(* Time and faults.                                                        *)
LEMMA FaultRefines ==
  ASSUME BaseInv, BaseInv', Tick \/ Crash \/ (\E k \in Contents : Corrupt(k)) \/ UNCHANGED allVars
  PROVE  [Retention!Next]_Retention!vars
<1>1. SameRows
  BY DEF SameRows, Tick, Crash, Corrupt, allVars, vars, vault
<1>2. CASE Tick
  <2>1. UNCHANGED <<Fate, Until>> /\ Flagged' = Flagged /\ Condemned' = Condemned
    BY <1>2 DEF Tick, Fate, Until, Flagged, Condemned, Kept, Condemns, At
  <2> QED
    BY <1>2, <2>1
       DEF Tick, Retention!Next, Retention!Tick, Fate, Until, Flagged, Condemned
<1>3. CASE Crash
  <2>1. \A d \in Clients : req'[d].op = "none"
    BY <1>3, CrashFine DEF Idle
  <2>2. Condemned' \subseteq Condemned
    BY <2>1 DEF Condemned, Condemns
  <2> QED
    BY <1>1, <1>3, <2>2, SpareRefined DEF Crash, Retention!Next
<1>4. CASE (\E k \in Contents : Corrupt(k)) \/ UNCHANGED allVars
  <2>1. now' = now /\ Condemned' = Condemned
    BY <1>4 DEF Corrupt, allVars, vars, vault, Condemned, Kept, Condemns, At
  <2> QED
    BY <1>1, <2>1, SpareRefined DEF Retention!Next
<1> QED
  BY <1>2, <1>3, <1>4

(* The vault implements the retention policy as far as it does keep it:    *)
(* evidence that was committed stays, with its retention, until a deletion *)
(* has found it expired, intact and not flagged as held, however many      *)
(* clients hold, release and delete it at once.                            *)
THEOREM RefinesRetentionHolds == ControlSpec => RefinesRetention
<1>1. VaultInv /\ VaultInv' /\ [ControlNext]_allVars => [Retention!Next]_Retention!vars
  <2> SUFFICES ASSUME VaultInv, VaultInv', [ControlNext]_allVars
               PROVE  [Retention!Next]_Retention!vars
    OBVIOUS
  <2>0. BaseInv /\ BaseInv'
    BY DEF VaultInv
  <2>1. CASE Tick \/ Crash \/ (\E k \in Contents : Corrupt(k)) \/ UNCHANGED allVars
    BY <2>0, <2>1, FaultRefines
  <2>2. ASSUME NEW c \in Clients, Collect(c) \/ Preserve(c) \/ Steps(c) \/ DbError(c)
        PROVE  Retention!Next
    BY <2>0, <2>2, ClientStepFine, DbErrorFine, ClientRefines DEF Any
  <2>3. ASSUME NEW c \in Clients, ControlSteps(c)
        PROVE  Retention!Next
    BY <2>0, <2>3, ControlStepFine, ClientRefines DEF Any
  <2> QED
    BY <2>1, <2>2, <2>3, ConstantsFit DEF ControlNext, Next, Faults
<1> QED
  BY <1>1, VaultInvHolds, RetentionInit, PTL DEF ControlSpec, RefinesRetention, Retention!Spec
=============================================================================
