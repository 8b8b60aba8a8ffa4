---------------------------- MODULE EvidenceVault ----------------------------
(***************************************************************************)
(* The evidence vault: content-addressed objects in an object store, their *)
(* metadata rows and legal holds in PostgreSQL, and the requests that      *)
(* commit, supersede, verify, retrieve, hold, release and delete evidence  *)
(* (src/src/evidence-service.ts, src/src/evidence-storage.ts).             *)
(*                                                                         *)
(* One action is one call of the store, one statement or one transaction:  *)
(* a request carries what it read to its next step in req.  A piece of     *)
(* evidence is stored under the hash of its content, so the key stands for *)
(* the canonical bytes; redaction and schema validation precede the key.   *)
(***************************************************************************)
EXTENDS Naturals

CONSTANTS
  Clients,      \* concurrent requests (bounds the model)
  Custodians,   \* those that place or release holds and delete evidence
  Collectors,   \* those that commit, verify, retrieve and run controls
  Contents,     \* storageRef keys, one per distinct content
  Metas,        \* the rest of what isSameEvidenceMetadata compares in requests
  Executions,   \* and in controls: the attempt of a scan they belong to
  EvidenceIds,  \* Evidence rows that may be created
  HoldIds,      \* EvidenceLegalHold rows that may be created
  MaxTime,      \* the last instant considered
  MaxVersions,  \* versions a key may see
  Environment,  \* what may happen besides normal execution
  None          \* no row, no key, no hold

(* Bytes rot, a statement or transaction fails, the process dies with its  *)
(* requests and the store survives, or the store is the default in-memory  *)
(* one and dies with the process; the last two concern the control that    *)
(* extends this module.                                                    *)
EnvironmentKinds == {"corrupt", "dbError", "crash", "memory", "failure"}

ASSUME VaultAssumption ==
  /\ Custodians \union Collectors \subseteq Clients
  /\ MaxTime \in Nat
  /\ MaxVersions \in Nat \ {0}
  /\ Environment \subseteq EnvironmentKinds
  /\ None \notin Contents \union Metas \union Executions \union EvidenceIds \union HoldIds

VARIABLES
  now,      \* the time
  objects,  \* the object under each key and the version it has or had last
  rows,     \* Evidence rows
  holds,    \* EvidenceLegalHold rows
  req       \* local state of each request

vault == <<now, objects, rows, holds>>
vars == <<vault, req>>

Times == 0..MaxTime
NoRow == [state |-> "NONE", key |-> None, version |-> 0, meta |-> None,
          retention |-> 0, integrity |-> "VALID", hold |-> "NONE",
          supersedes |-> None]
Row == [state: {"NONE", "KEPT", "DELETED"}, key: Contents \union {None},
        version: 0..MaxVersions, meta: Metas \union Executions \union {None},
        retention: Times, integrity: {"VALID", "INTEGRITY_FAILED"},
        hold: {"NONE", "ACTIVE", "RELEASED"}, supersedes: EvidenceIds \union {None}]
NoHold == [status |-> "NONE", evidence |-> None]

(* A request's operation and program counter; the evidence and the row it  *)
(* works on, a value it read, its hold, the control's execution and the    *)
(* time it was called at.                                                  *)
Ops == {"none", "commit", "verify", "retrieve", "delete", "hold", "release", "control"}
Pcs == {"idle", "stored", "checked", "read", "inspected", "marked", "verified", "dropped", "holding", "releasing", "flagging",
        "observing", "committed", "uncommitted", "concluding",
        "auditing", "error", "errorResult"}
Idle == [op |-> "none", pc |-> "idle", id |-> None, row |-> NoRow,
         good |-> FALSE, hold |-> None, exec |-> None, at |-> 0]

TypeOK ==
  /\ now \in Times
  /\ objects \in [Contents -> [state: {"absent", "intact", "corrupt"},
                               version: 0..MaxVersions, retention: Times]]
  /\ rows \in [EvidenceIds -> Row]
  /\ holds \in [HoldIds -> [status: {"NONE", "ACTIVE", "RELEASED", "DELETED"},
                            evidence: EvidenceIds \union {None}]]
  /\ req \in [Clients -> [op: Ops, pc: Pcs, id: EvidenceIds \union {None}, row: Row,
                          good: BOOLEAN, hold: HoldIds \union {None},
                          exec: Executions \union {None}, at: Times]]

Init ==
  /\ now = 0
  /\ objects = [k \in Contents |-> [state |-> "absent", version |-> 0, retention |-> 0]]
  /\ rows = [i \in EvidenceIds |-> NoRow]
  /\ holds = [h \in HoldIds |-> NoHold]
  /\ req = [c \in Clients |-> Idle]

-----------------------------------------------------------------------------
(* Helpers.                                                                *)

At(c, pc) == req[c].pc = pc
Kept(i) == i # None /\ rows[i].state = "KEPT"
Goto(c, pc) == req' = [req EXCEPT ![c].pc = pc]

(* The request ends, with an answer or with an error.                      *)
End(c) == req' = [req EXCEPT ![c] = Idle]
Call(c, record) == req[c] = Idle /\ req' = [req EXCEPT ![c] = record]

(* InMemoryEvidenceObjectStorage.get and head: the version asked for.      *)
Present(row) == objects[row.key].state # "absent" /\ objects[row.key].version = row.version
\* Mistake: an object that is missing passes.
NotCorrupt(row) == Present(row) => objects[row.key].state = "intact"
Intact(row) == Present(row) /\ objects[row.key].state = "intact"

Gone(object) == [state |-> "absent", version |-> object.version, retention |-> 0]

Held(i) == \E h \in HoldIds : holds[h] = [status |-> "ACTIVE", evidence |-> i]

(* What a control that commits or verifies does when the vault throws;     *)
(* other requests answer with the error.                                   *)
Throw(c, pc) == IF req[c].op = "control" THEN Goto(c, pc) ELSE End(c)

-----------------------------------------------------------------------------
(* commit: store the object, read it back, insert the row.                 *)

\* Mistake: every put makes a version.
PutVersion(k, retention) ==
  objects' = [objects EXCEPT ![k] = [state |-> "intact", version |-> @.version + 1,
                                     retention |-> retention]]

(* put: identical bytes return the version that is there with the          *)
(* retention it has; other bytes under the key are refused.                *)
Put(k, retention) ==
  IF objects[k].state # "absent" THEN UNCHANGED objects
  ELSE /\ objects[k].version < MaxVersions
       /\ objects' = [objects EXCEPT ![k] = [state |-> "intact", version |-> @.version + 1,
                                             retention |-> retention]]

NewRow(k, meta, retention, supersedes) ==
  [NoRow EXCEPT !.state = "KEPT", !.key = k, !.version = objects'[k].version,
                !.meta = meta, !.retention = retention, !.supersedes = supersedes]

Commit(c, k, meta, retention) ==
  /\ objects[k].state # "corrupt"
  /\ Put(k, retention)
  /\ Call(c, [Idle EXCEPT !.op = "commit", !.pc = "stored",
                          !.row = NewRow(k, meta, retention, None)])
  /\ UNCHANGED <<now, rows, holds>>

(* supersede: a commit that names the evidence it corrects, which must     *)
(* exist.                                                                  *)
Supersede(c, k, meta, retention, original) ==
  /\ Kept(original)
  /\ objects[k].state # "corrupt"
  /\ Put(k, retention)
  /\ Call(c, [Idle EXCEPT !.op = "commit", !.pc = "stored",
                          !.row = NewRow(k, meta, retention, original)])
  /\ UNCHANGED <<now, rows, holds>>

ReadBack(c) ==
  /\ At(c, "stored")
  /\ IF Intact(req[c].row) THEN Goto(c, "checked") ELSE Throw(c, "uncommitted")
  /\ UNCHANGED vault

\* Mistake: the content alone decides.
SameContent(old, new) == old.key = new.key
SameMetadata(old, new) ==
  old.key = new.key /\ old.meta = new.meta /\ old.retention = new.retention

(* The row storageRef's unique index finds, if any.                        *)
Existing(row) == {i \in EvidenceIds : Kept(i) /\ rows[i].key = row.key}

(* assertReferences: the evidence to be superseded is still there.         *)
ReferencesHold(row) == row.supersedes # None => Kept(row.supersedes)

Committed(c, i) ==
  IF req[c].op = "control" THEN req' = [req EXCEPT ![c].pc = "committed", ![c].id = i]
  ELSE End(c)

CreateRow(c) ==
  /\ At(c, "checked")
  /\ LET row == req[c].row IN
     /\ ReferencesHold(row)
     /\ Existing(row) = {}
     /\ \E i \in EvidenceIds :
          /\ rows[i].state = "NONE"
          /\ rows' = [rows EXCEPT ![i] = row]
          /\ Committed(c, i)
  /\ UNCHANGED <<now, objects, holds>>

(* A second commit of the same evidence returns the row that is there; one *)
(* whose metadata differs, or whose original is gone, is refused.          *)
ReturnExisting(c) ==
  /\ At(c, "checked")
  /\ ReferencesHold(req[c].row)
  /\ \E i \in Existing(req[c].row) :
       IF SameMetadata(rows[i], req[c].row) THEN Committed(c, i) ELSE Throw(c, "uncommitted")
  /\ UNCHANGED vault

OriginalGone(c) ==
  /\ At(c, "checked")
  /\ ~ReferencesHold(req[c].row)
  /\ Throw(c, "uncommitted")
  /\ UNCHANGED vault

-----------------------------------------------------------------------------
(* verify: read the row, inspect the object, record the verdict.  retrieve *)
(* and deleteExpired start with it.                                        *)

VerifyRead(c, i, op) ==
  /\ Kept(i)
  /\ Call(c, [Idle EXCEPT !.op = op, !.pc = "read", !.id = i, !.row = rows[i],
                          !.at = IF op = "delete" THEN now ELSE 0])
  /\ UNCHANGED vault

Inspect(c) ==
  /\ At(c, "read")
  /\ req' = [req EXCEPT ![c].pc = "inspected", ![c].good = Intact(req[c].row),
                        ![c].row = NoRow]
  /\ UNCHANGED vault

MarkValid(c) ==
  /\ At(c, "inspected") /\ req[c].good
  /\ Kept(req[c].id)
  /\ rows' = [rows EXCEPT ![req[c].id].integrity = "VALID"]
  /\ req' = [req EXCEPT ![c].pc = "marked", ![c].good = FALSE]
  /\ UNCHANGED <<now, objects, holds>>

(* verify returns the row; retrieve goes on to the bytes and deleteExpired *)
(* to its checks.                                                          *)
Judge(c, row) ==
  IF req[c].op = "verify" THEN End(c)
  ELSE req' = [req EXCEPT ![c].pc = "verified", ![c].row = row]

(* The row as it is then.                                                  *)
Reread(c) ==
  /\ At(c, "marked")
  /\ IF Kept(req[c].id) THEN Judge(c, rows[req[c].id]) ELSE Throw(c, "error")
  /\ UNCHANGED vault

(* markIntegrityFailure: verify returns the failed row without an error    *)
(* when the transaction that follows records the incident - a retrieve     *)
(* then goes on to the bytes - and throws when that aborts, as a second    *)
(* incident of the same evidence does on the event's unique key; which of  *)
(* the two is left open.  A retrieve whose object is gone by then throws.  *)
MarkFailed(c) ==
  /\ Kept(req[c].id)
  /\ rows' = [rows EXCEPT ![req[c].id].integrity = "INTEGRITY_FAILED"]
  /\ \/ /\ At(c, "inspected") /\ ~req[c].good
        /\ Judge(c, rows'[req[c].id]) \/ Throw(c, "error")
     \/ At(c, "verified") /\ req[c].op = "retrieve" /\ ~Present(req[c].row) /\ End(c)
  /\ UNCHANGED <<now, objects, holds>>

(* The row was deleted meanwhile.                                          *)
VerdictLost(c) ==
  /\ \/ At(c, "inspected")
     \/ At(c, "verified") /\ req[c].op = "retrieve" /\ ~Present(req[c].row)
  /\ ~Kept(req[c].id)
  /\ Throw(c, "error")
  /\ UNCHANGED vault

Retrieve(c) ==
  /\ At(c, "verified") /\ req[c].op = "retrieve"
  /\ Present(req[c].row)
  /\ End(c)
  /\ UNCHANGED vault

-----------------------------------------------------------------------------
(* Legal holds.                                                            *)

HoldRead(c, i) ==
  /\ Kept(i) /\ rows[i].hold # "ACTIVE"
  /\ Call(c, [Idle EXCEPT !.op = "hold", !.pc = "holding", !.id = i])
  /\ UNCHANGED vault

(* The hold's row and the flag; the foreign key refuses a hold of deleted  *)
(* evidence.                                                               *)
CreateHold(c) ==
  /\ At(c, "holding")
  /\ LET i == req[c].id IN
     IF Kept(i)
     THEN \E h \in HoldIds :
            /\ holds[h].status = "NONE"
            /\ holds' = [holds EXCEPT ![h] = [status |-> "ACTIVE", evidence |-> i]]
            /\ rows' = [rows EXCEPT ![i].hold = "ACTIVE"]
     ELSE UNCHANGED <<rows, holds>>
  /\ End(c)
  /\ UNCHANGED <<now, objects>>

ReleaseRead(c, h) ==
  /\ holds[h].status = "ACTIVE"
  /\ Call(c, [Idle EXCEPT !.op = "release", !.pc = "releasing", !.hold = h])
  /\ UNCHANGED vault

(* A transaction that has updated the hold's row keeps it locked.          *)
Locked(h) == \E d \in Clients : At(d, "flagging") /\ req[d].hold = h

(* releaseLegalHold's transaction: it counts the other active holds after  *)
(* updating its own, and writes the flag from that count.  Nobody sees the *)
(* first update before the second commits.                                 *)
CountHolds(c) ==
  /\ At(c, "releasing")
  /\ LET h == req[c].hold IN
     /\ ~Locked(h)
     /\ IF holds[h].status = "DELETED" THEN End(c)
        ELSE req' = [req EXCEPT ![c].pc = "flagging",
               ![c].good = \E g \in HoldIds \ {h} :
                             holds[g] = [status |-> "ACTIVE", evidence |-> holds[h].evidence]]
  /\ UNCHANGED vault

FlagAfter(others) == IF others THEN "ACTIVE" ELSE "RELEASED"

ReleaseHold(c) ==
  /\ At(c, "flagging")
  /\ LET h == req[c].hold IN
     /\ holds' = [holds EXCEPT ![h].status = "RELEASED"]
     /\ rows' = [rows EXCEPT ![holds[h].evidence].hold = FlagAfter(req[c].good)]
  /\ End(c)
  /\ UNCHANGED <<now, objects>>

-----------------------------------------------------------------------------
(* deleteExpired, after its verification.                                  *)

\* Mistake: holds are not looked at.
MayDeleteHeld(row, time) == row.retention <= time /\ row.integrity = "VALID"
MayDelete(row, time) ==
  row.retention <= time /\ row.hold # "ACTIVE" /\ row.integrity = "VALID"

(* storage.delete refuses an object whose own retention runs and ignores   *)
(* one that is gone.                                                       *)
\* Mistake: the row's retention is all that counts.
AnyObjectMayGo(row, time) == Present(row) => row.retention <= time
ObjectMayGo(row, time) == Present(row) => objects[row.key].retention <= time

DeleteObject(c) ==
  /\ At(c, "verified") /\ req[c].op = "delete"
  /\ LET row == req[c].row IN
     IF MayDelete(row, req[c].at) /\ ObjectMayGo(row, req[c].at)
     THEN /\ objects' = IF Present(row)
                        THEN [objects EXCEPT ![row.key] = Gone(@)] ELSE objects
          /\ req' = [req EXCEPT ![c].pc = "dropped", ![c].row = NoRow, ![c].at = 0]
     ELSE End(c) /\ UNCHANGED objects
  /\ UNCHANGED <<now, rows, holds>>

Orphan(row) == [row EXCEPT !.supersedes = None]

(* The transaction deletes every hold of the row, waits for one that is    *)
(* being released, and leaves successors without their original.           *)
DeleteRow(c) ==
  /\ At(c, "dropped")
  /\ LET i == req[c].id IN
     /\ \A h \in HoldIds : holds[h].evidence = i => ~Locked(h)
     /\ IF Kept(i)
        THEN /\ rows' = [j \in EvidenceIds |->
                 IF j = i THEN [NoRow EXCEPT !.state = "DELETED"]
                 ELSE IF rows[j].supersedes = i THEN Orphan(rows[j])
                 ELSE rows[j]]
             /\ holds' = [h \in HoldIds |->
                 IF holds[h].evidence = i THEN [NoHold EXCEPT !.status = "DELETED"]
                 ELSE holds[h]]
        ELSE UNCHANGED <<rows, holds>>
  /\ End(c)
  /\ UNCHANGED <<now, objects>>

-----------------------------------------------------------------------------
(* Time and faults.                                                        *)

Tick == now < MaxTime /\ now' = now + 1 /\ UNCHANGED <<objects, rows, holds, req>>

Corrupt(k) ==
  /\ "corrupt" \in Environment
  /\ objects[k].state = "intact"
  /\ objects' = [objects EXCEPT ![k].state = "corrupt"]
  /\ UNCHANGED <<now, rows, holds, req>>

(* A statement fails; its transaction is rolled back.                      *)
DbError(c) ==
  /\ "dbError" \in Environment
  /\ req[c] # Idle
  /\ req[c].op # "control"
  /\ End(c)
  /\ UNCHANGED vault

(* The process dies, and its memory with it.                               *)
Crash ==
  /\ \/ "crash" \in Environment /\ UNCHANGED objects
     \/ "memory" \in Environment
        /\ objects' = [k \in Contents |-> Gone(objects[k])]
  /\ req' = [c \in Clients |-> Idle]
  /\ UNCHANGED <<now, rows, holds>>

-----------------------------------------------------------------------------
(* The specification.                                                      *)

Collect(c) ==
  \/ \E k \in Contents, m \in Metas, t \in Times :
       \/ Commit(c, k, m, t)
       \/ \E i \in EvidenceIds : Supersede(c, k, m, t, i)
  \/ \E i \in EvidenceIds, op \in {"verify", "retrieve"} : VerifyRead(c, i, op)

Preserve(c) ==
  \/ \E i \in EvidenceIds : HoldRead(c, i) \/ VerifyRead(c, i, "delete")
  \/ \E h \in HoldIds : ReleaseRead(c, h)

Steps(c) ==
  \/ ReadBack(c) \/ CreateRow(c) \/ ReturnExisting(c) \/ OriginalGone(c)
  \/ Inspect(c) \/ MarkValid(c) \/ Reread(c) \/ MarkFailed(c)
  \/ VerdictLost(c) \/ Retrieve(c)
  \/ CreateHold(c) \/ CountHolds(c) \/ ReleaseHold(c) \/ DeleteObject(c) \/ DeleteRow(c)

Faults == Crash \/ (\E k \in Contents : Corrupt(k)) \/ (\E c \in Clients : DbError(c))

Next ==
  \/ Tick \/ Faults
  \/ \E c \in Collectors : Collect(c)
  \/ \E c \in Custodians : Preserve(c)
  \/ \E c \in Clients : Steps(c)

Spec == Init /\ [][Next]_vars

-----------------------------------------------------------------------------
(* Properties.                                                             *)

(* An object leaves the store only when its own retention is over, though  *)
(* a later commit of the same content may ask for less (put keeps the      *)
(* first retention, delete checks it); a store in memory dies with all     *)
(* requests.                                                               *)
ObjectsOutliveRetention ==
  [][\A k \in Contents :
       objects[k].state # "absent" /\ objects'[k].state = "absent" =>
         objects[k].retention <= now \/ \A c \in Clients : req'[c] = Idle]_<<objects, req>>

(* A deletion of this row that has found its object intact.                *)
Deciding(c, i) ==
  /\ req[c].op = "delete" /\ req[c].id = i
  /\ \/ At(c, "inspected") /\ req[c].good
     \/ At(c, "verified") /\ req[c].row.integrity = "VALID"
     \/ At(c, "marked") \/ At(c, "dropped")

(* The object of this row is gone and no deletion is about to remove it.   *)
Lost(i) == Kept(i) /\ ~Present(rows[i]) /\ \A c \in Clients : ~Deciding(c, i)

(* Evidence whose object is missing - after a crash between the deletion   *)
(* of the object and of the row, a restart, or a commit that overlapped a  *)
(* deletion - is an incident that stays: its row is never deleted and no   *)
(* new object passes for the lost one, though deletions and verifications  *)
(* of it overlap (deleteExpired verifies first and checks the verdict).    *)
LostEvidenceIsKept ==
  [][\A i \in EvidenceIds : Lost(i) => Lost(i)']_<<objects, rows, req>>

(* "An active hold always blocks deletion" (retention-legal-hold.md): no   *)
(* evidence with an active hold leaves.  deleteExpired looks at the flag   *)
(* of the row it read and deletes later, a hold created in between         *)
(* included, and releaseLegalHold may clear the flag of one it did not     *)
(* count.                                                                  *)
HeldEvidenceIsKept ==
  [][\A i \in EvidenceIds : Kept(i) /\ Held(i) => Kept(i)']_<<rows, holds>>

(* A deletion that read its row, intact, when it had expired and was not   *)
(* flagged, or that has deleted the object.                                *)
Condemns(c, i) ==
  /\ req[c].op = "delete" /\ req[c].id = i
  /\ \/ At(c, "dropped")
     \/ /\ At(c, "verified") /\ req[c].row.integrity = "VALID"
        /\ req[c].row.hold # "ACTIVE" /\ req[c].row.retention <= req[c].at

(* The vault implements the retention policy as far as it does keep it.    *)
Retention == INSTANCE EvidenceRetention WITH
  clock <- now,
  state <- [i \in EvidenceIds |->
              CASE rows[i].state = "NONE"    -> "ABSENT"
                [] rows[i].state = "DELETED" -> "REMOVED"
                [] OTHER                     -> "KEPT"],
  until <- [i \in EvidenceIds |-> rows[i].retention],
  flagged <- {i \in EvidenceIds : Kept(i) /\ rows[i].hold = "ACTIVE"},
  condemned <- {i \in EvidenceIds : Kept(i) /\ \E c \in Clients : Condemns(c, i)}

RefinesRetention == Retention!Spec
=============================================================================
