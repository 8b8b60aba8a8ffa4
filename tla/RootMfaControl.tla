---------------------------- MODULE RootMfaControl ----------------------------
(***************************************************************************)
(* The root MFA control of a scan (SecurityService.executeRootMfaControl), *)
(* composed with the evidence vault whose commitForScan and verify it      *)
(* calls: a client of the vault whose operation is "control" runs it.      *)
(* Each execution belongs to one attempt of one scan and has one outcome   *)
(* row and, in the end, one result row.                                    *)
(***************************************************************************)
EXTENDS EvidenceVault

CONSTANT VerdictOf  \* what evaluateRootMfa says of the observation in a content

ASSUME ControlAssumption == VerdictOf \in [Contents -> {"PASS", "FAIL", "ERROR"}]

VARIABLES
  outcomes,  \* ScanCheckOutcome.status of each execution
  results    \* ControlResult of each execution: status and evidence

control == <<outcomes, results>>
allVars == <<vars, control>>

NoResult == [status |-> "NONE", evidence |-> None]

ControlTypeOK ==
  /\ TypeOK
  /\ outcomes \in [Executions -> {"NONE", "RUNNING", "PASS", "FAIL", "ERROR", "FAILED"}]
  /\ results \in [Executions -> [status: {"NONE", "PASS", "FAIL", "ERROR"},
                                 evidence: EvidenceIds \union {None}]]
  /\ \A c \in Clients : req[c].op = "control" <=> req[c].exec \in Executions

ControlInit ==
  /\ Init
  /\ outcomes = [e \in Executions |-> "NONE"]
  /\ results = [e \in Executions |-> NoResult]

-----------------------------------------------------------------------------
(* The execution client c runs.                                            *)
Execution(c) == req[c].exec

SetOutcome(e, status) == outcomes' = [outcomes EXCEPT ![e] = status]

StartControl(c, e) ==
  /\ outcomes[e] = "NONE"
  /\ SetOutcome(e, "RUNNING")
  /\ Call(c, [Idle EXCEPT !.op = "control", !.pc = "observing", !.exec = e])
  /\ UNCHANGED <<vault, results>>

(* The provider answers; commitForScan starts by storing the observation,  *)
(* to be kept longest (seven years).  A corrupt object under its key is a  *)
(* conflict.                                                               *)
Observe(c, k) ==
  /\ At(c, "observing")
  /\ VerdictOf[k] # "ERROR"
  /\ IF objects[k].state = "corrupt" THEN Goto(c, "uncommitted") /\ UNCHANGED objects
     ELSE /\ Put(k, MaxTime)
          /\ req' = [req EXCEPT ![c].pc = "stored",
                                ![c].row = NewRow(k, Execution(c), MaxTime, None)]
  /\ UNCHANGED <<now, rows, holds, control>>

(* Access denied, throttling, a malformed or a foreign observation.        *)
ProviderFails(c) ==
  /\ "failure" \in Environment
  /\ At(c, "observing")
  /\ Goto(c, "error")
  /\ UNCHANGED <<vault, control>>

(* commitForScan's catch.                                                  *)
CommitFails(c) ==
  /\ At(c, "uncommitted")
  /\ SetOutcome(Execution(c), "FAILED")
  /\ Goto(c, "error")
  /\ UNCHANGED <<vault, results>>

(* The control verifies what it committed.                                 *)
VerifyCommitted(c) ==
  /\ At(c, "committed")
  /\ IF Kept(req[c].id)
     THEN req' = [req EXCEPT ![c].pc = "read", ![c].row = rows[req[c].id]]
     ELSE Goto(c, "error")
  /\ UNCHANGED <<vault, control>>

Verified(c) == At(c, "verified") /\ req[c].row.integrity = "VALID"

\* Mistake: a result that cannot be stored does not stop the control.
PersistIfPossible(c) ==
  /\ Verified(c) /\ req[c].op = "control"
  /\ results' = [results EXCEPT ![Execution(c)] =
                   IF Kept(req[c].id) THEN [status |-> VerdictOf[req[c].row.key],
                                            evidence |-> req[c].id] ELSE @]
  /\ Goto(c, "concluding")
  /\ UNCHANGED <<vault, outcomes>>

(* persistRootMfaResult: the result first, which needs its evidence, then  *)
(* the outcome.                                                            *)
PersistResult(c) ==
  /\ Verified(c) /\ req[c].op = "control"
  /\ LET e == Execution(c) IN
     IF Kept(req[c].id) /\ results[e] = NoResult
     THEN /\ results' = [results EXCEPT ![e] = [status |-> VerdictOf[req[c].row.key],
                                                evidence |-> req[c].id]]
          /\ Goto(c, "concluding")
     ELSE Goto(c, "error") /\ UNCHANGED results
  /\ UNCHANGED <<vault, outcomes>>

(* Another request found the object gone or corrupt between the statement  *)
(* that marked the row valid and the one that read it again.               *)
Distrust(c) ==
  /\ At(c, "verified") /\ req[c].op = "control"
  /\ req[c].row.integrity # "VALID"
  /\ Goto(c, "error")
  /\ UNCHANGED <<vault, control>>

Conclude(c) ==
  /\ At(c, "concluding")
  /\ SetOutcome(Execution(c), VerdictOf[req[c].row.key])
  /\ Goto(c, "auditing")
  /\ UNCHANGED <<vault, results>>

(* The audit entry of the evaluation is the last thing that may fail.      *)
Audited(c) == At(c, "auditing") /\ End(c) /\ UNCHANGED <<vault, control>>

(* The catch: outcome first, then an ERROR result without evidence, which  *)
(* a result that is there already makes fail.                              *)
OutcomeError(c) ==
  /\ At(c, "error") /\ req[c].op = "control"
  /\ SetOutcome(Execution(c), "ERROR")
  /\ Goto(c, "errorResult")
  /\ UNCHANGED <<vault, results>>

ResultError(c) ==
  /\ At(c, "errorResult")
  /\ LET e == Execution(c) IN
     results' = [results EXCEPT ![e] = IF @ = NoResult THEN [NoResult EXCEPT !.status = "ERROR"]
                                       ELSE @]
  /\ End(c)
  /\ UNCHANGED <<vault, outcomes>>

(* A statement of the control fails: in the commit; before the try (the    *)
(* audit entry of the start, which leaves the outcome RUNNING) or in the   *)
(* catch; elsewhere in the try, the audit entry after the outcome included.*)
ControlDbError(c) ==
  /\ "dbError" \in Environment
  /\ req[c].op = "control"
  /\ \/ req[c].pc \in {"stored", "checked"} /\ Goto(c, "uncommitted")
     \/ req[c].pc \in {"observing", "error", "errorResult"} /\ End(c)
     \/ req[c].pc \notin {"stored", "checked", "error", "errorResult"} /\ Goto(c, "error")
  /\ UNCHANGED <<vault, control>>

(* A deleted row takes the references to it along (ON DELETE SET NULL).    *)
Unlink ==
  results' = [e \in Executions |->
    IF results[e].evidence # None /\ rows'[results[e].evidence].state = "DELETED"
    THEN [status |-> results[e].status, evidence |-> None] ELSE results[e]]

ControlSteps(c) ==
  \/ \E e \in Executions : StartControl(c, e)
  \/ \E k \in Contents : Observe(c, k)
  \/ ProviderFails(c) \/ CommitFails(c) \/ VerifyCommitted(c) \/ PersistResult(c)
  \/ Distrust(c) \/ Conclude(c) \/ Audited(c) \/ OutcomeError(c) \/ ResultError(c) \/ ControlDbError(c)

ControlNext ==
  \/ Next /\ Unlink /\ UNCHANGED outcomes
  \/ \E c \in Collectors : ControlSteps(c)

ControlSpec == ControlInit /\ [][ControlNext]_allVars

-----------------------------------------------------------------------------
(* Properties.                                                             *)

(* A verdict of PASS or FAIL rests on evidence that this very execution    *)
(* committed and that says so; only its expiry takes the evidence away     *)
(* (executeRootMfaControl with commit's comparison of metadata).           *)
VerdictsAreEvidenced ==
  \A e \in Executions :
    LET i == results[e].evidence IN
    /\ results[e].status \in {"NONE", "ERROR"} => i = None
    /\ i # None => /\ rows[i].state = "KEPT" /\ rows[i].meta = e
                   /\ VerdictOf[rows[i].key] = results[e].status

(* An outcome never shows a verdict that its result does not have,         *)
(* whichever statement fails between the two (persistRootMfaResult and the *)
(* catch that follows it).                                                 *)
OutcomesHaveResults ==
  \A e \in Executions :
    outcomes[e] \in {"PASS", "FAIL"} => results[e].status = outcomes[e]
=============================================================================
