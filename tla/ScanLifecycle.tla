---------------------------- MODULE ScanLifecycle ----------------------------
(***************************************************************************)
(* What the scan queue promises the users of the API: the life of each     *)
(* scan and the outcome announced for it in ScanEvent, without workers,    *)
(* leases, jobs or retries' bookkeeping (DOC/completion/M-03/contract.md   *)
(* describes the states; the steps are those the code of scan-worker.ts    *)
(* and security-service.ts takes).  ScanOrchestrator is shown to implement *)
(* this module.                                                            *)
(***************************************************************************)
CONSTANTS
  Scans,      \* scans that may be requested
  AccountOf   \* the account of each scan

VARIABLES
  status,     \* SecurityScanRun.status, "NONE" before the row exists
  announced   \* the outcomes ScanEvent holds for each scan

vars == <<status, announced>>

Terminal == {"COMPLETED", "PARTIAL", "FAILED", "CANCELLED", "DEAD_LETTER"}
InProgress == {"QUEUED", "RUNNING", "CANCELLING"}

TypeOK ==
  /\ status \in [Scans -> {"NONE"} \union InProgress \union Terminal]
  /\ announced \in [Scans -> SUBSET Terminal]

Init ==
  /\ status = [s \in Scans |-> "NONE"]
  /\ announced = [s \in Scans |-> {}]

\* Mistake: an account takes any number of scans.
AccountIsShared(s) == s \in Scans

(* No other scan of the account is in progress.                            *)
AccountIsFree(s) ==
  \A t \in Scans \ {s} : AccountOf[t] = AccountOf[s] => status[t] \notin InProgress

Move(s, from, to) ==
  /\ status[s] = from
  /\ status' = [status EXCEPT ![s] = to]
  /\ UNCHANGED announced

Request(s) == AccountIsFree(s) /\ Move(s, "NONE", "QUEUED")

Start(s) == Move(s, "QUEUED", "RUNNING")

(* A retry, or the recovery of a scan whose worker died.                   *)
Requeue(s) == Move(s, "RUNNING", "QUEUED")

(* A queued scan is cancelled on the spot (nothing is announced for it); a *)
(* running one is asked to stop.                                           *)
Cancel(s) == Move(s, "QUEUED", "CANCELLED") \/ Move(s, "RUNNING", "CANCELLING")

(* The scan ends and says so in the same transaction.  A cancellation that *)
(* comes too late does not change the outcome.                             *)
Finish(s) ==
  \E outcome \in Terminal :
    /\ \/ status[s] = "RUNNING" /\ outcome # "CANCELLED"
       \/ status[s] = "CANCELLING" /\ outcome \in {"CANCELLED", "COMPLETED", "PARTIAL"}
    /\ status' = [status EXCEPT ![s] = outcome]
    /\ announced' = [announced EXCEPT ![s] = @ \union {outcome}]

\* Mistake: failed scans are replayed.
ReplayFailed(s) == AccountIsFree(s) /\ Move(s, "FAILED", "QUEUED")

Replay(s) == AccountIsFree(s) /\ Move(s, "DEAD_LETTER", "QUEUED")

Next ==
  \E s \in Scans :
    \/ Request(s) \/ Start(s) \/ Requeue(s) \/ Cancel(s) \/ Finish(s) \/ Replay(s)

Spec == Init /\ [][Next]_vars

-----------------------------------------------------------------------------
(* An account has at most one scan in progress (activeKey).                *)
OneAtATime ==
  \A s, t \in Scans :
    /\ s # t /\ AccountOf[s] = AccountOf[t]
    /\ status[s] \in InProgress
    => status[t] \notin InProgress

(* A scan that ended by itself has announced its outcome, and nothing that *)
(* was announced contradicts its row: besides dead letters that were       *)
(* replayed, the only outcome announced is the one the scan has.           *)
OutcomeAnnounced ==
  \A s \in Scans :
    /\ status[s] \in Terminal \ {"CANCELLED"} => status[s] \in announced[s]
    /\ announced[s] \subseteq {status[s], "DEAD_LETTER"}
=============================================================================
