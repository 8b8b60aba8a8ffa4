--------------------------- MODULE FindingLifecycle ---------------------------
(***************************************************************************)
(* Security findings of one account: the scan that evaluates the inventory *)
(* and writes findings (SecurityAnalysisService.runScan), and the users    *)
(* who acknowledge and resolve them (src/src/security-service.ts,          *)
(* src/src/security-rules.ts), composed with the discovery that writes the *)
(* inventory.                                                              *)
(*                                                                         *)
(* An account's scans are executed one at a time (ScanOrchestrator); a     *)
(* failed or dead one starts again.  The rules do not interact: one stands *)
(* for those of a resource.                                                *)
(***************************************************************************)
EXTENDS CloudInventory

VARIABLES
  finding,  \* SecurityFinding of each resource: status, and if resolvedAt is set
  scan      \* local state of the scan being executed

findVars == <<finding, scan>>
vars == <<invVars, findVars>>

NoFinding == [status |-> "NONE", dated |-> FALSE]
NoSnapshot == [r \in Resources |-> [status |-> "NONE", posture |-> "unknown"]]
NoKnown == [r \in Resources |-> "NONE"]
FindingStates == {"NONE", "OPEN", "ACKNOWLEDGED", "RESOLVED"}

(* What runScan holds: the rows it read, then the resources in violation,  *)
(* those that passed and those no longer active, and the findings' status. *)
Resting == [pc |-> "resting", snapshot |-> NoSnapshot, violations |-> {}, resolvable |-> {},
            gone |-> {}, known |-> NoKnown]

TypeOK ==
  /\ InvTypeOK
  /\ finding \in [Resources -> [status: FindingStates, dated: BOOLEAN]]
  /\ scan.pc \in {"resting", "evaluating", "publishing"}
  /\ scan.snapshot \in [Resources -> [status: {"NONE", "ACTIVE", "STALE"}, posture: Postures]]
  /\ scan.violations \subseteq Resources
  /\ scan.resolvable \subseteq Resources \ scan.violations
  /\ scan.gone \subseteq Resources \ scan.violations
  /\ scan.known \in [Resources -> FindingStates]

Init ==
  /\ InvInit
  /\ finding = [r \in Resources |-> NoFinding]
  /\ scan = Resting

-----------------------------------------------------------------------------
(* runScan: the inventory, the rules, the findings as they are, and the    *)
(* transaction that writes them.                                           *)

ReadInventory ==
  /\ scan.pc = "resting"
  /\ scan' = [Resting EXCEPT !.pc = "evaluating",
       !.snapshot = [r \in Resources |-> [status |-> inv[r].status, posture |-> inv[r].posture]]]
  /\ UNCHANGED <<invVars, finding>>

InState(status) == {r \in Resources : scan.snapshot[r].status = status}

\* Mistake: a violation is also among what may be resolved.
JudgedEither(checked, posture) ==
  {r \in checked : scan.snapshot[r].posture \in {posture, "bad"}}
(* Only a posture that is known to be good resolves; missing evidence says *)
(* nothing.                                                                *)
Judged(checked, posture) == {r \in checked : scan.snapshot[r].posture = posture}

(* Only what has a finding has one to resolve.                             *)
Found == {r \in Resources : finding[r].status # "NONE"}

(* A cancelled scan stops checking; then the findings are read.            *)
Evaluate ==
  /\ scan.pc = "evaluating"
  /\ \E checked \in SUBSET InState("ACTIVE") :
       /\ checked = InState("ACTIVE") \/ "cancel" \in Environment
       /\ scan' = [Resting EXCEPT !.pc = "publishing",
                                  !.violations = Judged(checked, "bad"),
                                  !.resolvable = Judged(checked, "good") \intersect Found,
                                  !.gone = InState("STALE") \intersect Found,
                                  !.known = [r \in Resources |-> finding[r].status]]
  /\ UNCHANGED <<invVars, finding>>

\* Mistake: a reopened finding keeps its date.
KeepDate(known, dated) ==
  [status |-> IF known \in {"NONE", "RESOLVED"} THEN "OPEN" ELSE known, dated |-> dated]
(* The status of a finding whose violation is there again follows from     *)
(* what was read before; only a reopened one loses its date.               *)
Detected(known, dated) ==
  [status |-> IF known \in {"NONE", "RESOLVED"} THEN "OPEN" ELSE known,
   dated  |-> dated /\ known # "RESOLVED"]

PublishFindings ==
  /\ scan.pc = "publishing"
  /\ finding' = [r \in Resources |->
       IF r \in scan.violations THEN Detected(scan.known[r], finding[r].dated)
       ELSE IF /\ scan.known[r] \in {"OPEN", "ACKNOWLEDGED"}
               /\ r \in scan.resolvable \union scan.gone
            THEN [status |-> "RESOLVED", dated |-> TRUE]
            ELSE finding[r]]
  /\ scan' = Resting
  /\ UNCHANGED invVars

(* The scan's process dies, or its execution throws: nothing was written.  *)
ScanAborts ==
  /\ {"crash", "failure"} \intersect Environment # {}
  /\ scan # Resting
  /\ scan' = Resting
  /\ UNCHANGED <<invVars, finding>>

-----------------------------------------------------------------------------
(* Users.  Both operations read the finding first; what they write depends *)
(* on its status at the time of the write only.                            *)

(* At any time, or only while no scan is about to write findings.          *)
MayTriage == "triage" \in Environment \/ scan.pc # "publishing"

AcknowledgeFinding(r) ==
  /\ MayTriage
  /\ finding[r].status = "OPEN"
  /\ finding' = [finding EXCEPT ![r].status = "ACKNOWLEDGED"]
  /\ UNCHANGED <<invVars, scan>>

ResolveFinding(r) ==
  /\ MayTriage
  /\ finding[r].status \in {"OPEN", "ACKNOWLEDGED"}
  /\ finding' = [finding EXCEPT ![r] = [status |-> "RESOLVED", dated |-> TRUE]]
  /\ UNCHANGED <<invVars, scan>>

FindStep ==
  \/ ReadInventory \/ Evaluate \/ PublishFindings \/ ScanAborts
  \/ \E r \in Resources : AcknowledgeFinding(r) \/ ResolveFinding(r)

Next == (InvNext /\ UNCHANGED findVars) \/ FindStep

Spec == Init /\ [][Next]_vars

-----------------------------------------------------------------------------
(* Properties.                                                             *)

Dated(row) == row.dated <=> row.status = "RESOLVED"

(* A finding has a date of resolution exactly while it is resolved, and a  *)
(* scan does not open an acknowledged finding, unless a user triaged the   *)
(* finding after the scan had read it (runScan writes the status from what *)
(* it read before its transaction).                                        *)
OnlyRacingTriageIsLost ==
  [][\A r \in Resources :
       \/ Dated(finding[r]) /\ ~Dated(finding'[r])
       \/ finding[r].status = "ACKNOWLEDGED" /\ finding'[r].status = "OPEN"
       => scan.pc = "publishing" /\ scan.known[r] # finding[r].status]_finding

(* An acknowledged finding stays so until it is resolved: its violation,   *)
(* seen again, does not open it.  The code breaks this when the            *)
(* acknowledgement commits between a scan's reading of the findings and    *)
(* its transaction.                                                        *)
AcknowledgementStands ==
  [][\A r \in Resources :
       finding[r].status = "ACKNOWLEDGED" => finding'[r].status # "OPEN"]_finding

(* A scan resolves a finding about something that is always there, the     *)
(* account summary, only because its rule passes: interrupted, partial and *)
(* failed discoveries never make the summary stale (overlapping ones do).  *)
ResolvedWasFixed ==
  [][\A r \in Resources :
       /\ ServiceOf[r] = "IAM" /\ scan.pc = "publishing" /\ scan' = Resting
       /\ finding[r].status # "RESOLVED" /\ finding'[r].status = "RESOLVED"
       => r \in scan.resolvable]_<<finding, scan>>
=============================================================================
