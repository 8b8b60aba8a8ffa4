----------------------- MODULE FindingLifecycleProofs -----------------------
(***************************************************************************)
(* What holds of an account's findings for any number of resources,        *)
(* regions and discoveries.  Seen from the inventory the composition       *)
(* changes nothing, so what CloudInventoryProofs proves holds here too.    *)
(***************************************************************************)
EXTENDS FindingLifecycle, CloudInventoryProofs

LEMMA StepOfInventory == [Next]_vars => [InvNext]_invVars
  BY DEF Next, vars, invVars, FindStep, ReadInventory, Evaluate, PublishFindings, ScanAborts,
         AcknowledgeFinding, ResolveFinding

(* Every behaviour of the composition is one of the inventory.             *)
THEOREM FindingsImplementInventory == Spec => InvSpec
<1>1. Init => InvInit
  BY DEF Init
<1> QED
  BY <1>1, StepOfInventory, PTL DEF Spec, InvSpec

(* Hence a discovery without errors is exact in the regions that AWS named  *)
(* to it, and nothing but a bucket goes stale unseen, whatever scans and    *)
(* users do.                                                                *)
THEOREM ComposedDiscoveryIsExact ==
  ASSUME "overlap" \notin Environment
  PROVE  Spec => []CompletedDiscoveryIsExact /\ OnlyBucketsGoStaleUnseen
  BY FindingsImplementInventory, CompletedDiscoveryIsExactHolds, OnlyBucketsGoStaleUnseenHolds, PTL

(* Likewise outcomes stand.                                                 *)
THEOREM ComposedOutcomeStands ==
  ASSUME "slow" \notin Environment
  PROVE  Spec => DiscoveryOutcomeStands
  BY FindingsImplementInventory, DiscoveryOutcomeStandsHolds, PTL

-----------------------------------------------------------------------------
(* Findings and the scan that writes them, in every environment: what a    *)
(* step does to one finding follows from the finding and from what the     *)
(* scan read of it.                                                        *)

FindingRows == [status: FindingStates, dated: BOOLEAN]
FindingsTyped == finding \in [Resources -> FindingRows]

LEMMA DetectedKeepsDates ==
  ASSUME NEW row \in FindingRows
  PROVE  /\ Dated(row) => Dated(Detected(row.status, row.dated))
         /\ row.status = "ACKNOWLEDGED" => Detected(row.status, row.dated).status # "OPEN"
<1>1. row.status \in FindingStates /\ row.dated \in BOOLEAN
  BY DEF FindingRows
<1>2. CASE row.status = "RESOLVED"
  BY <1>2 DEF Dated, Detected
<1>3. CASE row.status # "RESOLVED"
  BY <1>1, <1>3 DEF Dated, Detected
<1> QED
  BY <1>2, <1>3

LEMMA TriageStep ==
  ASSUME FindingsTyped, [Next]_vars, NEW r \in Resources,
         \/ Dated(finding[r]) /\ ~Dated(finding'[r])
         \/ finding[r].status = "ACKNOWLEDGED" /\ finding'[r].status = "OPEN"
  PROVE  scan.pc = "publishing" /\ scan.known[r] # finding[r].status
<1>1. finding[r] \in FindingRows /\ finding' # finding
  BY DEF FindingsTyped
<1>2. ASSUME NEW q \in Resources PROVE ~AcknowledgeFinding(q)
  <2> SUFFICES ASSUME AcknowledgeFinding(q) PROVE FALSE
    OBVIOUS
  <2>1. q = r /\ finding[r].status = "OPEN"
    BY DEF AcknowledgeFinding, FindingsTyped
  <2>2. finding'[r].status = "ACKNOWLEDGED" /\ finding'[r].dated = finding[r].dated
    BY <1>1, <2>1 DEF AcknowledgeFinding, FindingsTyped, FindingRows
  <2> QED
    BY <2>1, <2>2 DEF Dated
<1>3. ASSUME NEW q \in Resources PROVE ~ResolveFinding(q)
  <2> SUFFICES ASSUME ResolveFinding(q) PROVE FALSE
    OBVIOUS
  <2>1. finding'[r] = finding[r] \/ finding'[r] = [status |-> "RESOLVED", dated |-> TRUE]
    BY DEF ResolveFinding, FindingsTyped
  <2> QED
    BY <2>1 DEF Dated
<1>4. PublishFindings
  BY <1>1, <1>2, <1>3 DEF Next, FindStep, vars, findVars, ReadInventory, Evaluate, ScanAborts
<1>5. \/ finding'[r] = Detected(scan.known[r], finding[r].dated)
      \/ finding'[r] = [status |-> "RESOLVED", dated |-> TRUE]
      \/ finding'[r] = finding[r]
  BY <1>4 DEF PublishFindings
<1>6. finding'[r] = Detected(scan.known[r], finding[r].dated)
  BY <1>5 DEF Dated
<1>7. scan.known[r] # finding[r].status
  BY <1>1, <1>6, DetectedKeepsDates
<1> QED
  BY <1>4, <1>7 DEF PublishFindings

-----------------------------------------------------------------------------
(* The account summary is never stale, and no scan takes it for gone.      *)

Summary(r) == ServiceOf[r] = "IAM"
SummaryIsActive ==
  \A r \in Resources : Summary(r) =>
    /\ inv[r].status # "STALE"
    /\ scan.pc = "evaluating" => scan.snapshot[r].status # "STALE"
    /\ r \notin scan.gone

LEMMA SummaryStep ==
  ASSUME "overlap" \notin Environment, InventoryInv, SummaryIsActive, [Next]_vars
  PROVE  SummaryIsActive'
<1> SUFFICES ASSUME NEW r \in Resources, Summary(r)
             PROVE  /\ inv'[r].status # "STALE"
                    /\ scan'.pc = "evaluating" => scan'.snapshot[r].status # "STALE"
                    /\ r \notin scan'.gone
  BY DEF SummaryIsActive, Summary
<1>1. /\ inv[r].status # "STALE" /\ r \notin scan.gone
      /\ scan.pc = "evaluating" => scan.snapshot[r].status # "STALE"
  BY DEF SummaryIsActive
<1>2. [InvNext]_invVars
  BY StepOfInventory
<1>3. inv'[r].status # "STALE"
  <2> SUFFICES ASSUME inv'[r].status = "STALE" PROVE FALSE
    OBVIOUS
  <2>1. inv[r].status = "ACTIVE"
    <3>1. PICK d \in Discoveries : PersistResource(d) \/ MarkStale(d)
      BY <1>1, <1>2 DEF InvNext, invVars, CloudChanges, StartDiscovery, ListRegions, ListScope,
           ScopeFails, FinishDiscovery, DiscoveryAudited, DiscoveryFails, DiscoveryDies,
           RecoverStaleRuns
    <3>2. inv \in [Resources -> [status: {"NONE", "ACTIVE", "STALE"}, stamp: Nat,
                                posture: Postures]]
      BY TypeByParts DEF InventoryInv
    <3>3. CASE MarkStale(d)
      BY <3>2, <3>3, <1>1 DEF MarkStale
    <3>4. CASE PersistResource(d)
      <4>1. PICK item \in disc[d].todo :
              inv' = [inv EXCEPT ![item[1]] = [status |-> "ACTIVE", stamp |-> disc[d].stamp,
                                               posture |-> item[2]]]
        BY <3>4 DEF PersistResource
      <4> QED
        BY <4>1, <3>2, <1>1
    <3> QED
      BY <3>1, <3>3, <3>4
  <2>2. SeenAbsent(r)
    BY <2>1, <1>2, StaleStep DEF Summary
  <2>3. PICK d \in Discoveries :
          disc[d].pc = "persisting" /\ Lists(Scope(d), r) /\ r \notin disc[d].listed
    BY <2>2 DEF SeenAbsent
  <2>4. SummaryIsListed(d)
    BY <2>3 DEF InventoryInv, Discovering, Between
  <2> QED
    BY <2>3, <2>4 DEF SummaryIsListed, Summary
<1>4. CASE UNCHANGED scan
  BY <1>1, <1>3, <1>4
<1>5. CASE ReadInventory
  <2>1. scan'.gone = {} /\ scan'.snapshot[r].status = inv[r].status
    BY <1>5 DEF ReadInventory, Resting
  <2> QED
    BY <2>1, <1>1, <1>3
<1>6. CASE Evaluate
  <2>1. scan'.gone \subseteq InState("STALE") /\ scan'.pc = "publishing"
        /\ scan.pc = "evaluating"
    BY <1>6 DEF Evaluate, Resting
  <2> QED
    BY <2>1, <1>1, <1>3 DEF InState
<1>7. CASE PublishFindings \/ ScanAborts
  <2>1. scan'.gone = {} /\ scan'.pc = "resting"
    BY <1>7 DEF PublishFindings, ScanAborts, Resting
  <2> QED
    BY <2>1, <1>3
<1> QED
  BY <1>4, <1>5, <1>6, <1>7 DEF Next, FindStep, vars, findVars, AcknowledgeFinding, ResolveFinding

(* A scan resolves a finding about the account summary only because its    *)
(* rule passes, while discoveries do not overlap: whatever scopes and runs *)
(* fail, the summary is never taken for gone.                              *)
THEOREM ResolvedWasFixedHolds ==
  ASSUME "overlap" \notin Environment
  PROVE  Spec => ResolvedWasFixed
<1>1. Spec => []InventoryInv
  BY FindingsImplementInventory, InventoryInvHolds, PTL
<1>2. Init => SummaryIsActive
  BY DEF Init, InvInit, SummaryIsActive, Summary, Resting, NoSnapshot
<1>3. InventoryInv /\ SummaryIsActive /\ [Next]_vars => SummaryIsActive'
  BY SummaryStep
<1>4. SummaryIsActive /\ [Next]_vars =>
        [\A r \in Resources :
           /\ ServiceOf[r] = "IAM" /\ scan.pc = "publishing" /\ scan' = Resting
           /\ finding[r].status # "RESOLVED" /\ finding'[r].status = "RESOLVED"
           => r \in scan.resolvable]_<<finding, scan>>
  <2> SUFFICES ASSUME SummaryIsActive, [Next]_vars, NEW r \in Resources, ServiceOf[r] = "IAM",
                      scan.pc = "publishing", scan' = Resting,
                      finding[r].status # "RESOLVED", finding'[r].status = "RESOLVED"
               PROVE  r \in scan.resolvable
    OBVIOUS
  <2>1. scan'.pc = "resting"
    BY DEF Resting
  <2>2. PublishFindings
    BY <2>1 DEF Next, FindStep, vars, findVars, ReadInventory, Evaluate, ScanAborts,
                AcknowledgeFinding, ResolveFinding
  <2>3. r \notin scan.gone
    BY DEF SummaryIsActive, Summary
  <2>4. CASE r \in scan.violations
    <3>1. finding'[r].status # "RESOLVED"
      BY <2>2, <2>4 DEF PublishFindings, Detected
    <3> QED
      BY <3>1
  <2> QED
    BY <2>2, <2>3, <2>4 DEF PublishFindings
<1> QED
  BY <1>1, <1>2, <1>3, <1>4, PTL DEF Spec, ResolvedWasFixed

-----------------------------------------------------------------------------
(* The types of the findings and of what a scan holds, in every            *)
(* environment.                                                            *)

SnapshotRows == [status: {"NONE", "ACTIVE", "STALE"}, posture: Postures]
ScanType ==
  /\ scan.pc \in {"resting", "evaluating", "publishing"}
  /\ scan.snapshot \in [Resources -> SnapshotRows]
  /\ scan.violations \subseteq Resources
  /\ scan.resolvable \subseteq Resources \ scan.violations
  /\ scan.gone \subseteq Resources \ scan.violations
  /\ scan.known \in [Resources -> FindingStates]

LEMMA RestingIsTyped == scan = Resting => ScanType
  BY DEF Resting, ScanType, NoSnapshot, NoKnown, SnapshotRows, Postures, FindingStates

(* A resource is judged once: the checked ones by their posture, and none   *)
(* of them was stale.                                                      *)
LEMMA EvaluateTyped ==
  ASSUME finding \in [Resources -> FindingRows], Evaluate
  PROVE  ScanType'
<1>1. PICK checked \in SUBSET InState("ACTIVE") :
        scan' = [Resting EXCEPT !.pc = "publishing",
                                !.violations = Judged(checked, "bad"),
                                !.resolvable = Judged(checked, "good") \intersect Found,
                                !.gone = InState("STALE") \intersect Found,
                                !.known = [r \in Resources |-> finding[r].status]]
  BY DEF Evaluate
<1>2. /\ scan'.pc = "publishing" /\ scan'.snapshot = NoSnapshot
      /\ scan'.violations = Judged(checked, "bad")
      /\ scan'.resolvable = Judged(checked, "good") \intersect Found
      /\ scan'.gone = InState("STALE") \intersect Found
      /\ scan'.known = [r \in Resources |-> finding[r].status]
  BY <1>1 DEF Resting
<1>3. /\ Judged(checked, "bad") \subseteq Resources
      /\ Judged(checked, "good") \subseteq Resources \ Judged(checked, "bad")
  BY DEF Judged, InState
<1>4. InState("STALE") \subseteq Resources \ Judged(checked, "bad")
  BY DEF Judged, InState
<1>5. scan'.known \in [Resources -> FindingStates]
  BY <1>2 DEF FindingRows
<1>6. scan'.snapshot \in [Resources -> SnapshotRows]
  BY <1>2 DEF NoSnapshot, SnapshotRows, Postures
<1> QED
  BY <1>2, <1>3, <1>4, <1>5, <1>6 DEF ScanType

LEMMA TypeStep ==
  ASSUME InvTypeOK, finding \in [Resources -> FindingRows], ScanType, [Next]_vars
  PROVE  (finding \in [Resources -> FindingRows])' /\ ScanType'
<1>1. CASE UNCHANGED findVars
  BY <1>1 DEF findVars, ScanType
<1>2. CASE ReadInventory
  <2>1. scan' = [Resting EXCEPT !.pc = "evaluating",
          !.snapshot = [r \in Resources |-> [status |-> inv[r].status,
                                             posture |-> inv[r].posture]]]
    BY <1>2 DEF ReadInventory
  <2>2. /\ scan'.pc = "evaluating" /\ scan'.violations = {} /\ scan'.resolvable = {}
        /\ scan'.gone = {} /\ scan'.known = NoKnown
        /\ scan'.snapshot = [r \in Resources |-> [status |-> inv[r].status,
                                                  posture |-> inv[r].posture]]
    BY <2>1 DEF Resting
  <2>3. scan'.snapshot \in [Resources -> SnapshotRows]
    BY <2>2 DEF InvTypeOK, SnapshotRows
  <2>4. scan'.known \in [Resources -> FindingStates]
    BY <2>2 DEF NoKnown, FindingStates
  <2> QED
    BY <2>2, <2>3, <2>4, <1>2 DEF ScanType, ReadInventory
<1>3. CASE Evaluate
  BY <1>3, EvaluateTyped DEF Evaluate
<1>4. CASE PublishFindings
  <2>1. (scan = Resting)'
    BY <1>4 DEF PublishFindings, Resting
  <2>2. ScanType'
    BY <2>1, RestingIsTyped, PTL
  <2>3. ASSUME NEW r \in Resources
        PROVE  /\ finding[r] \in FindingRows
               /\ Detected(scan.known[r], finding[r].dated) \in FindingRows
               /\ [status |-> "RESOLVED", dated |-> TRUE] \in FindingRows
    <3>1. /\ finding[r].status \in FindingStates /\ finding[r].dated \in BOOLEAN
          /\ scan.known[r] \in FindingStates /\ finding[r] \in FindingRows
      BY DEF FindingRows, ScanType
    <3> QED
      BY <3>1 DEF FindingRows, FindingStates, Detected
  <2> QED
    BY <1>4, <2>2, <2>3 DEF PublishFindings
<1>5. CASE ScanAborts
  <2>1. (scan = Resting)'
    BY <1>5 DEF ScanAborts, Resting
  <2>2. ScanType'
    BY <2>1, RestingIsTyped, PTL
  <2> QED
    BY <1>5, <2>2 DEF ScanAborts
<1>6. ASSUME NEW r \in Resources, AcknowledgeFinding(r) \/ ResolveFinding(r)
      PROVE  (finding \in [Resources -> FindingRows])' /\ ScanType'
  <2>1. scan' = scan
    BY <1>6 DEF AcknowledgeFinding, ResolveFinding
  <2>2. finding'[r] \in FindingRows
    <3>1. finding[r] \in FindingRows
      OBVIOUS
    <3>2. CASE AcknowledgeFinding(r)
      <4>1. finding'[r] = [finding[r] EXCEPT !.status = "ACKNOWLEDGED"]
        BY <3>2 DEF AcknowledgeFinding
      <4> QED
        BY <3>1, <4>1 DEF FindingRows, FindingStates
    <3>3. CASE ResolveFinding(r)
      BY <3>3 DEF ResolveFinding, FindingRows, FindingStates
    <3> QED
      BY <1>6, <3>2, <3>3
  <2> QED
    BY <1>6, <2>1, <2>2 DEF AcknowledgeFinding, ResolveFinding, ScanType
<1> QED
  BY <1>1, <1>2, <1>3, <1>4, <1>5, <1>6 DEF Next, FindStep, vars, findVars

(* The inventory's rows, the findings and what a scan holds have their      *)
(* types: what a scan would resolve or takes for gone it did not find in   *)
(* violation.                                                              *)
THEOREM FindingTypeCorrect == Spec => []TypeOK
<1> DEFINE Typed == finding \in [Resources -> FindingRows] /\ ScanType
<1>1. Spec => []InvTypeOK
  BY FindingsImplementInventory, InventoryTypeCorrect, PTL
<1>2. Init => Typed
  <2> SUFFICES ASSUME Init PROVE Typed
    OBVIOUS
  <2>1. ScanType
    BY RestingIsTyped DEF Init
  <2> QED
    BY <2>1 DEF Init, FindingRows, FindingStates, NoFinding
<1>3. InvTypeOK /\ Typed /\ [Next]_vars => Typed'
  BY TypeStep
<1>4. InvTypeOK /\ Typed => TypeOK
  BY DEF TypeOK, ScanType, FindingRows, SnapshotRows
<1> QED
  BY <1>1, <1>2, <1>3, <1>4, PTL DEF Spec

(* In every environment, triage at any time included: a step that parts a  *)
(* finding's date from its status, or opens an acknowledged finding, is a  *)
(* scan that had read another status than it finds.                        *)
THEOREM OnlyRacingTriageIsLostHolds == Spec => OnlyRacingTriageIsLost
<1>1. TypeOK => FindingsTyped
  BY DEF TypeOK, FindingsTyped, FindingRows
<1>2. FindingsTyped /\ [Next]_vars =>
        [\A r \in Resources :
           \/ Dated(finding[r]) /\ ~Dated(finding'[r])
           \/ finding[r].status = "ACKNOWLEDGED" /\ finding'[r].status = "OPEN"
           => scan.pc = "publishing" /\ scan.known[r] # finding[r].status]_finding
  <2> SUFFICES ASSUME FindingsTyped, [Next]_vars, NEW r \in Resources,
                      \/ Dated(finding[r]) /\ ~Dated(finding'[r])
                      \/ finding[r].status = "ACKNOWLEDGED" /\ finding'[r].status = "OPEN"
               PROVE  scan.pc = "publishing" /\ scan.known[r] # finding[r].status
    OBVIOUS
  <2> QED
    BY TriageStep
<1> QED
  BY FindingTypeCorrect, <1>1, <1>2, PTL DEF Spec, OnlyRacingTriageIsLost
=============================================================================
