---------------------------- MODULE CloudInventory ----------------------------
(***************************************************************************)
(* Discovery of one AWS account's resources (AwsService.runDiscovery,      *)
(* persistResources, markStale and recoverStaleRuns in                     *)
(* src/src/aws-service.ts, with the client of src/src/aws.ts).             *)
(*                                                                         *)
(* One action is one call of AWS or one statement.  A run goes through its *)
(* scopes in order: EC2 in every region that AWS has just listed, then S3, *)
(* then IAM.  Resources may lie in regions that are not listed, or not any *)
(* more.  Requests that are refused (no active connection, a key seen      *)
(* before) change nothing and are left out.                                *)
(***************************************************************************)
EXTENDS Naturals, Sequences, SequencesExt, FiniteSets

CONSTANTS
  Resources,    \* AWS resources, by resource id
  ServiceOf,    \* EC2, S3 or IAM
  RegionOf,     \* the region under which the inventory files them
  PosturesOf,   \* what a listing may say of them for the rules
  Regions,      \* regions that AWS may list
  Discoveries,  \* DiscoveryRun rows that may be created
  Environment   \* what may happen besides normal execution

(* Calls and statements fail, a process dies, discoveries overlap, a       *)
(* discovery takes longer than the fifteen minutes after which it counts   *)
(* as interrupted; "cancel" and "triage" concern the scans that read the   *)
(* inventory.                                                              *)
EnvironmentKinds == {"failure", "crash", "overlap", "slow", "cancel", "triage"}

Postures == {"good", "bad", "unknown"}

ASSUME InventoryAssumption ==
  /\ ServiceOf \in [Resources -> {"EC2", "S3", "IAM"}]
  /\ PosturesOf \in [Resources -> SUBSET Postures]
  /\ IsFiniteSet(Regions) /\ {"global", "s3", "iam"} \intersect Regions = {}
  /\ \A r \in Resources : /\ RegionOf[r] = "global" <=> ServiceOf[r] = "IAM"
                          /\ RegionOf[r] \notin {"s3", "iam"}
  /\ Environment \subseteq EnvironmentKinds

VARIABLES
  cloud,  \* the posture of each resource in AWS, or absent
  clock,  \* the last stamp a discovery took
  inv,    \* AwsResource: status, discoveredAt and metadata
  disc    \* DiscoveryRun of each request, and what its process holds

invVars == <<cloud, clock, inv, disc>>

(* The scopes of a run that was told these regions, in order.              *)
ScopesOf == [regions \in SUBSET Regions |-> SetToSeq(regions) \o <<"s3", "iam">>]
Scopes(d) == ScopesOf[disc[d].regions]
Run(status, pc, stamp, regions, pos, todo, listed, failed) ==
  [status |-> status, pc |-> pc, stamp |-> stamp, regions |-> regions, pos |-> pos,
   todo |-> todo, listed |-> listed, failed |-> failed]
(* A run whose process holds nothing: not yet or no longer discovering.    *)
Bare(status, pc) == Run(status, pc, 0, {}, 1, {}, {}, {})
NoRun == Bare("NONE", "new")

InvTypeOK ==
  /\ cloud \in [Resources -> Postures \union {"absent"}]
  /\ clock \in Nat
  /\ inv \in [Resources -> [status: {"NONE", "ACTIVE", "STALE"}, stamp: Nat,
                            posture: Postures]]
  /\ disc \in [Discoveries ->
       [status: {"NONE", "RUNNING", "COMPLETED", "PARTIAL", "FAILED"},
        pc: {"new", "regions", "listing", "persisting", "finishing", "auditing", "done",
             "dead"},
        stamp: Nat, regions: SUBSET Regions, pos: Nat, todo: SUBSET (Resources \X Postures),
        listed: SUBSET Resources, failed: SUBSET (Regions \union {"s3", "iam"})]]
  /\ \A d \in Discoveries : /\ disc[d].stamp <= clock
                            /\ disc[d].pos \in 1..(Len(Scopes(d)) + 1)
                            /\ disc[d].pos > Len(Scopes(d)) <=> disc[d].pc = "finishing"

InvInit ==
  /\ cloud = [r \in Resources |-> IF ServiceOf[r] = "IAM" THEN "good" ELSE "absent"]
  /\ clock = 0
  /\ inv = [r \in Resources |-> [status |-> "NONE", stamp |-> 0, posture |-> "unknown"]]
  /\ disc = [d \in Discoveries |-> NoRun]

-----------------------------------------------------------------------------
(* The account itself: resources come and go and change, the IAM account   *)
(* summary is always there.                                                *)
CloudChanges(r) ==
  /\ \E p \in PosturesOf[r] \union (IF ServiceOf[r] = "IAM" THEN {} ELSE {"absent"}) :
       p # cloud[r] /\ cloud' = [cloud EXCEPT ![r] = p]
  /\ UNCHANGED <<clock, inv, disc>>

Alive(d) == disc[d].pc \notin {"new", "done", "dead"}
Scope(d) == Scopes(d)[disc[d].pos]
SetRun(d, run) == disc' = [disc EXCEPT ![d] = run]
Continue(d, pc, stamp, todo, listed) ==
  SetRun(d, Run(disc[d].status, pc, stamp, disc[d].regions, disc[d].pos, todo, listed,
                disc[d].failed))

(* What a scope lists, and which rows its markStale looks at: a region's   *)
(* rows whatever their service, and below "global" those of one service.   *)
Lists(scope, r) ==
  CASE scope = "s3"  -> ServiceOf[r] = "S3"
    [] scope = "iam" -> ServiceOf[r] = "IAM"
    [] OTHER         -> ServiceOf[r] = "EC2" /\ RegionOf[r] = scope
MarksStale(scope, r) ==
  CASE scope = "s3"  -> ServiceOf[r] = "S3" /\ RegionOf[r] = "global"
    [] scope = "iam" -> ServiceOf[r] = "IAM" /\ RegionOf[r] = "global"
    [] OTHER         -> RegionOf[r] = scope

-----------------------------------------------------------------------------
(* runDiscovery.                                                           *)

StartDiscovery(d) ==
  /\ disc[d] = NoRun
  /\ "overlap" \in Environment \/ \A e \in Discoveries : ~Alive(e)
  /\ SetRun(d, Bare("RUNNING", "regions"))
  /\ UNCHANGED <<cloud, clock, inv>>

(* The regions that AWS lists now, and the stamp under which everything    *)
(* will be filed.                                                          *)
ListRegions(d) ==
  /\ disc[d].pc = "regions"
  /\ clock' = clock + 1
  /\ \E regions \in SUBSET Regions :
       SetRun(d, Run(disc[d].status, "listing", clock', regions, 1, {}, {}, {}))
  /\ UNCHANGED <<cloud, inv>>

ListScope(d) ==
  /\ disc[d].pc = "listing"
  /\ LET found == {r \in Resources : Lists(Scope(d), r) /\ cloud[r] # "absent"} IN
     Continue(d, "persisting", disc[d].stamp, {<<r, cloud[r]>> : r \in found},
              disc[d].listed \union found)
  /\ UNCHANGED <<cloud, clock, inv>>

(* persistResources: one upsert after the other.                           *)
PersistResource(d) ==
  /\ disc[d].pc = "persisting"
  /\ \E item \in disc[d].todo :
       /\ inv' = [inv EXCEPT ![item[1]] = [status |-> "ACTIVE", stamp |-> disc[d].stamp,
                                           posture |-> item[2]]]
       /\ Continue(d, "persisting", disc[d].stamp, disc[d].todo \ {item}, disc[d].listed)
  /\ UNCHANGED <<cloud, clock>>

NextScope(d, failed) ==
  SetRun(d, Run(disc[d].status,
                IF disc[d].pos = Len(Scopes(d)) THEN "finishing" ELSE "listing",
                disc[d].stamp, disc[d].regions, disc[d].pos + 1, {}, disc[d].listed,
                disc[d].failed \union failed))

\* Mistakes: rows of any scope; rows of this very run.
MarkedAnywhere(d, r) == inv[r].stamp < disc[d].stamp
MarkedAtOnce(d, r) == inv[r].stamp <= disc[d].stamp /\ MarksStale(Scope(d), r)
Marked(d, r) == inv[r].stamp < disc[d].stamp /\ MarksStale(Scope(d), r)

Staled(row) == [status |-> "STALE", stamp |-> row.stamp, posture |-> row.posture]

(* markStale, after the last upsert of the scope.                          *)
MarkStale(d) ==
  /\ disc[d].pc = "persisting" /\ disc[d].todo = {}
  /\ inv' = [r \in Resources |->
               IF inv[r].status = "ACTIVE" /\ Marked(d, r)
               THEN Staled(inv[r]) ELSE inv[r]]
  /\ NextScope(d, {})
  /\ UNCHANGED <<cloud, clock>>

(* The scope's catch: an error is noted, nothing of it is marked.          *)
ScopeFails(d) ==
  /\ "failure" \in Environment
  /\ disc[d].pc \in {"listing", "persisting"}
  /\ NextScope(d, {Scope(d)})
  /\ UNCHANGED <<cloud, clock, inv>>

(* The final status, written by the run's id, and its audit entry.         *)
Outcome(d) ==
  IF disc[d].failed = {} THEN "COMPLETED"
  ELSE IF disc[d].failed = ToSet(Scopes(d)) THEN "FAILED" ELSE "PARTIAL"

FinishDiscovery(d) ==
  /\ disc[d].pc = "finishing"
  /\ SetRun(d, Bare(Outcome(d), "auditing"))
  /\ UNCHANGED <<cloud, clock, inv>>

DiscoveryAudited(d) ==
  /\ disc[d].pc = "auditing"
  /\ SetRun(d, Bare(disc[d].status, "done"))
  /\ UNCHANGED <<cloud, clock, inv>>

(* The outer catch: the regions, the final update or its audit entry fail, *)
(* or the statement by which a region's catch notes an error.              *)
DiscoveryFails(d) ==
  /\ "failure" \in Environment
  /\ \/ disc[d].pc \in {"regions", "finishing", "auditing"}
     \/ disc[d].pc \in {"listing", "persisting"} /\ Scope(d) \in Regions
  /\ SetRun(d, Bare("FAILED", "done"))
  /\ UNCHANGED <<cloud, clock, inv>>

\* Mistake: a run counts as interrupted whatever its age.
AnyAge(d) == disc[d].status = "RUNNING"
Interrupted(d) ==
  /\ disc[d].status = "RUNNING"
  /\ disc[d].pc = "dead" \/ (Alive(d) /\ "slow" \in Environment)

Failed(run) ==
  Run("FAILED", run.pc, run.stamp, run.regions, run.pos, run.todo, run.listed, run.failed)

(* recoverStaleRuns, when runs are listed or a discovery starts; the       *)
(* process, if it lives, goes on.                                          *)
RecoverStaleRuns ==
  /\ \E d \in Discoveries : Interrupted(d)
  /\ disc' = [d \in Discoveries |->
                IF Interrupted(d) THEN Failed(disc[d]) ELSE disc[d]]
  /\ UNCHANGED <<cloud, clock, inv>>

DiscoveryDies(d) ==
  /\ "crash" \in Environment
  /\ Alive(d)
  /\ SetRun(d, Bare(disc[d].status, IF disc[d].status = "RUNNING" THEN "dead" ELSE "done"))
  /\ UNCHANGED <<cloud, clock, inv>>

InvNext ==
  \/ \E r \in Resources : CloudChanges(r)
  \/ \E d \in Discoveries :
       \/ StartDiscovery(d) \/ ListRegions(d) \/ ListScope(d) \/ PersistResource(d)
       \/ MarkStale(d) \/ ScopeFails(d) \/ FinishDiscovery(d) \/ DiscoveryAudited(d)
       \/ DiscoveryFails(d) \/ DiscoveryDies(d)
  \/ RecoverStaleRuns

InvSpec == InvInit /\ [][InvNext]_invVars

-----------------------------------------------------------------------------
(* Properties.                                                             *)

(* A region's scope, or that of its service, looks at the row of r.        *)
WithinReach(d, r) == \E scope \in ToSet(Scopes(d)) : MarksStale(scope, r)

(* While discoveries do not overlap, a run without an error leaves what it *)
(* listed active, and of the rows in the regions that it was told nothing  *)
(* else: buckets too, which the region's scope marks stale before the S3   *)
(* scope lists them.  What AWS had filed under other regions, a bucket     *)
(* that is deleted now or an instance in a region that is closed, stays as *)
(* it was (runDiscovery's scopes with markStale).                          *)
CompletedDiscoveryIsExact ==
  \A d \in Discoveries :
    disc[d].pc = "finishing" /\ disc[d].failed = {} =>
      \A r \in Resources :
        /\ r \in disc[d].listed => inv[r].status = "ACTIVE"
        /\ WithinReach(d, r) /\ inv[r].status = "ACTIVE" => r \in disc[d].listed

(* The scope that stales r listed it as absent.                            *)
SeenAbsent(r) ==
  \E d \in Discoveries :
    disc[d].pc = "persisting" /\ Lists(Scope(d), r) /\ r \notin disc[d].listed

(* A resource goes stale only by a successful scope that would have listed *)
(* it and did not, as long as discoveries do not overlap; buckets are the  *)
(* exception, which the scope of their region marks unseen (markStale      *)
(* without a service).                                                     *)
OnlyBucketsGoStaleUnseen ==
  [][\A r \in Resources :
       inv[r].status = "ACTIVE" /\ inv'[r].status = "STALE" =>
         SeenAbsent(r) \/ ServiceOf[r] = "S3"]_inv

(* A discovery's outcome is written once, as long as none takes longer     *)
(* than recoverStaleRuns waits; only its own failing audit entry turns it  *)
(* into a failure (the final updates are by id alone).                     *)
DiscoveryOutcomeStands ==
  [][\A d \in Discoveries :
       disc[d].status \in {"COMPLETED", "PARTIAL", "FAILED"} =>
         \/ disc'[d].status = disc[d].status
         \/ disc[d].pc = "auditing" /\ disc'[d].status = "FAILED"]_disc
=============================================================================
