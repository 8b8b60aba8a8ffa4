------------------------ MODULE CloudInventoryProofs ------------------------
(***************************************************************************)
(* What holds of an account's inventory for any number of resources,       *)
(* regions and discoveries.  Discovering(d) is the invariant of one        *)
(* discovery: what it listed and what became of it, scope by scope; as     *)
(* long as discoveries do not overlap, no other one disturbs it.           *)
(***************************************************************************)
EXTENDS CloudInventory, FiniteSetTheorems, SequenceTheorems, TLAPS

-----------------------------------------------------------------------------
(* The scopes: every region once, then S3 and IAM.                         *)
Names == Regions \union {"s3", "iam"}

LEMMA RegionSequence ==
  ASSUME NEW R \in SUBSET Regions
  PROVE  LET q == SetToSeq(R) IN
         /\ q \in Seq(R)
         /\ \A i, j \in 1..Len(q) : q[i] = q[j] => i = j
         /\ \A g \in R : \E i \in 1..Len(q) : q[i] = g
<1> DEFINE n == Cardinality(R)
           q == SetToSeq(R)
<1>1. n \in Nat /\ ExistsBijection(1..n, R) /\ IsFiniteSet(R)
  BY FS_Subset, FS_CardinalityType, InventoryAssumption
<1>2. \E f \in [1..n -> R] : IsInjective(f)
  BY <1>1 DEF ExistsBijection, Bijection, Injection
<1>3. q \in [1..n -> R] /\ IsInjective(q)
  BY <1>2 DEF SetToSeq
<1>4. Cardinality(1..n) = n
  BY <1>1, FS_Interval
<1>5. q \in Injection(1..n, R)
  BY <1>3 DEF Injection
<1>6. q \in Surjection(1..n, R)
  BY <1>1, <1>4, <1>5, FS_Injection
<1>7. q \in Seq(R) /\ Len(q) = n
  BY <1>1, <1>3
<1>8. \A g \in R : \E i \in 1..n : q[i] = g
  BY <1>6 DEF Surjection
<1>9. \A i, j \in 1..n : q[i] = q[j] => i = j
  BY <1>3 DEF IsInjective
<1> QED
  BY <1>7, <1>8, <1>9

LEMMA ScopesDistinct ==
  ASSUME NEW R \in SUBSET Regions
  PROVE  LET q == ScopesOf[R] IN
         /\ Len(q) \in Nat /\ Len(q) >= 2
         /\ \A i \in 1..Len(q) : q[i] \in Names
         /\ \A i, j \in 1..Len(q) : q[i] = q[j] => i = j
         /\ \A i \in 1..Len(q) : q[i] \in ToSet(q)
         /\ \A g \in ToSet(q) : \E i \in 1..Len(q) : q[i] = g
<1> DEFINE q == SetToSeq(R)
           e == <<"s3", "iam">>
           all == ScopesOf[R]
<1>1. /\ q \in Seq(Names) /\ \A i \in 1..Len(q) : q[i] \in R
      /\ \A i, j \in 1..Len(q) : q[i] = q[j] => i = j
      /\ \A g \in R : \E i \in 1..Len(q) : q[i] = g
  BY RegionSequence DEF Names
<1>2. e \in Seq(Names) /\ Len(e) = 2 /\ e[1] = "s3" /\ e[2] = "iam"
  BY DEF Names
<1> HIDE DEF q, e
<1>3. all = q \o e
  BY DEF ScopesOf, q, e
<1>4. Len(q) \in Nat
  BY <1>1
<1>5. /\ Len(all) = Len(q) + 2
      /\ \A i \in 1..(Len(q) + 2) :
           all[i] = IF i <= Len(q) THEN q[i] ELSE e[i - Len(q)]
  <2>1. /\ Len(q \o e) = Len(q) + Len(e)
        /\ \A i \in 1..(Len(q) + Len(e)) :
             (q \o e)[i] = IF i <= Len(q) THEN q[i] ELSE e[i - Len(q)]
    <3>1. q \in Seq(Names) /\ e \in Seq(Names)
      BY <1>1, <1>2
    <3> QED
      BY <3>1, ConcatProperties
  <2> QED
    BY <2>1, <1>2, <1>3, Zenon
<1>6. /\ all[Len(q) + 1] = "s3" /\ all[Len(q) + 2] = "iam"
      /\ \A i \in 1..Len(q) : all[i] = q[i]
  BY <1>2, <1>4, <1>5
<1>7. "s3" \notin R /\ "iam" \notin R
  BY InventoryAssumption
<1>8. \A i \in 1..Len(all) : i \in 1..Len(q) \/ i = Len(q) + 1 \/ i = Len(q) + 2
  BY <1>4, <1>5
<1>9. \A i \in 1..Len(all) : all[i] \in Names
  BY <1>1, <1>6, <1>8 DEF Names
<1>10. \A i, j \in 1..Len(all) : all[i] = all[j] => i = j
  <2> SUFFICES ASSUME NEW i \in 1..Len(all), NEW j \in 1..Len(all),
                      all[i] = all[j]
               PROVE  i = j
    OBVIOUS
  <2>1. CASE i \in 1..Len(q)
    BY <2>1, <1>1, <1>6, <1>7, <1>8
  <2>2. CASE j \in 1..Len(q)
    BY <2>2, <1>1, <1>6, <1>7, <1>8
  <2>3. CASE i \notin 1..Len(q) /\ j \notin 1..Len(q)
    BY <2>3, <1>6, <1>8
  <2> QED
    BY <2>1, <2>2, <2>3
<1>12. q \o e \in Seq(Names)
  <2>1. q \in Seq(Names) /\ e \in Seq(Names)
    BY <1>1, <1>2
  <2> QED
    BY <2>1, ConcatProperties
<1>13. /\ \A i \in 1..Len(all) : all[i] \in ToSet(all)
       /\ \A g \in ToSet(all) : \E i \in 1..Len(all) : all[i] = g
  <2>1. DOMAIN all = 1..Len(all)
    BY <1>3, <1>12
  <2> QED
    BY <2>1 DEF ToSet
<1> HIDE DEF all
<1>14. Len(all) \in Nat /\ Len(all) >= 2
  BY <1>4, <1>5
<1> QED
  BY <1>9, <1>10, <1>13, <1>14 DEF all

(* A resource is listed by one scope; a scope that marks rows it does not  *)
(* list marks buckets.                                                     *)
LEMMA ScopesOfResources ==
  ASSUME NEW r \in Resources
  PROVE  /\ \A g, h \in Names : Lists(g, r) /\ Lists(h, r) => g = h
         /\ \A g \in Names : MarksStale(g, r) /\ ServiceOf[r] # "S3" => Lists(g, r)
<1>1. /\ ServiceOf[r] \in {"EC2", "S3", "IAM"} /\ RegionOf[r] \notin {"s3", "iam"}
      /\ "global" \notin Regions /\ "s3" \notin Regions /\ "iam" \notin Regions
      /\ RegionOf[r] = "global" <=> ServiceOf[r] = "IAM"
  BY InventoryAssumption
<1> QED
  BY <1>1 DEF Names, Lists, MarksStale

RunRecord ==
  [status: {"NONE", "RUNNING", "COMPLETED", "PARTIAL", "FAILED"},
   pc: {"new", "regions", "listing", "persisting", "finishing", "auditing", "done", "dead"},
   stamp: Nat, regions: SUBSET Regions, pos: Nat, todo: SUBSET (Resources \X Postures),
   listed: SUBSET Resources, failed: SUBSET Names]

LEMMA RunFits ==
  ASSUME NEW status \in {"NONE", "RUNNING", "COMPLETED", "PARTIAL", "FAILED"},
         NEW pc \in {"new", "regions", "listing", "persisting", "finishing", "auditing", "done",
                     "dead"},
         NEW stamp \in Nat, NEW regions \in SUBSET Regions, NEW pos \in Nat,
         NEW todo \in SUBSET (Resources \X Postures), NEW listed \in SUBSET Resources,
         NEW failed \in SUBSET Names
  PROVE  Run(status, pc, stamp, regions, pos, todo, listed, failed) \in RunRecord
  BY DEF Run, RunRecord

LEMMA RunFields ==
  ASSUME NEW run \in RunRecord
  PROVE  /\ run.status \in {"NONE", "RUNNING", "COMPLETED", "PARTIAL", "FAILED"}
         /\ run.pc \in {"new", "regions", "listing", "persisting", "finishing", "auditing",
                        "done", "dead"}
         /\ run.stamp \in Nat /\ run.regions \in SUBSET Regions /\ run.pos \in Nat
         /\ run.todo \in SUBSET (Resources \X Postures) /\ run.listed \in SUBSET Resources
         /\ run.failed \in SUBSET Names
  BY DEF RunRecord

-----------------------------------------------------------------------------
(* Types.                                                                  *)

Positioned(run) ==
  /\ run.pos \in 1..(Len(ScopesOf[run.regions]) + 1)
  /\ run.pos > Len(ScopesOf[run.regions]) <=> run.pc = "finishing"

LEMMA TypeByParts ==
  InvTypeOK <=>
    /\ cloud \in [Resources -> Postures \union {"absent"}]
    /\ clock \in Nat
    /\ inv \in [Resources -> [status: {"NONE", "ACTIVE", "STALE"}, stamp: Nat,
                              posture: Postures]]
    /\ disc \in [Discoveries -> RunRecord]
    /\ \A d \in Discoveries : disc[d].stamp <= clock /\ Positioned(disc[d])
  BY Zenon DEF InvTypeOK, RunRecord, Names, Positioned, Scopes

LEMMA BareFits ==
  ASSUME NEW status \in {"NONE", "RUNNING", "COMPLETED", "PARTIAL", "FAILED"},
         NEW pc \in {"new", "regions", "auditing", "done", "dead"}
  PROVE  Bare(status, pc) \in RunRecord /\ Positioned(Bare(status, pc))
<1>1. Run(status, pc, 0, {}, 1, {}, {}, {}) \in RunRecord
  BY RunFits
<1>2. Len(ScopesOf[{}]) \in Nat /\ Len(ScopesOf[{}]) >= 2
  BY ScopesDistinct
<1> QED
  BY <1>1, <1>2 DEF Bare, Run, Positioned

(* Setting a run keeps the types, if the run has them.                     *)
LEMMA SetRunFits ==
  ASSUME NEW d \in Discoveries, NEW run \in RunRecord, SetRun(d, run),
         disc \in [Discoveries -> RunRecord], clock \in Nat, clock' \in Nat, clock' >= clock,
         \A e \in Discoveries : disc[e].stamp <= clock /\ Positioned(disc[e]),
         run.stamp <= clock', Positioned(run)
  PROVE  /\ disc' \in [Discoveries -> RunRecord]
         /\ \A e \in Discoveries : disc'[e].stamp <= clock' /\ Positioned(disc'[e])
<1>1. disc' \in [Discoveries -> RunRecord]
  BY DEF SetRun
<1>2. \A e \in Discoveries : disc'[e] = IF e = d THEN run ELSE disc[e]
  BY DEF SetRun
<1>3. \A e \in Discoveries : disc[e].stamp \in Nat
  BY RunFields
<1> QED
  BY <1>1, <1>2, <1>3

LEMMA InventoryTypeInit == InvInit => InvTypeOK
<1>1. InvInit => /\ cloud \in [Resources -> Postures \union {"absent"}]
                 /\ clock \in Nat
                 /\ inv \in [Resources -> [status: {"NONE", "ACTIVE", "STALE"}, stamp: Nat,
                                           posture: Postures]]
  BY DEF InvInit, Postures
<1>2. InvInit => /\ disc \in [Discoveries -> RunRecord]
                 /\ \A d \in Discoveries :
                      disc[d].stamp <= clock /\ Positioned(disc[d])
  <2>1. NoRun \in RunRecord /\ Positioned(NoRun) /\ NoRun.stamp = 0
    BY BareFits DEF NoRun, Bare, Run
  <2> QED
    BY <2>1 DEF InvInit
<1> QED
  BY <1>1, <1>2, TypeByParts

LEMMA InventoryTypeStep ==
  ASSUME InvTypeOK, [InvNext]_invVars
  PROVE  InvTypeOK'
<1> DEFINE Rows == [status: {"NONE", "ACTIVE", "STALE"}, stamp: Nat, posture: Postures]
           CloudT == cloud \in [Resources -> Postures \union {"absent"}]
           ClockT == clock \in Nat
           InvT == inv \in [Resources -> Rows]
           DiscT == /\ disc \in [Discoveries -> RunRecord]
                    /\ \A d \in Discoveries :
                         disc[d].stamp <= clock /\ Positioned(disc[d])
<1>1. CloudT /\ ClockT /\ InvT /\ DiscT
  BY TypeByParts
<1>2. SUFFICES CloudT' /\ ClockT' /\ InvT' /\ DiscT'
  BY TypeByParts, PTL
<1>4. \A d \in Discoveries :
        /\ disc[d].status \in {"NONE", "RUNNING", "COMPLETED", "PARTIAL", "FAILED"}
        /\ disc[d].stamp \in 0..clock /\ disc[d].regions \in SUBSET Regions
        /\ disc[d].pos \in Nat
        /\ disc[d].todo \in SUBSET (Resources \X Postures)
        /\ disc[d].listed \in SUBSET Resources /\ disc[d].failed \in SUBSET Names
  BY <1>1, RunFields
<1>3. ASSUME NEW d \in Discoveries
      PROVE  /\ Len(Scopes(d)) \in Nat /\ Len(Scopes(d)) >= 2
             /\ \A i \in 1..Len(Scopes(d)) : Scopes(d)[i] \in Names
             /\ disc[d].pos \in 1..(Len(Scopes(d)) + 1)
             /\ disc[d].pos > Len(Scopes(d)) <=> disc[d].pc = "finishing"
  BY <1>1, <1>4, ScopesDistinct DEF Scopes, Positioned
<1>5. ASSUME UNCHANGED invVars PROVE CloudT' /\ ClockT' /\ InvT' /\ DiscT'
  BY <1>1, <1>5 DEF invVars
<1>6. ASSUME NEW r \in Resources, CloudChanges(r) PROVE CloudT' /\ ClockT' /\ InvT' /\ DiscT'
  <2>1. PosturesOf[r] \subseteq Postures
    BY InventoryAssumption
  <2>2. PICK p \in Postures \union {"absent"} : cloud' = [cloud EXCEPT ![r] = p]
    BY <1>6, <2>1 DEF CloudChanges
  <2> QED
    BY <2>2, <1>1, <1>6 DEF CloudChanges
<1>7. ASSUME NEW d \in Discoveries,
             NEW status \in {"NONE", "RUNNING", "COMPLETED", "PARTIAL", "FAILED"},
             NEW pc \in {"new", "regions", "auditing", "done", "dead"},
             SetRun(d, Bare(status, pc)), UNCHANGED <<cloud, clock, inv>>
      PROVE  CloudT' /\ ClockT' /\ InvT' /\ DiscT'
  <2> DEFINE run == Bare(status, pc)
  <2>1. run \in RunRecord /\ Positioned(run)
    BY BareFits
  <2>2. run.stamp = 0
    BY DEF Bare, Run
  <2> HIDE DEF run
  <2>3. DiscT'
    BY <2>1, <2>2, <1>1, <1>7, SetRunFits DEF run
  <2> QED
    BY <2>3, <1>1, <1>7
<1>8. ASSUME NEW d \in Discoveries, NEW pc \in {"listing", "persisting"}, NEW stamp \in Nat,
             NEW todo \in SUBSET (Resources \X Postures), NEW listed \in SUBSET Resources,
             Continue(d, pc, stamp, todo, listed), disc[d].pc # "finishing",
             clock' \in Nat, clock' >= clock, stamp <= clock'
      PROVE  DiscT'
  <2> DEFINE run == Run(disc[d].status, pc, stamp, disc[d].regions, disc[d].pos, todo, listed,
                        disc[d].failed)
  <2>1. run \in RunRecord
    BY <1>4, RunFits, ZenonT(30)
  <2>2. /\ run.stamp = stamp /\ run.pos = disc[d].pos /\ run.regions = disc[d].regions
        /\ run.pc # "finishing"
    BY DEF Run
  <2>3. SetRun(d, run)
    BY <1>8 DEF Continue
  <2> HIDE DEF run
  <2>4. Positioned(run)
    BY <2>2, <1>3, <1>8 DEF Positioned, Scopes
  <2> QED
    BY <2>1, <2>2, <2>3, <2>4, <1>1, <1>8, SetRunFits
<1>9. ASSUME NEW d \in Discoveries, StartDiscovery(d)
      PROVE  CloudT' /\ ClockT' /\ InvT' /\ DiscT'
  BY <1>7, <1>9 DEF StartDiscovery
<1>10. ASSUME NEW d \in Discoveries, ListRegions(d)
       PROVE  CloudT' /\ ClockT' /\ InvT' /\ DiscT'
  <2>1. clock' = clock + 1 /\ clock' \in Nat
    BY <1>1, <1>10 DEF ListRegions
  <2>2. PICK R \in SUBSET Regions :
          SetRun(d, Run(disc[d].status, "listing", clock', R, 1, {}, {}, {}))
    BY <1>10 DEF ListRegions
  <2> DEFINE run == Run(disc[d].status, "listing", clock', R, 1, {}, {}, {})
  <2>4. run \in RunRecord
    <3>1. /\ disc[d].status \in {"NONE", "RUNNING", "COMPLETED", "PARTIAL", "FAILED"}
          /\ {} \in SUBSET (Resources \X Postures) /\ {} \in SUBSET Resources
          /\ {} \in SUBSET Names /\ 1 \in Nat
      BY <1>4
    <3> QED
      BY <3>1, <2>1, RunFits, ZenonT(30)
  <2>5. run.stamp = clock' /\ Positioned(run)
    BY ScopesDistinct DEF Run, Positioned
  <2>6. SetRun(d, run)
    BY <2>2
  <2> HIDE DEF run
  <2>3. DiscT'
    BY <2>1, <2>4, <2>5, <2>6, <1>1, SetRunFits
  <2> QED
    BY <2>1, <2>3, <1>1, <1>10 DEF ListRegions
<1>11. ASSUME NEW d \in Discoveries, ListScope(d)
       PROVE  CloudT' /\ ClockT' /\ InvT' /\ DiscT'
  <2> DEFINE found == {r \in Resources : Lists(Scope(d), r) /\ cloud[r] # "absent"}
             todo == {<<r, cloud[r]>> : r \in found}
  <2>1. todo \in SUBSET (Resources \X Postures)
    BY <1>1
  <2>2. disc[d].listed \union found \in SUBSET Resources
    BY <1>4
  <2>3. Continue(d, "persisting", disc[d].stamp, todo, disc[d].listed \union found)
    BY <1>11 DEF ListScope
  <2> HIDE DEF found, todo
  <2>4. /\ disc[d].stamp \in Nat /\ "persisting" \in {"listing", "persisting"}
        /\ disc[d].pc # "finishing" /\ clock' \in Nat /\ clock' >= clock
        /\ disc[d].stamp <= clock'
    BY <1>1, <1>4, <1>11 DEF ListScope
  <2>5. DiscT'
    BY <2>1, <2>2, <2>3, <2>4, <1>8, Zenon
  <2> QED
    BY <2>5, <1>1, <1>11 DEF ListScope
<1>12. ASSUME NEW d \in Discoveries, PersistResource(d)
       PROVE  CloudT' /\ ClockT' /\ InvT' /\ DiscT'
  <2>1. PICK item \in disc[d].todo :
          /\ inv' = [inv EXCEPT ![item[1]] = [status |-> "ACTIVE", stamp |-> disc[d].stamp,
                                             posture |-> item[2]]]
          /\ Continue(d, "persisting", disc[d].stamp, disc[d].todo \ {item}, disc[d].listed)
    BY <1>12 DEF PersistResource
  <2>2. item \in Resources \X Postures
    BY <1>4, <2>1
  <2>3. InvT'
    BY <1>1, <1>4, <2>1, <2>2
  <2>4. /\ disc[d].stamp \in Nat /\ "persisting" \in {"listing", "persisting"}
        /\ disc[d].pc # "finishing" /\ clock' \in Nat /\ clock' >= clock
        /\ disc[d].stamp <= clock' /\ disc[d].listed \in SUBSET Resources
        /\ disc[d].todo \ {item} \in SUBSET (Resources \X Postures)
    BY <1>1, <1>4, <1>12 DEF PersistResource
  <2>5. DiscT'
    BY <2>1, <2>4, <1>8, Zenon
  <2> QED
    BY <2>3, <2>5, <1>1, <1>12 DEF PersistResource
<1>13. ASSUME NEW d \in Discoveries, NEW failed \in SUBSET Names, NextScope(d, failed),
              disc[d].pc \in {"listing", "persisting"}, UNCHANGED clock
       PROVE  DiscT'
  <2> DEFINE pc == IF disc[d].pos = Len(Scopes(d)) THEN "finishing" ELSE "listing"
             run == Run(disc[d].status, pc, disc[d].stamp, disc[d].regions, disc[d].pos + 1, {},
                        disc[d].listed, disc[d].failed \union failed)
  <2>1. disc[d].pos \in 1..Len(Scopes(d)) /\ Len(Scopes(d)) \in Nat
    BY <1>3, <1>13
  <2>2. pc \in {"listing", "finishing"} /\ (disc[d].pos + 1 > Len(Scopes(d)) <=> pc = "finishing")
    BY <2>1
  <2>3. SetRun(d, run)
    BY <1>13 DEF NextScope
  <2> HIDE DEF pc
  <2>4. run \in RunRecord
    <3>1. /\ disc[d].pos + 1 \in Nat /\ disc[d].stamp \in Nat
          /\ {} \in SUBSET (Resources \X Postures)
          /\ disc[d].failed \union failed \in SUBSET Names
          /\ pc \in {"new", "regions", "listing", "persisting", "finishing", "auditing",
                    "done", "dead"}
      BY <2>2, <1>4
    <3> QED
      BY <3>1, <1>4, RunFits, ZenonT(30)
  <2>5. /\ run.stamp = disc[d].stamp /\ run.pos = disc[d].pos + 1 /\ run.pc = pc
        /\ run.regions = disc[d].regions
    BY DEF Run
  <2> HIDE DEF run
  <2>6. Positioned(run)
    BY <2>1, <2>2, <2>5 DEF Positioned, Scopes
  <2> QED
    BY <2>3, <2>4, <2>5, <2>6, <1>1, <1>4, <1>13, SetRunFits
<1>14. ASSUME NEW d \in Discoveries, MarkStale(d)
       PROVE  CloudT' /\ ClockT' /\ InvT' /\ DiscT'
  <2>1. DiscT'
    BY <1>13, <1>14 DEF MarkStale
  <2>2. InvT'
    BY <1>1, <1>14 DEF MarkStale, Staled
  <2> QED
    BY <2>1, <2>2, <1>1, <1>14 DEF MarkStale
<1>15. ASSUME NEW d \in Discoveries, ScopeFails(d)
       PROVE  CloudT' /\ ClockT' /\ InvT' /\ DiscT'
  <2>1. {Scope(d)} \in SUBSET Names
    BY <1>3, <1>15 DEF ScopeFails, Scope
  <2>2. DiscT'
    BY <1>13, <2>1, <1>15 DEF ScopeFails
  <2> QED
    BY <2>2, <1>1, <1>15 DEF ScopeFails
<1>16. ASSUME NEW d \in Discoveries,
              FinishDiscovery(d) \/ DiscoveryAudited(d) \/ DiscoveryFails(d) \/ DiscoveryDies(d)
       PROVE  CloudT' /\ ClockT' /\ InvT' /\ DiscT'
  <2>1. Outcome(d) \in {"COMPLETED", "PARTIAL", "FAILED"}
    BY DEF Outcome
  <2>2. CASE FinishDiscovery(d)
    BY <2>1, <2>2, <1>7 DEF FinishDiscovery
  <2>3. CASE DiscoveryAudited(d)
    BY <2>3, <1>4, <1>7 DEF DiscoveryAudited
  <2>4. CASE DiscoveryFails(d)
    BY <2>4, <1>7 DEF DiscoveryFails
  <2>5. CASE DiscoveryDies(d)
    BY <2>5, <1>4, <1>7 DEF DiscoveryDies
  <2> QED
    BY <1>16, <2>2, <2>3, <2>4, <2>5
<1>17. ASSUME RecoverStaleRuns PROVE CloudT' /\ ClockT' /\ InvT' /\ DiscT'
  <2>1. \A d \in Discoveries :
          /\ Failed(disc[d]) \in RunRecord
          /\ Failed(disc[d]).stamp = disc[d].stamp /\ Failed(disc[d]).pos = disc[d].pos
          /\ Failed(disc[d]).pc = disc[d].pc /\ Failed(disc[d]).regions = disc[d].regions
    <3> TAKE d \in Discoveries
    <3>1. disc[d] \in RunRecord
      BY <1>1
    <3>2. Failed(disc[d]) \in RunRecord
      <4>1. /\ "FAILED" \in {"NONE", "RUNNING", "COMPLETED", "PARTIAL", "FAILED"}
            /\ disc[d].pc \in {"new", "regions", "listing", "persisting", "finishing",
                              "auditing", "done", "dead"}
            /\ disc[d].stamp \in Nat
        BY <3>1, RunFields
      <4> QED
        BY <4>1, <1>4, RunFits, ZenonT(30) DEF Failed
    <3> QED
      BY <3>2 DEF Failed, Run
  <2>2. \A d \in Discoveries : Positioned(Failed(disc[d]))
    BY <1>1, <2>1 DEF Positioned
  <2> QED
    BY <1>1, <1>17, <2>1, <2>2 DEF RecoverStaleRuns
<1> QED
  BY <1>5, <1>6, <1>9, <1>10, <1>11, <1>12, <1>14, <1>15, <1>16, <1>17 DEF InvNext

(* Rows and runs keep their types, whatever discoveries fail or overlap.    *)
THEOREM InventoryTypeCorrect == InvSpec => []InvTypeOK
<1>1. InvTypeOK /\ [InvNext]_invVars => InvTypeOK'
  BY InventoryTypeStep
<1> QED
  BY InventoryTypeInit, <1>1, PTL DEF InvSpec

-----------------------------------------------------------------------------
(* One discovery at a time.                                                *)

(* The scopes of a run, and where in them it is.                           *)
LEMMA ScopesOfRun ==
  ASSUME InvTypeOK, NEW d \in Discoveries
  PROVE  /\ Len(Scopes(d)) \in Nat
         /\ \A i \in 1..Len(Scopes(d)) : Scopes(d)[i] \in Names
         /\ \A i, j \in 1..Len(Scopes(d)) : Scopes(d)[i] = Scopes(d)[j] => i = j
         /\ disc[d].pos \in 1..(Len(Scopes(d)) + 1)
         /\ disc[d].pos > Len(Scopes(d)) <=> disc[d].pc = "finishing"
<1>1. disc[d] \in RunRecord /\ Positioned(disc[d])
  BY TypeByParts
<1>2. disc[d].regions \in SUBSET Regions
  BY <1>1, RunFields
<1> QED
  BY <1>1, <1>2, ScopesDistinct DEF Scopes, Positioned

OneAtATime == \A d, e \in Discoveries : Alive(d) /\ Alive(e) => d = e

(* Rows carry stamps that were taken; the account summary is always there. *)
RowsArePast == \A r \in Resources : inv[r].stamp <= clock
SummaryStays == \A r \in Resources : ServiceOf[r] = "IAM" => cloud[r] # "absent"

Between(d) == disc[d].pc \in {"listing", "persisting", "finishing"}

(* Rows with a discovery's stamp were listed by it, what it has to upsert  *)
(* was listed, and only a scope it has come to lists anything.             *)
ListedSoFar(d) ==
  /\ disc[d].pc # "persisting" => disc[d].todo = {}
  /\ \A r \in Resources : inv[r].stamp <= disc[d].stamp
  /\ \A r \in Resources : inv[r].stamp = disc[d].stamp => r \in disc[d].listed
  /\ \A item \in disc[d].todo : item[1] \in disc[d].listed
  /\ \A r \in disc[d].listed : \E i \in 1..Len(Scopes(d)) :
       /\ Lists(Scopes(d)[i], r)
       /\ i < disc[d].pos \/ (i = disc[d].pos /\ disc[d].pc = "persisting")

(* What was listed, in the scope at work or with no scope failed, is still *)
(* to be upserted or active under the stamp of this discovery.             *)
Upserted(d, r) ==
  \/ \E p \in Postures : <<r, p>> \in disc[d].todo
  \/ inv[r].status = "ACTIVE" /\ inv[r].stamp = disc[d].stamp
ListedIsKept(d) ==
  \A r \in disc[d].listed :
    \/ disc[d].failed = {}
    \/ disc[d].pc = "persisting" /\ Lists(Scope(d), r)
    => Upserted(d, r)

(* With no scope failed, what a finished scope marks is listed or stale.   *)
UnlistedIsStale(d) ==
  disc[d].failed = {} =>
    \A r \in Resources : \A i \in 1..Len(Scopes(d)) :
      i < disc[d].pos /\ MarksStale(Scopes(d)[i], r) =>
        r \in disc[d].listed \/ inv[r].status # "ACTIVE"

(* The scope that lists the account summary finds it.                      *)
SummaryIsListed(d) ==
  disc[d].pc = "persisting" =>
    \A r \in Resources : ServiceOf[r] = "IAM" /\ Lists(Scope(d), r) => r \in disc[d].listed

Discovering(d) ==
  /\ disc[d].pc = "regions" => /\ disc[d].pos = 1 /\ disc[d].failed = {}
  /\ Between(d) => /\ ListedSoFar(d) /\ ListedIsKept(d)
                   /\ UnlistedIsStale(d) /\ SummaryIsListed(d)

InventoryInv ==
  /\ InvTypeOK /\ OneAtATime /\ RowsArePast /\ SummaryStays
  /\ \A d \in Discoveries : Discovering(d)

LEMMA InventoryInvInit == InvInit => InventoryInv
<1> SUFFICES ASSUME InvInit PROVE InventoryInv
  OBVIOUS
<1>1. InvTypeOK
  BY InventoryTypeInit
<1>2. \A d \in Discoveries : disc[d].pc = "new"
  BY DEF InvInit, NoRun, Bare, Run
<1>3. OneAtATime /\ \A d \in Discoveries : Discovering(d)
  BY <1>2 DEF OneAtATime, Alive, Discovering, Between
<1>4. RowsArePast /\ SummaryStays
  BY DEF InvInit, RowsArePast, SummaryStays
<1> QED
  BY <1>1, <1>3, <1>4 DEF InventoryInv

(* A discovery whose run is not written is not disturbed if the inventory  *)
(* is not either, or if it is not under way.                               *)
LEMMA Undisturbed ==
  ASSUME NEW e \in Discoveries, Discovering(e), inv' = inv \/ ~Alive(e),
         disc'[e].pc = disc[e].pc, disc'[e].stamp = disc[e].stamp,
         disc'[e].regions = disc[e].regions, disc'[e].pos = disc[e].pos,
         disc'[e].todo = disc[e].todo, disc'[e].listed = disc[e].listed,
         disc'[e].failed = disc[e].failed
  PROVE  Discovering(e)'
<1>1. CASE ~Alive(e)
  BY <1>1 DEF Alive, Discovering, Between
<1>2. Scopes(e)' = Scopes(e)
  BY DEF Scopes
<1>3. CASE inv' = inv
  <2>1. CASE ~Between(e)
    BY <2>1 DEF Discovering, Between
  <2>2. CASE Between(e)
    <3>1. ListedSoFar(e)'
      BY <1>3, <1>2, <2>2 DEF Discovering, ListedSoFar
    <3>2. ListedIsKept(e)'
      BY <1>3, <1>2, <2>2 DEF Discovering, ListedIsKept, Upserted, Scope
    <3>3. UnlistedIsStale(e)'
      BY <1>3, <1>2, <2>2 DEF Discovering, UnlistedIsStale
    <3>4. SummaryIsListed(e)'
      BY <1>3, <1>2, <2>2 DEF Discovering, SummaryIsListed, Scope
    <3> QED
      BY <2>2, <3>1, <3>2, <3>3, <3>4 DEF Discovering, Between
  <2> QED
    BY <2>1, <2>2
<1> QED
  BY <1>1, <1>3

(* The steps of a discovery, one by one; its run is all that changes of    *)
(* disc.                                                                   *)
LEMMA DiscoveringListRegions ==
  ASSUME InventoryInv, NEW d \in Discoveries, ListRegions(d)
  PROVE  Discovering(d)'
<1>1. /\ disc[d].pc = "regions" /\ disc[d].pos = 1 /\ disc[d].failed = {}
      /\ clock \in Nat /\ clock' = clock + 1 /\ inv' = inv
      /\ \A r \in Resources : inv[r].stamp <= clock /\ inv[r].stamp \in Nat
      /\ disc \in [Discoveries -> RunRecord]
  BY TypeByParts DEF InventoryInv, Discovering, ListRegions, RowsArePast
<1>2. PICK R \in SUBSET Regions :
        disc'[d] = Run(disc[d].status, "listing", clock + 1, R, 1, {}, {}, {})
  BY <1>1 DEF ListRegions, SetRun
<1>3. /\ disc'[d].pc = "listing" /\ disc'[d].stamp = clock + 1 /\ disc'[d].pos = 1
      /\ disc'[d].todo = {} /\ disc'[d].listed = {} /\ disc'[d].failed = {}
  BY <1>2 DEF Run
<1>4. Len(Scopes(d)') \in Nat
  <2>1. disc'[d].regions = R
    BY <1>2 DEF Run
  <2> QED
    BY <2>1, ScopesDistinct DEF Scopes
<1>5. ListedSoFar(d)'
  BY <1>1, <1>3 DEF ListedSoFar
<1>6. ListedIsKept(d)' /\ UnlistedIsStale(d)' /\ SummaryIsListed(d)'
  BY <1>1, <1>3, <1>4 DEF ListedIsKept, UnlistedIsStale, SummaryIsListed
<1> QED
  BY <1>3, <1>5, <1>6 DEF Discovering, Between

LEMMA DiscoveringListScope ==
  ASSUME InventoryInv, NEW d \in Discoveries, ListScope(d)
  PROVE  Discovering(d)'
<1> DEFINE found == {r \in Resources : Lists(Scope(d), r) /\ cloud[r] # "absent"}
<1>1. /\ disc[d].pc = "listing" /\ ListedSoFar(d) /\ ListedIsKept(d)
      /\ UnlistedIsStale(d) /\ SummaryIsListed(d) /\ inv' = inv
      /\ disc[d] \in RunRecord /\ disc \in [Discoveries -> RunRecord] /\ SummaryStays
      /\ cloud \in [Resources -> Postures \union {"absent"}]
  BY TypeByParts DEF InventoryInv, Discovering, ListScope, Between
<1>2. disc'[d] = Run(disc[d].status, "persisting", disc[d].stamp, disc[d].regions,
                     disc[d].pos, {<<r, cloud[r]>> : r \in found},
                     disc[d].listed \union found, disc[d].failed)
  BY <1>1 DEF ListScope, Continue, SetRun
<1>3. /\ disc'[d].pc = "persisting" /\ disc'[d].stamp = disc[d].stamp
      /\ disc'[d].pos = disc[d].pos /\ disc'[d].todo = {<<r, cloud[r]>> : r \in found}
      /\ disc'[d].listed = disc[d].listed \union found /\ disc'[d].failed = disc[d].failed
      /\ Scopes(d)' = Scopes(d)
  BY <1>2 DEF Run, Scopes
<1>4. /\ Len(Scopes(d)) \in Nat
      /\ \A i \in 1..Len(Scopes(d)) : Scopes(d)[i] \in Names
      /\ \A i, j \in 1..Len(Scopes(d)) : Scopes(d)[i] = Scopes(d)[j] => i = j
      /\ disc[d].pos \in 1..Len(Scopes(d))
  BY <1>1, ScopesOfRun DEF InventoryInv
<1>5. /\ Scope(d) \in Names /\ disc[d].listed \in SUBSET Resources /\ disc[d].todo = {}
  BY <1>1, <1>4, RunFields DEF Scope, ListedSoFar
<1>6. ListedSoFar(d)'
  <2>1. \A r \in found : Lists(Scopes(d)[disc[d].pos], r)
    BY DEF Scope
  <2>2. \A r \in disc'[d].listed : \E i \in 1..Len(Scopes(d)) :
          /\ Lists(Scopes(d)[i], r)
          /\ i < disc'[d].pos \/ (i = disc'[d].pos /\ disc'[d].pc = "persisting")
    BY <1>1, <1>3, <1>4, <2>1 DEF ListedSoFar
  <2>3. \A item \in disc'[d].todo : item[1] \in disc'[d].listed
    BY <1>3
  <2> QED
    BY <1>1, <1>3, <2>2, <2>3 DEF ListedSoFar
<1>7. ListedIsKept(d)'
  <2> SUFFICES ASSUME NEW r \in disc'[d].listed,
                      disc[d].failed = {} \/ Lists(Scope(d), r)
               PROVE  \/ \E p \in Postures : <<r, p>> \in disc'[d].todo
                      \/ inv[r].status = "ACTIVE" /\ inv[r].stamp = disc[d].stamp
    BY <1>1, <1>3 DEF ListedIsKept, Upserted, Scope
  <2>1. CASE r \in found
    <3>1. <<r, cloud[r]>> \in disc'[d].todo
      BY <2>1, <1>3
    <3>2. cloud[r] \in Postures
      BY <2>1, <1>1
    <3> QED
      BY <3>1, <3>2
  <2>2. CASE r \notin found
    <3>1. r \in disc[d].listed
      BY <2>2, <1>3
    <3>2. CASE disc[d].failed = {}
      BY <3>1, <3>2, <1>1, <1>5 DEF ListedIsKept, Upserted
    <3>3. CASE Lists(Scope(d), r)
      <4>1. PICK i \in 1..Len(Scopes(d)) : Lists(Scopes(d)[i], r) /\ i < disc[d].pos
        BY <3>1, <1>1 DEF ListedSoFar
      <4>2. Scopes(d)[i] = Scope(d)
        BY <4>1, <3>1, <3>3, <1>5, <1>4, ScopesOfResources
      <4> QED
        BY <4>1, <4>2, <1>4 DEF Scope
    <3> QED
      BY <3>2, <3>3
  <2> QED
    BY <2>1, <2>2
<1>8. UnlistedIsStale(d)'
  BY <1>1, <1>3 DEF UnlistedIsStale
<1>9. SummaryIsListed(d)'
  BY <1>1, <1>3 DEF SummaryIsListed, SummaryStays, Scope
<1> QED
  BY <1>3, <1>6, <1>7, <1>8, <1>9 DEF Discovering, Between

LEMMA DiscoveringPersistResource ==
  ASSUME InventoryInv, NEW d \in Discoveries, PersistResource(d)
  PROVE  Discovering(d)'
<1>1. /\ disc[d].pc = "persisting" /\ ListedSoFar(d) /\ ListedIsKept(d)
      /\ UnlistedIsStale(d) /\ SummaryIsListed(d)
      /\ disc[d] \in RunRecord /\ disc \in [Discoveries -> RunRecord]
      /\ inv \in [Resources -> [status: {"NONE", "ACTIVE", "STALE"}, stamp: Nat,
                                posture: Postures]]
  BY TypeByParts DEF InventoryInv, Discovering, PersistResource, Between
<1>2. PICK item \in disc[d].todo :
        /\ inv' = [inv EXCEPT ![item[1]] = [status |-> "ACTIVE", stamp |-> disc[d].stamp,
                                           posture |-> item[2]]]
        /\ Continue(d, "persisting", disc[d].stamp, disc[d].todo \ {item}, disc[d].listed)
  BY DEF PersistResource
<1>3. /\ disc'[d].pc = "persisting" /\ disc'[d].stamp = disc[d].stamp
      /\ disc'[d].pos = disc[d].pos /\ disc'[d].todo = disc[d].todo \ {item}
      /\ disc'[d].listed = disc[d].listed /\ disc'[d].failed = disc[d].failed
      /\ Scopes(d)' = Scopes(d)
  BY <1>1, <1>2 DEF Continue, SetRun, Run, Scopes
<1>4. item \in Resources \X Postures /\ disc[d].stamp \in Nat
      /\ disc[d].listed \in SUBSET Resources
  BY <1>1, <1>2, RunFields
<1>5. \A r \in Resources :
        inv'[r] = IF r = item[1] THEN [status |-> "ACTIVE", stamp |-> disc[d].stamp,
                                       posture |-> item[2]]
                  ELSE inv[r]
  BY <1>1, <1>2, <1>4
<1>6. item[1] \in disc[d].listed
  BY <1>1, <1>2 DEF ListedSoFar
<1>7. ListedSoFar(d)'
  <2>1. /\ \A r \in Resources : inv'[r].stamp <= disc[d].stamp
        /\ \A r \in Resources : inv'[r].stamp = disc[d].stamp => r \in disc[d].listed
    <3> SUFFICES ASSUME NEW r \in Resources
                 PROVE  /\ inv'[r].stamp <= disc[d].stamp
                        /\ inv'[r].stamp = disc[d].stamp => r \in disc[d].listed
      OBVIOUS
    <3>1. CASE r = item[1]
      BY <3>1, <1>4, <1>5, <1>6
    <3>2. CASE r # item[1]
      BY <3>2, <1>1, <1>5 DEF ListedSoFar
    <3> QED
      BY <3>1, <3>2
  <2>2. \A i \in disc[d].todo \ {item} : i[1] \in disc[d].listed
    BY <1>1 DEF ListedSoFar
  <2>3. \A r \in disc[d].listed : \E i \in 1..Len(Scopes(d)) :
          Lists(Scopes(d)[i], r) /\ (i < disc[d].pos \/ i = disc[d].pos)
    BY <1>1 DEF ListedSoFar
  <2> QED
    BY <2>1, <2>2, <2>3, <1>3 DEF ListedSoFar
<1>8. ListedIsKept(d)'
  <2> SUFFICES ASSUME NEW r \in disc[d].listed, Upserted(d, r)
               PROVE  \/ \E p \in Postures : <<r, p>> \in disc'[d].todo
                      \/ inv'[r].status = "ACTIVE" /\ inv'[r].stamp = disc[d].stamp
    BY <1>1, <1>3 DEF ListedIsKept, Upserted, Scope
  <2>1. CASE r = item[1]
    BY <2>1, <1>4, <1>5
  <2>2. CASE r # item[1]
    BY <2>2, <1>3, <1>4, <1>5 DEF Upserted
  <2> QED
    BY <2>1, <2>2
<1>9. UnlistedIsStale(d)'
  BY <1>1, <1>3, <1>5, <1>6 DEF UnlistedIsStale
<1>10. SummaryIsListed(d)'
  BY <1>1, <1>3 DEF SummaryIsListed, Scope
<1> QED
  BY <1>3, <1>7, <1>8, <1>9, <1>10 DEF Discovering, Between

(* A scope ends with its rows marked or with an error.                     *)
LEMMA DiscoveringNextScope ==
  ASSUME InventoryInv, NEW d \in Discoveries, MarkStale(d) \/ ScopeFails(d)
  PROVE  Discovering(d)'
<1>1. /\ disc[d].pc \in {"listing", "persisting"} /\ ListedSoFar(d) /\ ListedIsKept(d)
      /\ UnlistedIsStale(d)
      /\ disc[d] \in RunRecord /\ disc \in [Discoveries -> RunRecord]
      /\ inv \in [Resources -> [status: {"NONE", "ACTIVE", "STALE"}, stamp: Nat,
                                posture: Postures]]
  BY TypeByParts DEF InventoryInv, Discovering, MarkStale, ScopeFails, Between
<1>2. PICK f \in {{}, {Scope(d)}} : NextScope(d, f) /\ (f = {} => MarkStale(d))
  BY DEF MarkStale, ScopeFails
<1>3. /\ disc'[d].pc \in {"finishing", "listing"} /\ disc'[d].stamp = disc[d].stamp
      /\ disc'[d].pos = disc[d].pos + 1 /\ disc'[d].todo = {}
      /\ disc'[d].listed = disc[d].listed /\ disc'[d].failed = disc[d].failed \union f
      /\ Scopes(d)' = Scopes(d)
  BY <1>1, <1>2 DEF NextScope, SetRun, Run, Scopes
<1>4. /\ disc[d].pos \in 1..Len(Scopes(d)) /\ Len(Scopes(d)) \in Nat
      /\ disc[d].listed \in SUBSET Resources /\ disc[d].stamp \in Nat
  BY <1>1, RunFields, ScopesOfRun DEF InventoryInv
<1>5. \A r \in Resources :
        /\ inv'[r].stamp = inv[r].stamp
        /\ inv'[r].status # inv[r].status => inv'[r].status = "STALE" /\ Marked(d, r)
  BY <1>1 DEF MarkStale, ScopeFails, Staled
<1>6. ListedSoFar(d)'
  <2>1. \A r \in disc[d].listed : \E i \in 1..Len(Scopes(d)) :
          Lists(Scopes(d)[i], r) /\ i < disc[d].pos + 1
    BY <1>1, <1>4 DEF ListedSoFar
  <2> QED
    BY <2>1, <1>1, <1>3, <1>5 DEF ListedSoFar
<1>7. CASE f = {}
  <2>1. MarkStale(d) /\ disc[d].pc = "persisting" /\ disc[d].todo = {}
    BY <1>2, <1>7 DEF MarkStale
  <2>2. ListedIsKept(d)'
    <3> SUFFICES ASSUME NEW r \in disc[d].listed, disc[d].failed = {}
                 PROVE  inv'[r].status = "ACTIVE" /\ inv'[r].stamp = disc[d].stamp
      BY <1>3, <1>7 DEF ListedIsKept, Upserted
    <3>1. inv[r].status = "ACTIVE" /\ inv[r].stamp = disc[d].stamp
      BY <1>1, <2>1 DEF ListedIsKept, Upserted
    <3> QED
      BY <3>1, <1>4, <1>5 DEF Marked
  <2>3. UnlistedIsStale(d)'
    <3> SUFFICES ASSUME disc[d].failed = {}, NEW r \in Resources, NEW i \in 1..Len(Scopes(d)),
                        i < disc[d].pos + 1, MarksStale(Scopes(d)[i], r),
                        inv'[r].status = "ACTIVE"
                 PROVE  r \in disc[d].listed
      BY <1>3, <1>7 DEF UnlistedIsStale
    <3>1. inv[r].status = "ACTIVE"
      BY <1>5
    <3>2. CASE i < disc[d].pos
      BY <3>1, <3>2, <1>1 DEF UnlistedIsStale
    <3>3. CASE i = disc[d].pos
      <4>1. ~Marked(d, r)
        BY <3>1, <2>1, <1>1 DEF MarkStale, Staled
      <4>2. ~(inv[r].stamp < disc[d].stamp)
        BY <4>1, <3>3 DEF Marked, Scope
      <4>3. inv[r].stamp \in Nat /\ inv[r].stamp <= disc[d].stamp
        BY <1>1 DEF ListedSoFar
      <4>4. inv[r].stamp = disc[d].stamp
        BY <4>2, <4>3, <1>4
      <4> QED
        BY <4>4, <1>1 DEF ListedSoFar
    <3> QED
      BY <3>2, <3>3, <1>4
  <2> QED
    BY <2>2, <2>3, <1>3, <1>6 DEF Discovering, Between, SummaryIsListed
<1>8. CASE f # {}
  BY <1>3, <1>6, <1>8 DEF Discovering, Between, ListedIsKept, UnlistedIsStale, SummaryIsListed
<1> QED
  BY <1>7, <1>8

LEMMA InventoryInvStep ==
  ASSUME "overlap" \notin Environment, InventoryInv, [InvNext]_invVars
  PROVE  InventoryInv'
<1>1. InvTypeOK'
  BY InventoryTypeStep DEF InventoryInv
<1>2. /\ OneAtATime /\ RowsArePast /\ SummaryStays
      /\ \A d \in Discoveries : Discovering(d)
      /\ clock \in Nat /\ disc \in [Discoveries -> RunRecord]
      /\ cloud \in [Resources -> Postures \union {"absent"}]
      /\ inv \in [Resources -> [status: {"NONE", "ACTIVE", "STALE"}, stamp: Nat,
                                posture: Postures]]
      /\ \A d \in Discoveries : disc[d].stamp <= clock /\ disc[d].stamp \in Nat
  BY TypeByParts, RunFields DEF InventoryInv
<1> DEFINE Others == RowsArePast' /\ SummaryStays' /\ OneAtATime'
<1>3. SUFFICES Others /\ \A d \in Discoveries : Discovering(d)'
  BY <1>1 DEF InventoryInv
(* Whoever is alive after a step that starts no discovery was so before.   *)
<1>4. ASSUME \A e \in Discoveries : Alive(e)' => Alive(e)
      PROVE  OneAtATime'
  BY <1>2, <1>4 DEF OneAtATime
(* A step of d's own that keeps the other runs.                            *)
<1>5. ASSUME NEW d \in Discoveries, Alive(d), NEW run, SetRun(d, run), Discovering(d)',
             RowsArePast', UNCHANGED cloud
      PROVE  Others /\ \A e \in Discoveries : Discovering(e)'
  <2>1. \A e \in Discoveries : e # d => ~Alive(e) /\ disc'[e] = disc[e]
    BY <1>2, <1>5 DEF OneAtATime, SetRun
  <2>2. \A e \in Discoveries : Discovering(e)'
    BY <2>1, <1>2, <1>5, Undisturbed
  <2>3. \A e \in Discoveries : Alive(e)' => Alive(e)
    BY <2>1, <1>5 DEF Alive
  <2>4. SummaryStays'
    BY <1>2, <1>5 DEF SummaryStays
  <2> QED
    BY <2>2, <2>3, <2>4, <1>4, <1>5
(* A run that ends, or begins, holds nothing.                              *)
<1>6. ASSUME NEW d \in Discoveries, NEW status, NEW pc \in {"regions", "auditing", "done", "dead"},
             SetRun(d, Bare(status, pc))
      PROVE  Discovering(d)'
  <2>1. disc'[d].pc = pc /\ disc'[d].pos = 1 /\ disc'[d].failed = {}
    BY <1>2, <1>6 DEF SetRun, Bare, Run
  <2> QED
    BY <2>1 DEF Discovering, Between
<1>7. ASSUME UNCHANGED <<clock, inv>> PROVE RowsArePast'
  BY <1>2, <1>7 DEF RowsArePast
<1>8. ASSUME NEW d \in Discoveries, StartDiscovery(d)
      PROVE  Others /\ \A e \in Discoveries : Discovering(e)'
  <2>1. (\A e \in Discoveries : ~Alive(e)) /\ SetRun(d, Bare("RUNNING", "regions"))
        /\ UNCHANGED <<cloud, clock, inv>>
    BY <1>8 DEF StartDiscovery
  <2>2. \A e \in Discoveries \ {d} : disc'[e] = disc[e] /\ ~Alive(e)'
    BY <2>1, <1>2 DEF SetRun, Alive
  <2>3. \A e \in Discoveries \ {d} : Discovering(e)'
    BY <2>1, <2>2, <1>2, Undisturbed
  <2>4. Discovering(d)'
    BY <2>1, <1>6
  <2>5. OneAtATime'
    BY <2>2 DEF OneAtATime
  <2>6. SummaryStays' /\ RowsArePast'
    BY <2>1, <1>2, <1>7 DEF SummaryStays
  <2> QED
    BY <2>3, <2>4, <2>5, <2>6
<1>9. ASSUME NEW d \in Discoveries, ListRegions(d)
      PROVE  Others /\ \A e \in Discoveries : Discovering(e)'
  <2>1. Discovering(d)'
    BY <1>9, DiscoveringListRegions
  <2>2. RowsArePast'
    BY <1>2, <1>9 DEF RowsArePast, ListRegions
  <2>3. Alive(d) /\ \E run : SetRun(d, run)
    BY <1>9 DEF ListRegions, Continue, Alive
  <2> QED
    BY <2>1, <2>2, <2>3, <1>5, <1>9 DEF ListRegions
<1>10. ASSUME NEW d \in Discoveries, ListScope(d)
       PROVE  Others /\ \A e \in Discoveries : Discovering(e)'
  <2>1. Discovering(d)'
    BY <1>10, DiscoveringListScope
  <2>2. Alive(d) /\ \E run : SetRun(d, run)
    BY <1>10 DEF ListScope, Continue, Alive
  <2> QED
    BY <2>1, <2>2, <1>5, <1>7, <1>10 DEF ListScope
<1>11. ASSUME NEW d \in Discoveries, PersistResource(d)
       PROVE  Others /\ \A e \in Discoveries : Discovering(e)'
  <2>1. Discovering(d)'
    BY <1>11, DiscoveringPersistResource
  <2>2. PICK item \in disc[d].todo :
          inv' = [inv EXCEPT ![item[1]] = [status |-> "ACTIVE", stamp |-> disc[d].stamp,
                                           posture |-> item[2]]]
    BY <1>11 DEF PersistResource
  <2>3. RowsArePast'
    BY <2>2, <1>2, <1>11 DEF RowsArePast, PersistResource
  <2>4. Alive(d) /\ \E run : SetRun(d, run)
    BY <1>11 DEF PersistResource, Continue, Alive
  <2> QED
    BY <2>1, <2>3, <2>4, <1>5, <1>11 DEF PersistResource
<1>12. ASSUME NEW d \in Discoveries, MarkStale(d) \/ ScopeFails(d)
       PROVE  Others /\ \A e \in Discoveries : Discovering(e)'
  <2>1. Discovering(d)'
    BY <1>12, DiscoveringNextScope
  <2>2. RowsArePast'
    BY <1>2, <1>12 DEF RowsArePast, MarkStale, ScopeFails, Staled
  <2>3. Alive(d) /\ \E run : SetRun(d, run)
    BY <1>12 DEF MarkStale, ScopeFails, NextScope, Alive
  <2> QED
    BY <2>1, <2>2, <2>3, <1>5, <1>12 DEF MarkStale, ScopeFails
<1>13. ASSUME NEW d \in Discoveries,
              FinishDiscovery(d) \/ DiscoveryAudited(d) \/ DiscoveryFails(d) \/ DiscoveryDies(d)
       PROVE  Others /\ \A e \in Discoveries : Discovering(e)'
  <2>1. Alive(d) /\ UNCHANGED <<cloud, clock, inv>>
    BY <1>13 DEF FinishDiscovery, DiscoveryAudited, DiscoveryFails, DiscoveryDies, Alive
  <2>2. \E status, pc : pc \in {"auditing", "done", "dead"} /\ SetRun(d, Bare(status, pc))
    BY <1>13 DEF FinishDiscovery, DiscoveryAudited, DiscoveryFails, DiscoveryDies
  <2>3. Discovering(d)'
    BY <2>2, <1>6
  <2> QED
    BY <2>1, <2>2, <2>3, <1>5, <1>7
<1>14. ASSUME RecoverStaleRuns \/ UNCHANGED invVars \/ \E r \in Resources : CloudChanges(r)
       PROVE  Others /\ \A e \in Discoveries : Discovering(e)'
  <2>1. UNCHANGED <<clock, inv>>
    BY <1>14 DEF RecoverStaleRuns, CloudChanges, invVars
  <2>2. \A e \in Discoveries :
          /\ disc'[e].pc = disc[e].pc /\ disc'[e].stamp = disc[e].stamp
          /\ disc'[e].regions = disc[e].regions /\ disc'[e].pos = disc[e].pos /\ disc'[e].todo = disc[e].todo
          /\ disc'[e].listed = disc[e].listed /\ disc'[e].failed = disc[e].failed
    BY <1>2, <1>14 DEF RecoverStaleRuns, CloudChanges, invVars, Failed, Run
  <2>3. \A e \in Discoveries : Discovering(e)'
    BY <2>1, <2>2, <1>2, Undisturbed
  <2>4. OneAtATime'
    BY <2>2, <1>4 DEF Alive
  <2>5. SummaryStays'
    <3>1. CASE cloud' = cloud
      BY <3>1, <1>2 DEF SummaryStays
    <3>2. ASSUME NEW r \in Resources, CloudChanges(r) PROVE SummaryStays'
      <4>1. PICK p : /\ p \in PosturesOf[r] \/ (p = "absent" /\ ServiceOf[r] # "IAM")
                     /\ cloud' = [cloud EXCEPT ![r] = p]
        BY <3>2 DEF CloudChanges
      <4>2. p = "absent" => ServiceOf[r] # "IAM"
        BY <4>1, InventoryAssumption DEF Postures
      <4> QED
        BY <4>1, <4>2, <1>2 DEF SummaryStays
    <3> QED
      BY <3>1, <3>2, <1>14 DEF RecoverStaleRuns, invVars
  <2> QED
    BY <2>1, <2>3, <2>4, <2>5, <1>7
<1> QED
  BY <1>8, <1>9, <1>10, <1>11, <1>12, <1>13, <1>14 DEF InvNext

LEMMA InventoryInvHolds ==
  ASSUME "overlap" \notin Environment
  PROVE  InvSpec => []InventoryInv
<1>1. InventoryInv /\ [InvNext]_invVars => InventoryInv'
  BY InventoryInvStep
<1> QED
  BY InventoryInvInit, <1>1, PTL DEF InvSpec

-----------------------------------------------------------------------------
(* A discovery without errors leaves active what it listed, and within its *)
(* reach nothing else, while discoveries do not overlap.                   *)
LEMMA ExactAtTheEnd == InventoryInv => CompletedDiscoveryIsExact
<1> SUFFICES ASSUME InventoryInv, NEW d \in Discoveries, disc[d].pc = "finishing",
                    disc[d].failed = {}, NEW r \in Resources
             PROVE  /\ r \in disc[d].listed => inv[r].status = "ACTIVE"
                    /\ WithinReach(d, r) /\ inv[r].status = "ACTIVE" => r \in disc[d].listed
  BY DEF CompletedDiscoveryIsExact
<1>1. ListedSoFar(d) /\ ListedIsKept(d) /\ UnlistedIsStale(d)
  BY DEF InventoryInv, Discovering, Between
<1>2. r \in disc[d].listed => inv[r].status = "ACTIVE"
  BY <1>1 DEF ListedSoFar, ListedIsKept, Upserted
<1>3. ASSUME WithinReach(d, r), inv[r].status = "ACTIVE"
      PROVE  r \in disc[d].listed
  <2>1. PICK g \in ToSet(Scopes(d)) : MarksStale(g, r)
    BY <1>3 DEF WithinReach
  <2>2. disc[d].regions \in SUBSET Regions
    BY TypeByParts, RunFields DEF InventoryInv
  <2>3. PICK i \in 1..Len(Scopes(d)) : Scopes(d)[i] = g
    BY <2>2, ScopesDistinct DEF Scopes
  <2>4. i < disc[d].pos
    BY ScopesOfRun DEF InventoryInv
  <2> QED
    BY <2>1, <2>3, <2>4, <1>1, <1>3 DEF UnlistedIsStale
<1> QED
  BY <1>2, <1>3

(* After a discovery without errors what it listed is active, and in the    *)
(* regions that AWS named to it nothing else is, whichever regions those    *)
(* were and wherever the resources lie, as long as discoveries of the       *)
(* account do not overlap.                                                  *)
THEOREM CompletedDiscoveryIsExactHolds ==
  ASSUME "overlap" \notin Environment
  PROVE  InvSpec => []CompletedDiscoveryIsExact
  BY InventoryInvHolds, ExactAtTheEnd, PTL

(* Nothing but a bucket goes stale that its own scope did not miss.        *)
LEMMA StaleStep ==
  ASSUME InventoryInv, [InvNext]_invVars, NEW r \in Resources,
         inv[r].status = "ACTIVE", inv'[r].status = "STALE", ServiceOf[r] # "S3"
  PROVE  SeenAbsent(r)
<1>1. /\ inv \in [Resources -> [status: {"NONE", "ACTIVE", "STALE"}, stamp: Nat,
                                posture: Postures]]
      /\ \A d \in Discoveries : Discovering(d) /\ disc[d] \in RunRecord
  BY TypeByParts DEF InventoryInv
<1>2. PICK d \in Discoveries : PersistResource(d) \/ MarkStale(d)
  BY DEF InvNext, invVars, CloudChanges, StartDiscovery, ListRegions, ListScope, ScopeFails,
         FinishDiscovery, DiscoveryAudited, DiscoveryFails, DiscoveryDies, RecoverStaleRuns
<1>3. ~PersistResource(d)
  <2> SUFFICES ASSUME PersistResource(d) PROVE FALSE
    OBVIOUS
  <2>1. PICK item \in disc[d].todo :
          inv' = [inv EXCEPT ![item[1]] = [status |-> "ACTIVE", stamp |-> disc[d].stamp,
                                           posture |-> item[2]]]
    BY DEF PersistResource
  <2>2. inv'[r].status = "ACTIVE"
    BY <2>1, <1>1
  <2> QED
    BY <2>2
<1>4. MarkStale(d) /\ Marked(d, r)
  BY <1>1, <1>2, <1>3 DEF MarkStale
<1>5. /\ disc[d].pc = "persisting" /\ disc[d].todo = {} /\ ListedIsKept(d)
      /\ disc[d].stamp \in Nat
  BY <1>1, <1>4, RunFields DEF MarkStale, Discovering, Between
<1>6. Lists(Scope(d), r)
  <2>1. Scope(d) \in Names
    BY <1>5, ScopesOfRun DEF Scope, InventoryInv
  <2> QED
    BY <2>1, <1>4, ScopesOfResources DEF Marked
<1>7. r \notin disc[d].listed
  BY <1>1, <1>4, <1>5, <1>6 DEF ListedIsKept, Upserted, Marked
<1> QED
  BY <1>5, <1>6, <1>7 DEF SeenAbsent

(* Nothing but a bucket is marked stale unless a scope that lists it did    *)
(* not find it, under the same condition.                                   *)
THEOREM OnlyBucketsGoStaleUnseenHolds ==
  ASSUME "overlap" \notin Environment
  PROVE  InvSpec => OnlyBucketsGoStaleUnseen
<1>1. InventoryInv /\ [InvNext]_invVars =>
        [\A r \in Resources : inv[r].status = "ACTIVE" /\ inv'[r].status = "STALE" =>
           SeenAbsent(r) \/ ServiceOf[r] = "S3"]_inv
  BY StaleStep
<1> QED
  BY InventoryInvHolds, <1>1, PTL DEF InvSpec, OnlyBucketsGoStaleUnseen

-----------------------------------------------------------------------------
(* The outcome of a discovery, as long as none outlives recoverStaleRuns:  *)
(* whatever is not yet settled counts as running, overlapping or not.      *)
UnsettledRuns ==
  \A d \in Discoveries :
    /\ disc[d].pc \in {"regions", "listing", "persisting", "finishing"} =>
         disc[d].status = "RUNNING"
    /\ disc[d].pc = "new" => disc[d].status = "NONE"

LEMMA OutcomeStep ==
  ASSUME "slow" \notin Environment, InvTypeOK, UnsettledRuns, [InvNext]_invVars
  PROVE  /\ UnsettledRuns'
         /\ \A d \in Discoveries :
              disc[d].status \in {"COMPLETED", "PARTIAL", "FAILED"} =>
                \/ disc'[d].status = disc[d].status
                \/ disc[d].pc = "auditing" /\ disc'[d].status = "FAILED"
<1> DEFINE Kept(d) == disc[d].status \in {"COMPLETED", "PARTIAL", "FAILED"} =>
                        \/ disc'[d].status = disc[d].status
                        \/ disc[d].pc = "auditing" /\ disc'[d].status = "FAILED"
           Good(status, pc) ==
             /\ pc \in {"regions", "listing", "persisting", "finishing"} => status = "RUNNING"
             /\ pc = "new" => status = "NONE"
<1>1. /\ disc \in [Discoveries -> RunRecord]
      /\ \A d \in Discoveries : Good(disc[d].status, disc[d].pc)
  BY TypeByParts DEF UnsettledRuns
<1>2. SUFFICES \A d \in Discoveries : Kept(d) /\ Good(disc'[d].status, disc'[d].pc)
  BY DEF UnsettledRuns
<1>3. ASSUME NEW d \in Discoveries, NEW run, SetRun(d, run), Good(run.status, run.pc),
             run.status = disc[d].status \/ disc[d].status \in {"NONE", "RUNNING"}
               \/ (disc[d].pc = "auditing" /\ run.status = "FAILED")
      PROVE  \A e \in Discoveries : Kept(e) /\ Good(disc'[e].status, disc'[e].pc)
  <2>1. \A e \in Discoveries : disc'[e] = IF e = d THEN run ELSE disc[e]
    BY <1>1, <1>3 DEF SetRun
  <2> QED
    BY <2>1, <1>1, <1>3
<1>4. ASSUME UNCHANGED disc
      PROVE  \A e \in Discoveries : Kept(e) /\ Good(disc'[e].status, disc'[e].pc)
  BY <1>1, <1>4
<1>5. ASSUME NEW d \in Discoveries, ListRegions(d) \/ ListScope(d) \/ PersistResource(d)
      PROVE  \A e \in Discoveries : Kept(e) /\ Good(disc'[e].status, disc'[e].pc)
  <2>1. PICK run : /\ SetRun(d, run) /\ run.status = disc[d].status
                   /\ run.pc \in {"listing", "persisting"}
    <3>1. CASE ListRegions(d)
      BY <3>1 DEF ListRegions, Run
    <3>2. CASE ListScope(d)
      BY <3>2 DEF ListScope, Continue, Run
    <3>3. CASE PersistResource(d)
      BY <3>3 DEF PersistResource, Continue, Run
    <3> QED
      BY <1>5, <3>1, <3>2, <3>3
  <2>2. Good(run.status, run.pc)
    BY <2>1, <1>1, <1>5 DEF ListRegions, ListScope, PersistResource
  <2> QED
    BY <2>1, <2>2, <1>3
<1>6. ASSUME NEW d \in Discoveries, NEW failed, NextScope(d, failed),
             disc[d].pc \in {"listing", "persisting"}
      PROVE  \A e \in Discoveries : Kept(e) /\ Good(disc'[e].status, disc'[e].pc)
  <2>1. PICK run : /\ SetRun(d, run) /\ run.status = disc[d].status
                   /\ run.pc \in {"listing", "finishing"}
    BY <1>6 DEF NextScope, Run
  <2>2. Good(run.status, run.pc)
    BY <2>1, <1>1, <1>6
  <2> QED
    BY <2>1, <2>2, <1>3
<1>7. ASSUME NEW d \in Discoveries, NEW status, NEW pc, SetRun(d, Bare(status, pc)),
             Good(status, pc),
             status = disc[d].status \/ disc[d].status \in {"NONE", "RUNNING"}
               \/ (disc[d].pc = "auditing" /\ status = "FAILED")
      PROVE  \A e \in Discoveries : Kept(e) /\ Good(disc'[e].status, disc'[e].pc)
  <2> DEFINE run == Bare(status, pc)
  <2>1. run.status = status /\ run.pc = pc
    BY DEF Bare, Run
  <2> HIDE DEF run
  <2> QED
    BY <2>1, <1>3, <1>7 DEF run
<1>8. ASSUME NEW d \in Discoveries,
             StartDiscovery(d) \/ FinishDiscovery(d) \/ DiscoveryAudited(d)
               \/ DiscoveryFails(d) \/ DiscoveryDies(d)
      PROVE  \A e \in Discoveries : Kept(e) /\ Good(disc'[e].status, disc'[e].pc)
  <2>1. CASE StartDiscovery(d)
    <3>1. disc[d].status = "NONE"
      BY <2>1 DEF StartDiscovery, NoRun, Bare, Run
    <3> QED
      BY <2>1, <3>1, <1>7 DEF StartDiscovery
  <2>2. CASE FinishDiscovery(d)
    BY <2>2, <1>1, <1>7 DEF FinishDiscovery
  <2>3. CASE DiscoveryAudited(d)
    BY <2>3, <1>7 DEF DiscoveryAudited
  <2>4. CASE DiscoveryFails(d)
    BY <2>4, <1>1, <1>7 DEF DiscoveryFails
  <2>5. CASE DiscoveryDies(d)
    BY <2>5, <1>7 DEF DiscoveryDies
  <2> QED
    BY <1>8, <2>1, <2>2, <2>3, <2>4, <2>5
<1>9. ASSUME RecoverStaleRuns
      PROVE  \A e \in Discoveries : Kept(e) /\ Good(disc'[e].status, disc'[e].pc)
  <2> SUFFICES ASSUME NEW e \in Discoveries
               PROVE  Kept(e) /\ Good(disc'[e].status, disc'[e].pc)
    OBVIOUS
  <2>1. CASE Interrupted(e)
    <3>1. disc[e].status = "RUNNING" /\ disc[e].pc = "dead"
      BY <2>1 DEF Interrupted
    <3>2. disc'[e] = Failed(disc[e])
      BY <2>1, <1>9 DEF RecoverStaleRuns
    <3> QED
      BY <3>1, <3>2 DEF Failed, Run
  <2>2. CASE ~Interrupted(e)
    BY <2>2, <1>1, <1>9 DEF RecoverStaleRuns
  <2> QED
    BY <2>1, <2>2
<1>10. ASSUME NEW d \in Discoveries,
              ListRegions(d) \/ ListScope(d) \/ PersistResource(d) \/ MarkStale(d)
                \/ ScopeFails(d)
       PROVE  \A e \in Discoveries : Kept(e) /\ Good(disc'[e].status, disc'[e].pc)
  <2>1. CASE ListRegions(d) \/ ListScope(d) \/ PersistResource(d)
    BY <2>1, <1>5
  <2>2. CASE MarkStale(d) \/ ScopeFails(d)
    BY <2>2, <1>6 DEF MarkStale, ScopeFails
  <2> QED
    BY <1>10, <2>1, <2>2
<1>11. ASSUME UNCHANGED invVars \/ \E r \in Resources : CloudChanges(r)
       PROVE  UNCHANGED disc
  BY <1>11 DEF invVars, CloudChanges
<1> QED
  BY <1>4, <1>8, <1>9, <1>10, <1>11 DEF InvNext

(* A recorded outcome is final, unless a discovery is still alive when      *)
(* recoverStaleRuns takes it for interrupted.                               *)
THEOREM DiscoveryOutcomeStandsHolds ==
  ASSUME "slow" \notin Environment
  PROVE  InvSpec => DiscoveryOutcomeStands
<1>1. InvInit => UnsettledRuns
  BY DEF InvInit, UnsettledRuns, NoRun, Bare, Run
<1>2. InvTypeOK /\ UnsettledRuns /\ [InvNext]_invVars =>
        /\ UnsettledRuns'
        /\ [\A d \in Discoveries :
               disc[d].status \in {"COMPLETED", "PARTIAL", "FAILED"} =>
                 \/ disc'[d].status = disc[d].status
                 \/ disc[d].pc = "auditing" /\ disc'[d].status = "FAILED"]_disc
  BY OutcomeStep
<1> QED
  BY InventoryTypeCorrect, <1>1, <1>2, PTL DEF InvSpec, DiscoveryOutcomeStands
=============================================================================
