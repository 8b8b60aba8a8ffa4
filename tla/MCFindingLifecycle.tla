-------------------------- MODULE MCFindingLifecycle --------------------------
(* An account with one region, which AWS may list or not, that has a       *)
(* bucket and an instance, and the IAM account summary.  The client of     *)
(* aws.ts reports a posture that rules can judge for the summary only.     *)
EXTENDS FindingLifecycle, TLC

CONSTANTS bucket, instance, summary, east, d1, d2

Services == (bucket :> "S3") @@ (instance :> "EC2") @@ (summary :> "IAM")
Places == (bucket :> east) @@ (instance :> east) @@ (summary :> "global")
Reports == (bucket :> {"unknown"}) @@ (instance :> {"unknown"}) @@ (summary :> {"good", "bad"})

Interchangeable == Permutations({d1, d2})

(* States need not be told apart by what nothing will read again: what     *)
(* AWS holds once no discovery has still to list it, and what a scan       *)
(* remembers of resources that no rule judges, which never have a finding. *)
ToList(d, r) ==
  \/ disc[d].pc \in {"new", "regions"}
  \/ disc[d].pc \in {"listing", "persisting"} /\ r \notin disc[d].listed
Judgeable == {r \in Resources : PosturesOf[r] # {"unknown"}}
ExceptForgotten ==
  <<[r \in Resources |-> IF \E d \in Discoveries : ToList(d, r) THEN cloud[r] ELSE "absent"],
    clock, inv, disc, finding, scan.pc, [r \in Judgeable |-> scan.snapshot[r]],
    scan.violations, scan.resolvable, scan.gone, scan.known>>
=============================================================================
