-------------------------- MODULE EvidenceRetention --------------------------
(***************************************************************************)
(* What the evidence vault keeps of its promise about retention and legal  *)
(* holds (DOC/completion/M-05/retention-legal-hold.md describes the        *)
(* policy): evidence that was committed stays, with its retention, until a *)
(* deletion condemns it, which takes a moment at which its retention is    *)
(* over and no hold is flagged.  A hold that is flagged later does not     *)
(* save condemned evidence: the policy says it should.  EvidenceVault is   *)
(* shown to implement this module for any number of clients.               *)
(***************************************************************************)
EXTENDS Naturals

CONSTANTS
  EvidenceIds,  \* evidence that may be committed
  MaxTime       \* the last instant considered

VARIABLES
  clock,     \* the time
  state,     \* what became of each piece of evidence
  until,     \* its retentionUntil
  flagged,   \* evidence whose legalHoldStatus is ACTIVE
  condemned  \* evidence that a deletion under way is entitled to remove

vars == <<clock, state, until, flagged, condemned>>

Init ==
  /\ clock = 0
  /\ state = [i \in EvidenceIds |-> "ABSENT"]
  /\ until = [i \in EvidenceIds |-> 0]
  /\ flagged = {} /\ condemned = {}

Become(i, from, to) == state[i] = from /\ state' = [state EXCEPT ![i] = to]

Commit(i) ==
  /\ Become(i, "ABSENT", "KEPT")
  /\ \E t \in 0..MaxTime : until' = [until EXCEPT ![i] = t]
  /\ UNCHANGED <<clock, flagged, condemned>>

Hold(i) ==
  /\ state[i] = "KEPT"
  /\ flagged' = flagged \union {i}
  /\ UNCHANGED <<clock, state, until, condemned>>

Release(i) == flagged' = flagged \ {i} /\ UNCHANGED <<clock, state, until, condemned>>

(* Only expired evidence that nobody is known to hold.                     *)
Condemn(i) ==
  /\ state[i] = "KEPT" /\ until[i] <= clock /\ i \notin flagged
  /\ condemned' = condemned \union {i}
  /\ UNCHANGED <<clock, state, until, flagged>>

(* Deletions end without having removed anything.                          *)
Spare ==
  /\ condemned' \subseteq condemned
  /\ UNCHANGED <<clock, state, until, flagged>>

Remove(i) ==
  /\ i \in condemned
  /\ Become(i, "KEPT", "REMOVED")
  /\ until' = [until EXCEPT ![i] = 0]
  /\ flagged' = flagged \ {i} /\ condemned' = condemned \ {i}
  /\ UNCHANGED clock

Tick == clock < MaxTime /\ clock' = clock + 1 /\ UNCHANGED <<state, until, flagged, condemned>>

Next ==
  \/ Tick \/ Spare
  \/ \E i \in EvidenceIds : Commit(i) \/ Hold(i) \/ Release(i) \/ Condemn(i) \/ Remove(i)

Spec == Init /\ [][Next]_vars
=============================================================================
