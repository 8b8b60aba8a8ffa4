------------------------- MODULE ScanLifecycleProofs -------------------------
(* Proofs about the promised life of a scan, for any scans and accounts.   *)
EXTENDS ScanLifecycle, TLAPS

(* Every state of a scan is one of ScanJobStatus, or "NONE".               *)
THEOREM LifecycleTypeOK == Spec => []TypeOK
<1>1. Init => TypeOK
  BY DEF Init, TypeOK
<1>2. TypeOK /\ [Next]_vars => TypeOK'
  BY DEF TypeOK, Next, vars, Request, Start, Requeue, Cancel, Finish, Replay, Move,
         Terminal, InProgress
<1> QED
  BY <1>1, <1>2, PTL DEF Spec

(* The active key of enqueueScan and replayDeadLetter: at most one scan of *)
(* an account is in progress.                                              *)
THEOREM LifecycleOneAtATime == Spec => []OneAtATime
<1>1. Init => OneAtATime
  BY DEF Init, OneAtATime, InProgress
<1>2. TypeOK /\ OneAtATime /\ [Next]_vars => OneAtATime'
  <2> SUFFICES ASSUME TypeOK, OneAtATime, [Next]_vars
               PROVE  OneAtATime'
    OBVIOUS
  <2> USE DEF TypeOK, OneAtATime, InProgress, Move
  <2>1. ASSUME NEW s \in Scans, Request(s) \/ Replay(s)
        PROVE  OneAtATime'
    BY <2>1 DEF Request, Replay, AccountIsFree
  <2>2. ASSUME NEW s \in Scans, Start(s) \/ Requeue(s) \/ Cancel(s)
        PROVE  OneAtATime'
    BY <2>2 DEF Start, Requeue, Cancel
  <2>3. ASSUME NEW s \in Scans, Finish(s)
        PROVE  OneAtATime'
    BY <2>3 DEF Finish, Terminal
  <2>4. CASE UNCHANGED vars
    BY <2>4 DEF vars
  <2> QED
    BY <2>1, <2>2, <2>3, <2>4 DEF Next
<1> QED
  BY <1>1, <1>2, LifecycleTypeOK, PTL DEF Spec

(* Only outcomes that were announced are shown, and only shown outcomes    *)
(* (and dead letters that were replayed) were announced.                   *)
THEOREM LifecycleOutcomeAnnounced == Spec => []OutcomeAnnounced
<1>1. Init => OutcomeAnnounced
  BY DEF Init, OutcomeAnnounced, Terminal
<1>2. TypeOK /\ OutcomeAnnounced /\ [Next]_vars => OutcomeAnnounced'
  <2> SUFFICES ASSUME TypeOK, OutcomeAnnounced, [Next]_vars
               PROVE  OutcomeAnnounced'
    OBVIOUS
  <2> USE DEF TypeOK, OutcomeAnnounced, Terminal, InProgress, Move
  <2>1. ASSUME NEW s \in Scans, Request(s) \/ Start(s) \/ Requeue(s) \/ Cancel(s) \/ Replay(s)
        PROVE  OutcomeAnnounced'
    BY <2>1 DEF Request, Start, Requeue, Cancel, Replay
  <2>2. ASSUME NEW s \in Scans, Finish(s)
        PROVE  OutcomeAnnounced'
    BY <2>2 DEF Finish
  <2>3. CASE UNCHANGED vars
    BY <2>3 DEF vars
  <2> QED
    BY <2>1, <2>2, <2>3 DEF Next
<1> QED
  BY <1>1, <1>2, LifecycleTypeOK, PTL DEF Spec
=============================================================================
