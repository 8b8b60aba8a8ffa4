-------------------------- MODULE ScanScheduleProofs --------------------------
(***************************************************************************)
(* What holds of schedules for any number of schedules, activations and    *)
(* instants.  SchedInv strengthens OccurrencesAreClaimedOnce: an           *)
(* occurrence that fired, like one in an activation's hands, lies before   *)
(* the schedule's next run, and a claim moves the next run on.             *)
(***************************************************************************)
EXTENDS ScanSchedule, AwsConnectionsProofs

(* A schedule has no occurrence before it is created, and what fired is    *)
(* over.                                                                   *)
FiredIsPast ==
  /\ \A s \in Schedules : sched[s].state = "NONE" => sched[s].next = 0
  /\ \A o \in Fired : o.at < sched[o.s].next

SchedInv == SchedTypeOK /\ FiredIsPast /\ OccurrencesAreClaimedOnce

-----------------------------------------------------------------------------
(* The next run is later than the one it follows, in every time zone.      *)
LEMMA NextRunIsLater ==
  ASSUME NEW s \in Schedules, NEW t \in Nat
  PROVE  /\ NextScheduleRun(t, Plan[s]) \in Nat
         /\ NextScheduleRun(t, Plan[s]) > t
<1> DEFINE p == Plan[s]
<1>1. /\ p.days \in {1, 7} /\ p.hour \in 0..23 /\ p.offset \in -12..14
  BY PlanAssumption
<1>2. /\ Period(p) \in {24, 168}
  BY <1>1 DEF Period
<1>3. DateIn(p, t + Period(p)) * 24 > t + Period(p) - 36
  BY <1>1, <1>2 DEF DateIn
<1>4. DateIn(p, t + Period(p)) \in Int
  BY <1>1, <1>2 DEF DateIn
<1>5. QED
  BY <1>1, <1>2, <1>3, <1>4 DEF NextScheduleRun

(* Initially nothing is scheduled.                                         *)
LEMMA SchedInitInv == Init => SchedInv
  BY ConnInitInv, PlanAssumption
  DEF Init, SchedInv, SchedTypeOK, FiredIsPast, OccurrencesAreClaimedOnce, ConnInv,
      Occurrence, NoItem, Asleep, Fired

(* To the connections, every step of the whole is one of theirs or none.   *)
LEMMA StepOfConnections == [Next]_vars => [ConnNext]_connVars
<1>1. ASSUME SchedStep PROVE ConnDies \/ UNCHANGED connVars
  BY <1>1
  DEF SchedStep, CreateSchedule, PauseSchedule, FindDue, ClaimSchedule, CheckAccount,
      FindSnapshot, EnqueueOccurrence, OccurrenceRefused, InventoryChanges, RequestScan,
      Tick, Crash, ConnDies, connVars
<1>2. QED BY <1>1 DEF Next, vars, ConnNext

(* enqueueScan's reads refuse or answer an occurrence, or go on with it.   *)
GoesOn(l) ==
  /\ loop'[l].item = loop[l].item /\ loop'[l].batch = loop[l].batch
  /\ \A m \in Loops \ {l} : loop'[m] = loop[m]

LEMMA EnqueueScanReads ==
  ASSUME SchedTypeOK, NEW l \in Loops, CheckAccount(l) \/ FindSnapshot(l)
  PROVE  /\ UNCHANGED <<now, sched, inventory, scans>>
         /\ \/ Resume(l, loop[l].batch)
            \/ /\ GoesOn(l)
               /\ loop' \in [Loops -> [pc: {"asleep", "claiming", "checking", "reading", "enqueuing"},
                                       batch: SUBSET Occurrence,
                                       item: Occurrence \union {NoItem},
                                       seen: Snapshots \union {None}]]
               /\ loop[l].item # NoItem /\ loop'[l].pc \in {"reading", "enqueuing"}
               /\ loop'[l].pc = "enqueuing" => loop'[l].seen \in Snapshots
<1>1. CASE CheckAccount(l)
  BY <1>1 DEF SchedTypeOK, CheckAccount, GoesOn
<1>2. CASE FindSnapshot(l)
  <2>1. inventory[AccountOf(l)] \in Snapshots
    BY <1>2 DEF SchedTypeOK, FindSnapshot, AccountOf, Scheduled, Occurrence
  <2>2. QED BY <1>2, <2>1 DEF SchedTypeOK, FindSnapshot, GoesOn
<1>3. QED BY <1>1, <1>2

(* What a scan that is created adds to those that fired.                   *)
LEMMA FiredWith ==
  ASSUME NEW k, NEW o, scans' = scans \union {[of |-> k, by |-> o]}
  PROVE  Fired' = Fired \union ({o} \ {NoItem})
<1> DEFINE new == [of |-> k, by |-> o]
<1>1. new.by = o
  OBVIOUS
<1>2. \A r : r \in scans' <=> r \in scans \/ r = new
  OBVIOUS
<1> HIDE DEF new
<1>3. \A x : x \in {r.by : r \in scans'} <=> x \in {r.by : r \in scans} \/ x = o
  BY <1>1, <1>2
<1>4. QED BY <1>3 DEF Fired

(* A scan that is created for an occurrence, or for a user.                *)
LEMMA ScanIsEnqueued ==
  ASSUME SchedTypeOK, NEW l \in Loops, EnqueueOccurrence(l)
  PROVE  LET k == <<AccountOf(l), loop[l].seen>> IN
         /\ UNCHANGED <<now, sched, inventory>> /\ Resume(l, loop[l].batch)
         /\ loop[l].item \in Occurrence /\ loop[l].item # NoItem /\ k \in Inventories
         /\ \/ UNCHANGED scans
            \/ /\ \A r \in scans : r.of # k
               /\ scans' = scans \union {[of |-> k, by |-> loop[l].item]}
<1>1. AccountOf(l) \in Scheduled /\ loop[l].seen \in Snapshots
  BY DEF SchedTypeOK, EnqueueOccurrence, AccountOf, Scheduled, Occurrence
<1>2. loop[l].item \in Occurrence /\ loop[l].item # NoItem
  BY DEF SchedTypeOK, EnqueueOccurrence
<1>3. QED BY <1>1, <1>2 DEF EnqueueOccurrence, Inventories, HasScan, ScanOf

LEMMA ScanIsRequested ==
  ASSUME SchedTypeOK, NEW a \in Scheduled, RequestScan(a)
  PROVE  LET k == <<a, inventory[a]>> IN
         /\ UNCHANGED <<now, sched, loop, inventory>> /\ k \in Inventories
         /\ \A r \in scans : r.of # k
         /\ scans' = scans \union {[of |-> k, by |-> NoItem]}
BY DEF SchedTypeOK, RequestScan, Inventories, HasScan, ScanOf

(* Activations keep their types.                                           *)
LEMMA SchedTypeStep ==
  ASSUME SchedTypeOK, [Next]_vars
  PROVE  SchedTypeOK'
<1>1. ConnTypeOK'
  BY StepOfConnections, ConnTypeStep DEF SchedTypeOK, connVars, ConnTypeOK
<1> DEFINE T == /\ now \in Instants
                /\ sched \in [Schedules -> [state: {"NONE", "ACTIVE", "PAUSED"}, next: Nat]]
                /\ inventory \in [Scheduled -> Snapshots]
                /\ scans \subseteq [of: Inventories, by: Occurrence \union {NoItem}]
                /\ loop \in [Loops -> [pc: {"asleep", "claiming", "checking", "reading", "enqueuing"},
                                       batch: SUBSET Occurrence,
                                       item: Occurrence \union {NoItem},
                                       seen: Snapshots \union {None}]]
                /\ \A l \in Loops :
                     /\ loop[l].pc \in {"asleep", "claiming"} <=> loop[l].item = NoItem
                     /\ loop[l].pc = "enqueuing" => loop[l].seen \in Snapshots
<1>2. T
  BY DEF SchedTypeOK
<1>3. SUFFICES T'
  BY <1>1 DEF SchedTypeOK
<1>4. NoItem \notin Occurrence
  BY PlanAssumption DEF NoItem, Occurrence
<1> USE <1>2, <1>4
<1>5. ASSUME UNCHANGED schedVars PROVE T'
  BY <1>5 DEF schedVars
<1>6. ASSUME NEW s \in Schedules, CreateSchedule(s) PROVE T'
  <2>1. now \in Nat
    BY PlanAssumption
  <2>2. NextScheduleRun(now, Plan[s]) \in Nat
    BY <2>1, NextRunIsLater
  <2>3. QED BY <1>6, <2>2 DEF CreateSchedule, SetSchedule
<1>7. ASSUME NEW s \in Schedules, NEW state \in {"ACTIVE", "PAUSED"}, PauseSchedule(s, state)
      PROVE  T'
  BY <1>7 DEF PauseSchedule, SetSchedule
<1>8. ASSUME NEW l \in Loops, NEW batch \in SUBSET Occurrence, Resume(l, batch),
             UNCHANGED <<now, sched, inventory>>,
             scans' \subseteq [of: Inventories, by: Occurrence \union {NoItem}]
      PROVE  T'
  BY <1>8 DEF Resume, Asleep
<1>9. ASSUME NEW l \in Loops, FindDue(l) PROVE T'
  <2>1. {[s |-> s, at |-> sched[s].next] : s \in DueNow} \in SUBSET Occurrence
    BY DEF DueNow, Occurrence
  <2>2. QED BY <1>9, <2>1 DEF FindDue
<1>10. ASSUME NEW l \in Loops, ClaimSchedule(l) PROVE T'
  <2>1. PICK o \in loop[l].batch :
          IF Claimable(o)
          THEN /\ SetSchedule(o.s, sched[o.s].state, NextScheduleRun(o.at, Plan[o.s]))
               /\ loop' = [loop EXCEPT ![l] = [pc |-> "checking", item |-> o, seen |-> None,
                                               batch |-> loop[l].batch \ {o}]]
          ELSE UNCHANGED sched /\ Resume(l, loop[l].batch \ {o})
    BY <1>10 DEF ClaimSchedule
  <2>2. o \in Occurrence /\ o.s \in Schedules /\ o.at \in Nat /\ UNCHANGED <<now, inventory, scans>>
    BY <1>10 DEF ClaimSchedule, Occurrence
  <2>3. CASE Claimable(o)
    <3>1. NextScheduleRun(o.at, Plan[o.s]) \in Nat
      BY <2>2, NextRunIsLater
    <3>2. SetSchedule(o.s, sched[o.s].state, NextScheduleRun(o.at, Plan[o.s]))
      BY <2>1, <2>3
    <3>3. sched' \in [Schedules -> [state: {"NONE", "ACTIVE", "PAUSED"}, next: Nat]]
      BY <2>2, <3>1, <3>2 DEF SetSchedule
    <3>4. loop' = [loop EXCEPT ![l] = [pc |-> "checking", item |-> o, seen |-> None,
                                       batch |-> loop[l].batch \ {o}]]
      BY <2>1, <2>3
    <3>5. loop[l].batch \ {o} \in SUBSET Occurrence
      OBVIOUS
    <3>6. QED BY <2>2, <3>3, <3>4, <3>5
  <2>4. CASE ~Claimable(o)
    BY <2>1, <2>2, <2>4, <1>8
  <2>5. QED BY <2>3, <2>4
<1>11. ASSUME NEW l \in Loops, CheckAccount(l) \/ FindSnapshot(l) PROVE T'
  <2>1. UNCHANGED <<now, sched, inventory, scans>>
    BY <1>11, EnqueueScanReads
  <2>2. CASE Resume(l, loop[l].batch)
    BY <2>1, <2>2, <1>8
  <2>3. CASE ~Resume(l, loop[l].batch)
    BY <1>11, <2>1, <2>3, EnqueueScanReads DEF GoesOn
  <2>4. QED BY <2>2, <2>3
<1>12. ASSUME NEW l \in Loops, EnqueueOccurrence(l) PROVE T'
  <2>1. UNCHANGED <<now, sched, inventory>> /\ Resume(l, loop[l].batch)
    BY <1>12, ScanIsEnqueued
  <2>2. scans' \subseteq [of: Inventories, by: Occurrence \union {NoItem}]
    <3> DEFINE k == <<AccountOf(l), loop[l].seen>>
    <3>1. /\ k \in Inventories /\ loop[l].item \in Occurrence
          /\ UNCHANGED scans \/ scans' = scans \union {[of |-> k, by |-> loop[l].item]}
      BY <1>12, ScanIsEnqueued
    <3> HIDE DEF k
    <3>2. QED BY <3>1
  <2>3. QED BY <2>1, <2>2, <1>8
<1>13. ASSUME NEW l \in Loops, OccurrenceRefused(l) PROVE T'
  BY <1>13, <1>8 DEF OccurrenceRefused
<1>14. ASSUME NEW t \in Instants, Tick(t) PROVE T'
  BY <1>14 DEF Tick
<1>15. ASSUME Crash PROVE T'
  BY <1>15 DEF Crash, Asleep
<1>16. ASSUME NEW a \in Scheduled, RequestScan(a) PROVE T'
  <2> DEFINE k == <<a, inventory[a]>>
  <2>1. /\ k \in Inventories /\ UNCHANGED <<now, sched, loop, inventory>>
        /\ scans' = scans \union {[of |-> k, by |-> NoItem]}
    BY <1>16, ScanIsRequested
  <2> HIDE DEF k
  <2>2. scans' \subseteq [of: Inventories, by: Occurrence \union {NoItem}]
    BY <2>1
  <2>3. QED BY <2>1, <2>2
<1>17. ASSUME NEW a \in Scheduled, NEW i \in Snapshots, InventoryChanges(a, i) PROVE T'
  BY <1>17 DEF InventoryChanges
<1>18. QED
  BY <1>5, <1>6, <1>7, <1>9, <1>10, <1>11, <1>12, <1>13, <1>14, <1>15, <1>16, <1>17
  DEF Next, SchedStep, vars, schedVars

(* Nothing fires twice or is claimed twice.                                *)
LEMMA SchedInvStep ==
  ASSUME SchedInv, [Next]_vars
  PROVE  SchedInv'
<1>1. SchedTypeOK /\ SchedTypeOK'
  BY SchedTypeStep DEF SchedInv
<1> DEFINE T == /\ now \in Instants
                /\ sched \in [Schedules -> [state: {"NONE", "ACTIVE", "PAUSED"}, next: Nat]]
                /\ Fired \subseteq Occurrence
                /\ loop \in [Loops -> [pc: {"asleep", "claiming", "checking", "reading", "enqueuing"},
                                       batch: SUBSET Occurrence,
                                       item: Occurrence \union {NoItem},
                                       seen: Snapshots \union {None}]]
           C == FiredIsPast /\ OccurrencesAreClaimedOnce
<1>2. T /\ C
  <2>1. Fired \subseteq Occurrence
    BY <1>1 DEF SchedTypeOK, Fired
  <2>2. QED BY <1>1, <2>1 DEF SchedTypeOK, SchedInv
<1>3. SUFFICES C'
  BY <1>1 DEF SchedInv
<1>4. \A o \in Occurrence : o.s \in Schedules /\ o.at \in Nat
  BY DEF Occurrence
<1> USE <1>2, <1>4 DEF FiredIsPast, OccurrencesAreClaimedOnce
<1>5. ASSUME UNCHANGED scans PROVE UNCHANGED Fired
  BY <1>5 DEF Fired
<1>6. ASSUME UNCHANGED schedVars PROVE C'
  BY <1>6, <1>5 DEF schedVars
<1>7. ASSUME NEW s \in Schedules, CreateSchedule(s) PROVE C'
  <2>1. now \in Nat
    BY PlanAssumption
  <2>2. NextScheduleRun(now, Plan[s]) \in Nat
    BY <2>1, NextRunIsLater
  <2>3. UNCHANGED <<loop, Fired>> /\ SetSchedule(s, "ACTIVE", NextScheduleRun(now, Plan[s]))
        /\ sched[s].state = "NONE"
    BY <1>7, <1>5 DEF CreateSchedule
  <2>4. \A r \in Schedules : sched'[r].next >= sched[r].next
    BY <2>2, <2>3 DEF SetSchedule
  <2>5. QED BY <2>2, <2>3, <2>4 DEF SetSchedule
<1>8. ASSUME NEW s \in Schedules, NEW state \in {"ACTIVE", "PAUSED"}, PauseSchedule(s, state)
      PROVE  C'
  BY <1>8, <1>5 DEF PauseSchedule, SetSchedule
<1>9. ASSUME NEW l \in Loops, NEW batch \in SUBSET Occurrence, Resume(l, batch),
             UNCHANGED sched, Fired' \subseteq Fired \union ({loop[l].item} \ {NoItem})
      PROVE  C'
  <2>1. loop'[l].item = NoItem /\ \A m \in Loops \ {l} : loop'[m] = loop[m]
    BY <1>9 DEF Resume, Asleep
  <2>2. \A o \in Fired' : o.at < sched[o.s].next
    BY <1>9
  <2>3. \A m \in Loops \ {l} : loop[m].item # NoItem => loop[m].item \notin Fired'
    BY <1>9
  <2>4. QED BY <1>9, <2>1, <2>2, <2>3
<1>10. ASSUME NEW l \in Loops, FindDue(l) PROVE C'
  BY <1>10, <1>5 DEF FindDue, Asleep
<1>11. ASSUME NEW l \in Loops, ClaimSchedule(l) PROVE C'
  <2>1. PICK o \in loop[l].batch :
          IF Claimable(o)
          THEN /\ SetSchedule(o.s, sched[o.s].state, NextScheduleRun(o.at, Plan[o.s]))
               /\ loop' = [loop EXCEPT ![l] = [pc |-> "checking", item |-> o, seen |-> None,
                                               batch |-> loop[l].batch \ {o}]]
          ELSE UNCHANGED sched /\ Resume(l, loop[l].batch \ {o})
    BY <1>11 DEF ClaimSchedule
  <2>2. o \in Occurrence /\ o.s \in Schedules /\ o.at \in Nat /\ UNCHANGED Fired
    BY <1>11, <1>5 DEF ClaimSchedule
  <2>3. CASE Claimable(o)
    <3>1. /\ NextScheduleRun(o.at, Plan[o.s]) \in Nat
          /\ NextScheduleRun(o.at, Plan[o.s]) > o.at
      BY <2>2, NextRunIsLater
    <3>2. SetSchedule(o.s, sched[o.s].state, NextScheduleRun(o.at, Plan[o.s]))
      BY <2>1, <2>3
    <3>3. sched[o.s].state = "ACTIVE" /\ sched[o.s].next = o.at
      BY <2>3 DEF Claimable
    <3>4. /\ \A s \in Schedules : sched'[s].next >= sched[s].next
          /\ \A s \in Schedules : sched'[s].state = sched[s].state
          /\ \A s \in Schedules \ {o.s} : sched'[s] = sched[s]
          /\ sched'[o.s].next > o.at
          /\ sched'[o.s].next \in Nat
      BY <2>2, <3>1, <3>2, <3>3 DEF SetSchedule
    <3>5. /\ loop'[l].item = o
          /\ \A m \in Loops \ {l} : loop'[m] = loop[m]
      BY <2>1, <2>3
    <3>6. o \notin Fired /\ \A m \in Loops : loop[m].item # o
      BY <2>2, <3>3, PlanAssumption DEF NoItem
    <3>7. FiredIsPast'
      BY <2>2, <3>3, <3>4
    <3>8. OccurrencesAreClaimedOnce'
      <4>1. SUFFICES ASSUME NEW m \in Loops, loop'[m].item # NoItem
                     PROVE  /\ loop'[m].item \notin Fired
                            /\ \A k \in Loops \ {m} : loop'[k].item # loop'[m].item
                            /\ loop'[m].item.at < sched'[loop'[m].item.s].next
        BY <2>2
      <4>2. CASE m = l
        BY <2>2, <3>4, <3>5, <3>6, <4>2
      <4>3. CASE m # l
        <5>1. /\ loop[m].item \notin Fired /\ loop[m].item \in Occurrence
              /\ \A k \in Loops \ {m} : loop[k].item # loop[m].item
              /\ loop[m].item.at < sched[loop[m].item.s].next
          BY <3>5, <4>1, <4>3
        <5>2. loop[m].item.at < sched'[loop[m].item.s].next
          BY <5>1, <3>4
        <5>3. QED BY <3>5, <3>6, <4>3, <5>1, <5>2
      <4>4. QED BY <4>2, <4>3
    <3>9. QED BY <3>7, <3>8
  <2>4. CASE ~Claimable(o)
    BY <2>1, <2>2, <2>4, <1>9
  <2>5. QED BY <2>3, <2>4
<1>12. ASSUME NEW l \in Loops, CheckAccount(l) \/ FindSnapshot(l) PROVE C'
  <2>1. UNCHANGED <<sched, Fired>>
    BY <1>1, <1>12, <1>5, EnqueueScanReads
  <2>2. CASE Resume(l, loop[l].batch)
    BY <2>1, <2>2, <1>9
  <2>3. CASE GoesOn(l)
    BY <2>1, <2>3 DEF GoesOn
  <2>4. QED BY <1>1, <1>12, <2>2, <2>3, EnqueueScanReads
<1>13. ASSUME NEW l \in Loops, EnqueueOccurrence(l) PROVE C'
  <2>1. UNCHANGED sched /\ Resume(l, loop[l].batch) /\ loop[l].item # NoItem
    BY <1>1, <1>13, ScanIsEnqueued
  <2>2. Fired' \subseteq Fired \union {loop[l].item}
    <3>1. UNCHANGED scans \/ Fired' = Fired \union ({loop[l].item} \ {NoItem})
      BY <1>1, <1>13, ScanIsEnqueued, FiredWith
    <3>2. QED BY <3>1, <1>5
  <2>3. QED BY <2>1, <2>2, <1>9
<1>14. ASSUME NEW l \in Loops, OccurrenceRefused(l) PROVE C'
  BY <1>14, <1>9, <1>5 DEF OccurrenceRefused
<1>15. ASSUME NEW t \in Instants, Tick(t) PROVE C'
  BY <1>15, <1>5 DEF Tick
<1>16. ASSUME Crash PROVE C'
  BY <1>16, <1>5 DEF Crash, Asleep
<1>17. ASSUME NEW a \in Scheduled, RequestScan(a) PROVE C'
  <2>1. UNCHANGED <<sched, loop>> /\ Fired' = Fired
    <3>1. UNCHANGED <<sched, loop>> /\ Fired' = Fired \union ({NoItem} \ {NoItem})
      BY <1>1, <1>17, ScanIsRequested, FiredWith
    <3>2. QED BY <3>1
  <2>2. QED BY <2>1
<1>18. ASSUME NEW a \in Scheduled, NEW i \in Snapshots, InventoryChanges(a, i) PROVE C'
  BY <1>18, <1>5 DEF InventoryChanges
<1>19. QED
  BY <1>6, <1>7, <1>8, <1>10, <1>11, <1>12, <1>13, <1>14, <1>15, <1>16, <1>17, <1>18
  DEF Next, SchedStep, vars, schedVars

LEMMA SchedInvHolds == Spec => []SchedInv
BY SchedInitInv, SchedInvStep, PTL DEF Spec

-----------------------------------------------------------------------------
(* Schedules, activations and what they read keep their types.             *)
THEOREM SchedTypeCorrect == Spec => []SchedTypeOK
<1>1. SchedInv => SchedTypeOK
  BY DEF SchedInv
<1>2. QED BY <1>1, SchedInvHolds, PTL

(* An occurrence is claimed by one activation only, and never after it has *)
(* fired, for any number of activations and schedules, in any time zone    *)
(* (processDueSchedules' conditional update).                              *)
THEOREM OccurrencesAreClaimedOnceHolds == Spec => []OccurrencesAreClaimedOnce
<1>1. SchedInv => OccurrencesAreClaimedOnce
  BY DEF SchedInv
<1>2. QED BY <1>1, SchedInvHolds, PTL

(* Seen from the connections, schedules change nothing: the composition    *)
(* implements ConnSpec.                                                    *)
THEOREM SchedulesImplementConnections == Spec => ConnSpec
<1>1. Init => ConnInit
  BY DEF Init
<1>2. QED BY <1>1, StepOfConnections, PTL DEF Spec, ConnSpec

(* So accounts follow verified connections in the composition too, as      *)
(* long as verifications of one connection do not overlap.                 *)
THEOREM ScheduledAccountsAreVerified ==
  ASSUME "overlap" \notin Environment
  PROVE  Spec => []AccountsAreVerified
BY SchedulesImplementConnections, AccountsAreVerifiedHolds, PTL

-----------------------------------------------------------------------------
(* Every schedule's date is right: the local hour falls before the end of  *)
(* the UTC date, and a weekly one's not before its beginning either (a     *)
(* daily one that does is put right by nextScheduleRun's last line).       *)
SameDay == \A s \in Schedules : /\ Plan[s].hour + Plan[s].offset < 24
                                /\ Plan[s].days = 7 => Plan[s].hour + Plan[s].offset >= 0

(* Runs are at the schedule's hour, and what an activation read was due.   *)
OnTheHour ==
  /\ \A s \in Schedules : sched[s].state # "NONE" => sched[s].next % 24 = Plan[s].hour
  /\ \A l \in Loops : \A o \in loop[l].batch : o.at <= now

(* The next run is at the schedule's hour, and one period on if it follows *)
(* a run.                                                                  *)
LEMMA NextRunOnTheHour ==
  ASSUME NEW s \in Schedules, NEW t \in Nat
  PROVE  /\ NextScheduleRun(t, Plan[s]) % 24 = Plan[s].hour
         /\ SameDay /\ t % 24 = Plan[s].hour =>
              NextScheduleRun(t, Plan[s]) = t + Period(Plan[s])
<1> DEFINE p == Plan[s]
           d == DateIn(p, t + Period(p))
<1>1. /\ p.days \in {1, 7} /\ p.hour \in 0..23 /\ p.offset \in -12..14
  BY PlanAssumption
<1>2. Period(p) = 24 * p.days /\ Period(p) \in {24, 168}
  BY <1>1 DEF Period
<1>3. d \in Int
  BY <1>1, <1>2 DEF DateIn
<1>4. (d * 24 + p.hour) % 24 = p.hour /\ (d * 24 + p.hour + Period(p)) % 24 = p.hour
  <2>1. (d * 24 + p.hour) % 24 = p.hour
    BY <1>1, <1>3
  <2>2. CASE Period(p) = 24
    BY <1>1, <1>3, <2>2
  <2>3. CASE Period(p) = 168
    BY <1>1, <1>3, <2>3
  <2>4. QED BY <1>2, <2>1, <2>2, <2>3
<1>5. ASSUME SameDay, t % 24 = p.hour
      PROVE  NextScheduleRun(t, p) = t + Period(p)
  <2>1. p.hour + p.offset < 24 /\ (p.days = 7 => p.hour + p.offset >= 0)
    BY <1>5 DEF SameDay
  <2>2. p.hour \in Int /\ p.offset \in Int
    BY <1>1
  <2>3. CASE p.days = 1 /\ p.hour + p.offset >= 0
    <3>1. d * 24 + p.hour = t + 24
      BY <1>1, <1>2, <1>5, <2>1, <2>2, <2>3, SMTT(30) DEF DateIn
    <3>2. QED BY <1>2, <2>3, <3>1 DEF NextScheduleRun
  <2>4. CASE p.days = 1 /\ p.hour + p.offset < 0
    <3>1. d * 24 + p.hour = t
      BY <1>1, <1>2, <1>5, <2>1, <2>2, <2>4 DEF DateIn
    <3>2. QED BY <1>2, <2>4, <3>1 DEF NextScheduleRun
  <2>5. CASE p.days = 7
    <3>1. d * 24 + p.hour = t + 168
      BY <1>1, <1>2, <1>5, <2>1, <2>2, <2>5 DEF DateIn
    <3>2. QED BY <1>2, <2>5, <3>1 DEF NextScheduleRun
  <2>6. QED BY <1>1, <2>3, <2>4, <2>5
<1>6. NextScheduleRun(t, p) \in {d * 24 + p.hour, d * 24 + p.hour + Period(p)}
  BY DEF NextScheduleRun
<1>7. NextScheduleRun(t, p) % 24 = p.hour
  BY <1>4, <1>6
<1>8. QED BY <1>5, <1>7

(* What one step does to a schedule: nothing, or it creates it, or claims  *)
(* the run that is due.                                                    *)
StepOfSchedule(s) ==
  \/ UNCHANGED <<sched[s].next, sched[s].state>>
  \/ sched[s].state # "NONE" /\ sched'[s].state # "NONE" /\ UNCHANGED sched[s].next
  \/ /\ sched[s].state = "NONE"
     /\ sched'[s].next % 24 = Plan[s].hour /\ sched'[s].next > 0
  \/ /\ sched[s].state = "ACTIVE"
     /\ sched[s].next <= now
     /\ sched'[s].next = NextScheduleRun(sched[s].next, Plan[s])

LEMMA SchedulesStep ==
  ASSUME SchedInv, OnTheHour, [Next]_vars
  PROVE  OnTheHour' /\ \A s \in Schedules : StepOfSchedule(s)
<1> DEFINE Steps == \A s \in Schedules : StepOfSchedule(s)
           Hour == \A s \in Schedules : sched[s].state # "NONE" =>
                                          sched[s].next % 24 = Plan[s].hour
           Due == \A l \in Loops : \A o \in loop[l].batch : o.at <= now
           T == /\ now \in Nat /\ now' \in Nat
                /\ sched \in [Schedules -> [state: {"NONE", "ACTIVE", "PAUSED"}, next: Nat]]
                /\ loop \in [Loops -> [pc: {"asleep", "claiming", "checking", "reading", "enqueuing"},
                                       batch: SUBSET Occurrence,
                                       item: Occurrence \union {NoItem},
                                       seen: Snapshots \union {None}]]
<1>1. T /\ Due /\ Hour
  <2>1. now \in Instants /\ now' \in Instants
    BY SchedTypeStep DEF SchedInv, SchedTypeOK
  <2>2. QED BY <2>1, PlanAssumption DEF SchedInv, SchedTypeOK, OnTheHour
<1>2. \A o \in Occurrence : o.s \in Schedules /\ o.at \in Nat
  BY DEF Occurrence
<1>3. UNCHANGED sched => Steps
  BY DEF StepOfSchedule
<1> USE <1>1, <1>2
<1>4. ASSUME UNCHANGED schedVars PROVE Due' /\ Steps
  BY <1>3, <1>4 DEF schedVars
<1>5. ASSUME NEW s \in Schedules, CreateSchedule(s) PROVE Due' /\ Steps
  <2>1. Due'
    BY <1>5 DEF CreateSchedule
  <2>2. NextScheduleRun(now, Plan[s]) % 24 = Plan[s].hour /\ NextScheduleRun(now, Plan[s]) > 0
    BY NextRunOnTheHour, NextRunIsLater
  <2>3. Steps
    BY <1>5, <2>2 DEF CreateSchedule, SetSchedule, StepOfSchedule
  <2>4. QED BY <2>1, <2>3
<1>6. ASSUME NEW s \in Schedules, NEW state \in {"ACTIVE", "PAUSED"}, PauseSchedule(s, state)
      PROVE  Due' /\ Steps
  BY <1>6 DEF PauseSchedule, SetSchedule, StepOfSchedule
<1>7. ASSUME NEW l \in Loops, FindDue(l) PROVE Due' /\ Steps
  <2>1. \A o \in {[s |-> s, at |-> sched[s].next] : s \in DueNow} : o.at <= now
    BY DEF DueNow
  <2>2. Due'
    BY <1>7, <2>1 DEF FindDue
  <2>3. QED BY <1>7, <1>3, <2>2 DEF FindDue
<1>8. ASSUME NEW l \in Loops, NEW batch \in SUBSET loop[l].batch, Resume(l, batch),
             UNCHANGED <<now, sched>>
      PROVE  Due' /\ Steps
  <2>1. loop'[l].batch \subseteq loop[l].batch /\ \A m \in Loops \ {l} : loop'[m] = loop[m]
    BY <1>8 DEF Resume, Asleep
  <2>2. Due'
    BY <1>8, <2>1
  <2>3. QED BY <1>3, <1>8, <2>2
<1>9. ASSUME NEW l \in Loops, ClaimSchedule(l) PROVE Due' /\ Steps
  <2>1. PICK o \in loop[l].batch :
          IF Claimable(o)
          THEN /\ SetSchedule(o.s, sched[o.s].state, NextScheduleRun(o.at, Plan[o.s]))
               /\ loop' = [loop EXCEPT ![l] = [pc |-> "checking", item |-> o, seen |-> None,
                                               batch |-> loop[l].batch \ {o}]]
          ELSE UNCHANGED sched /\ Resume(l, loop[l].batch \ {o})
    BY <1>9 DEF ClaimSchedule
  <2>2. o.s \in Schedules /\ UNCHANGED now /\ o.at <= now
    BY <1>9 DEF ClaimSchedule
  <2>3. CASE Claimable(o)
    <3>1. /\ SetSchedule(o.s, sched[o.s].state, NextScheduleRun(o.at, Plan[o.s]))
          /\ loop' = [loop EXCEPT ![l] = [pc |-> "checking", item |-> o, seen |-> None,
                                          batch |-> loop[l].batch \ {o}]]
      BY <2>1, <2>3
    <3>2. Due'
      BY <2>2, <3>1
    <3>3. sched[o.s].state = "ACTIVE" /\ sched[o.s].next = o.at
      BY <2>3 DEF Claimable
    <3>4. Steps
      BY <2>2, <3>1, <3>3 DEF SetSchedule, StepOfSchedule
    <3>5. QED BY <3>2, <3>4
  <2>4. CASE ~Claimable(o)
    BY <2>1, <2>2, <2>4, <1>8
  <2>5. QED BY <2>3, <2>4
<1>10. ASSUME NEW l \in Loops, CheckAccount(l) \/ FindSnapshot(l) PROVE Due' /\ Steps
  <2>1. UNCHANGED <<now, sched>>
    BY <1>10, EnqueueScanReads DEF SchedInv
  <2>2. CASE Resume(l, loop[l].batch)
    BY <2>1, <2>2, <1>8
  <2>3. CASE GoesOn(l)
    BY <2>1, <2>3, <1>3 DEF GoesOn
  <2>4. QED BY <1>10, <2>2, <2>3, EnqueueScanReads DEF SchedInv
<1>11. ASSUME NEW l \in Loops, EnqueueOccurrence(l) PROVE Due' /\ Steps
  BY <1>11, <1>8 DEF EnqueueOccurrence
<1>12. ASSUME NEW l \in Loops, OccurrenceRefused(l) PROVE Due' /\ Steps
  BY <1>12, <1>8 DEF OccurrenceRefused
<1>13. ASSUME NEW t \in Instants, Tick(t) PROVE Due' /\ Steps
  <2>1. t > now /\ t \in Nat
    BY <1>13, PlanAssumption DEF Tick
  <2>2. QED BY <1>3, <1>13, <2>1 DEF Tick
<1>14. ASSUME Crash PROVE Due' /\ Steps
  BY <1>14, <1>3 DEF Crash, Asleep
<1>15. ASSUME NEW a \in Scheduled, RequestScan(a) \/ \E i \in Snapshots : InventoryChanges(a, i)
       PROVE  Due' /\ Steps
  BY <1>15, <1>3 DEF RequestScan, InventoryChanges
<1>16. Due' /\ Steps
  BY <1>4, <1>5, <1>6, <1>7, <1>9, <1>10, <1>11, <1>12, <1>13, <1>14, <1>15
  DEF Next, SchedStep, vars, schedVars
<1>17. Hour'
  <2>1. SUFFICES ASSUME NEW s \in Schedules, sched'[s].state # "NONE"
                 PROVE  sched'[s].next % 24 = Plan[s].hour
    OBVIOUS
  <2>2. StepOfSchedule(s)
    BY <1>16
  <2>3. NextScheduleRun(sched[s].next, Plan[s]) % 24 = Plan[s].hour
    BY NextRunOnTheHour
  <2>4. QED BY <2>1, <2>2, <2>3 DEF StepOfSchedule
<1>18. QED BY <1>16, <1>17 DEF OnTheHour

(* A schedule that falls on the UTC date moves only when it is due and not *)
(* paused, and exactly one period, for any schedules, activations and      *)
(* instants (processDueSchedules with nextScheduleRun).                    *)
THEOREM SchedulesKeepTimeHolds ==
  ASSUME SameDay
  PROVE  Spec => SchedulesKeepTime
<1>1. Init => OnTheHour
  BY DEF Init, OnTheHour, Asleep
<1>2. Spec => []OnTheHour
  <2>1. SchedInv /\ OnTheHour /\ [Next]_vars => OnTheHour'
    BY SchedulesStep
  <2>2. QED BY <1>1, <2>1, SchedInvHolds, PTL DEF Spec
<1>3. SchedInv /\ OnTheHour /\ [Next]_vars =>
        [\A s \in Schedules :
           sched[s].state # "NONE" /\ sched'[s].next # sched[s].next =>
             /\ sched[s].state = "ACTIVE"
             /\ sched[s].next <= now
             /\ sched'[s].next = sched[s].next + Period(Plan[s])]_sched
  <2>1. SUFFICES ASSUME SchedInv, OnTheHour, [Next]_vars, NEW s \in Schedules,
                        sched[s].state # "NONE", sched'[s].next # sched[s].next
                 PROVE  /\ sched[s].state = "ACTIVE"
                        /\ sched[s].next <= now
                        /\ sched'[s].next = sched[s].next + Period(Plan[s])
    OBVIOUS
  <2>2. StepOfSchedule(s)
    BY <2>1, SchedulesStep
  <2>3. sched[s].next \in Nat /\ sched[s].next % 24 = Plan[s].hour
    BY <2>1 DEF SchedInv, SchedTypeOK, OnTheHour
  <2>4. NextScheduleRun(sched[s].next, Plan[s]) = sched[s].next + Period(Plan[s])
    BY <2>3, NextRunOnTheHour
  <2>5. QED BY <2>1, <2>2, <2>4 DEF StepOfSchedule
<1>4. QED BY <1>2, <1>3, SchedInvHolds, PTL DEF Spec, SchedulesKeepTime

-----------------------------------------------------------------------------
(* A schedule has a next run from its creation on.                         *)
Planned == \A s \in Schedules : sched[s].state # "NONE" => sched[s].next > 0

LEMMA PlannedStep ==
  ASSUME SchedInv, OnTheHour, Planned, [Next]_vars
  PROVE  Planned'
<1>1. SUFFICES ASSUME NEW s \in Schedules, sched'[s].state # "NONE"
               PROVE  sched'[s].next > 0
  BY DEF Planned
<1>2. sched[s].next \in Nat
  BY DEF SchedInv, SchedTypeOK
<1>3. NextScheduleRun(sched[s].next, Plan[s]) > sched[s].next
      /\ NextScheduleRun(sched[s].next, Plan[s]) \in Nat
  BY <1>2, NextRunIsLater
<1>4. StepOfSchedule(s)
  BY SchedulesStep
<1>5. QED BY <1>1, <1>2, <1>3, <1>4 DEF StepOfSchedule, Planned

CalendarInv == SchedInv /\ OnTheHour /\ Planned

LEMMA CalendarInvHolds == Spec => []CalendarInv
<1>1. Init => OnTheHour /\ Planned
  BY DEF Init, OnTheHour, Planned, Asleep
<1>2. SchedInv /\ OnTheHour /\ Planned /\ [Next]_vars => OnTheHour' /\ Planned'
  BY SchedulesStep, PlannedStep
<1>3. QED BY <1>1, <1>2, SchedInvHolds, PTL DEF Spec, CalendarInv

(* How a schedule's row is seen in the calendar.                           *)
LEMMA SetScheduleSeen ==
  ASSUME SchedTypeOK, NEW s \in Schedules, NEW state, NEW t, SetSchedule(s, state, t)
  PROVE  /\ NextRuns' = [NextRuns EXCEPT ![s] = t]
         /\ Active' = IF state = "ACTIVE" THEN Active \union {s} ELSE Active \ {s}
<1>1. \A r \in Schedules : sched'[r] = IF r = s THEN [state |-> state, next |-> t] ELSE sched[r]
  BY DEF SchedTypeOK, SetSchedule
<1>2. NextRuns' = [NextRuns EXCEPT ![s] = t]
  <2>1. NextRuns' = [r \in Schedules |-> IF r = s THEN t ELSE sched[r].next]
    <3>1. \A r \in Schedules : sched'[r].next = IF r = s THEN t ELSE sched[r].next
      BY <1>1
    <3>2. NextRuns' = [r \in Schedules |-> sched'[r].next]
      BY DEF NextRuns
    <3>3. QED BY <3>1, <3>2
  <2>2. [NextRuns EXCEPT ![s] = t] = [r \in Schedules |-> IF r = s THEN t ELSE sched[r].next]
    BY DEF NextRuns
  <2>3. QED BY <2>1, <2>2
<1>3. CASE state = "ACTIVE"
  <2>1. \A r : r \in Active' <=> r \in Active \union {s}
    BY <1>1, <1>3 DEF Active
  <2>2. QED BY <1>2, <1>3, <2>1
<1>4. CASE state # "ACTIVE"
  <2>1. \A r : r \in Active' <=> r \in Active \ {s}
    BY <1>1, <1>4 DEF Active
  <2>2. QED BY <1>2, <1>4, <2>1
<1>5. QED BY <1>3, <1>4

(* An activation that goes on with its batch gives its occurrence out of   *)
(* its hands, and nobody else has it.                                      *)
LEMMA ResumeSeen ==
  ASSUME CalendarInv, NEW l \in Loops, NEW batch, Resume(l, batch)
  PROVE  InHand' = InHand \ {loop[l].item}
<1>1. loop'[l].item = NoItem /\ \A m \in Loops \ {l} : loop'[m] = loop[m]
  BY DEF Resume, Asleep, CalendarInv, SchedInv, SchedTypeOK
<1>2. \A m \in Loops \ {l} : loop[l].item # NoItem => loop[m].item # loop[l].item
  BY DEF CalendarInv, SchedInv, OccurrencesAreClaimedOnce
<1>3. QED BY <1>1, <1>2 DEF InHand

(* What does not touch the calendar's variables is a stutter.              *)
LEMMA NothingSeen ==
  UNCHANGED <<now, sched, scans>> /\ InHand' = InHand => UNCHANGED Calendar!vars
BY DEF Calendar!vars, Active, NextRuns

(* Every step of schedules, activations and connections is one of the      *)
(* calendar, or nothing that is seen there.                                *)
LEMMA CalendarStep ==
  ASSUME CalendarInv, [Next]_vars
  PROVE  [Calendar!Next]_Calendar!vars
<1>1. /\ sched \in [Schedules -> [state: {"NONE", "ACTIVE", "PAUSED"}, next: Nat]]
      /\ loop \in [Loops -> [pc: {"asleep", "claiming", "checking", "reading", "enqueuing"},
                             batch: SUBSET Occurrence, item: Occurrence \union {NoItem},
                             seen: Snapshots \union {None}]]
      /\ \A l \in Loops : loop[l].pc \in {"asleep", "claiming"} <=> loop[l].item = NoItem
      /\ NoItem \notin Occurrence
      /\ now \in Nat
  BY PlanAssumption DEF CalendarInv, SchedInv, SchedTypeOK, NoItem, Occurrence
<1>2. SchedTypeOK
  BY DEF CalendarInv, SchedInv
<1> DEFINE Goal == Calendar!Next \/ UNCHANGED Calendar!vars
<1>3. ASSUME UNCHANGED schedVars PROVE Goal
  <2>1. UNCHANGED <<now, sched, scans>> /\ InHand' = InHand
    BY <1>3 DEF schedVars, InHand
  <2>2. QED BY <2>1, NothingSeen
<1>4. ASSUME NEW s \in Schedules, CreateSchedule(s) PROVE Goal
  <2>1. SetSchedule(s, "ACTIVE", NextScheduleRun(now, Plan[s])) /\ sched[s].state = "NONE"
        /\ UNCHANGED <<now, loop, scans>>
    BY <1>4 DEF CreateSchedule
  <2>2. /\ NextRuns' = [NextRuns EXCEPT ![s] = NextScheduleRun(now, Plan[s])]
        /\ Active' = Active \union {s}
    BY <1>2, <2>1, SetScheduleSeen
  <2>3. NextScheduleRun(now, Plan[s]) > now /\ NextScheduleRun(now, Plan[s]) \in Nat
    BY <1>1, NextRunIsLater
  <2>4. NextRuns[s] = 0 /\ NextRuns'[s] = NextScheduleRun(now, Plan[s])
    BY <2>1, <2>2 DEF NextRuns, CalendarInv, SchedInv, FiredIsPast
  <2>5. InHand' = InHand
    BY <2>1 DEF InHand
  <2>6. Calendar!Begin(s)
    BY <2>1, <2>2, <2>3, <2>4, <2>5 DEF Calendar!Begin, Calendar!MoveOn
  <2>7. QED BY <2>6 DEF Calendar!Next
<1>5. ASSUME NEW s \in Schedules, NEW state \in {"ACTIVE", "PAUSED"}, PauseSchedule(s, state)
      PROVE  Goal
  <2>1. SetSchedule(s, state, sched[s].next) /\ sched[s].state # "NONE"
        /\ UNCHANGED <<now, loop, scans>>
    BY <1>5 DEF PauseSchedule
  <2>2. /\ NextRuns' = [NextRuns EXCEPT ![s] = sched[s].next]
        /\ Active' = IF state = "ACTIVE" THEN Active \union {s} ELSE Active \ {s}
    BY <1>2, <2>1, SetScheduleSeen
  <2>3. /\ NextRuns' = NextRuns
        /\ NextRuns[s] > 0
        /\ InHand' = InHand
    <3>1. NextRuns[s] = sched[s].next
      BY DEF NextRuns
    <3>2. NextRuns' = NextRuns
      BY <2>2, <3>1 DEF NextRuns
    <3>3. NextRuns[s] > 0
      BY <2>1, <3>1 DEF CalendarInv, Planned
    <3>4. InHand' = InHand
      BY <2>1 DEF InHand
    <3>5. QED BY <3>2, <3>3, <3>4
  <2>4. CASE state = "ACTIVE"
    <3>1. Calendar!Resume(s)
      BY <2>1, <2>2, <2>3, <2>4 DEF Calendar!Resume
    <3>2. QED BY <3>1 DEF Calendar!Next
  <2>5. CASE state = "PAUSED"
    <3>1. Calendar!Pause(s)
      BY <2>1, <2>2, <2>3, <2>5 DEF Calendar!Pause
    <3>2. QED BY <3>1 DEF Calendar!Next
  <2>6. QED BY <2>4, <2>5
<1>6. ASSUME NEW l \in Loops, FindDue(l) PROVE Goal
  <2>1. InHand' = InHand
    BY <1>1, <1>6 DEF FindDue, InHand, Asleep
  <2>2. QED BY <1>6, <2>1, NothingSeen DEF FindDue
<1>7. ASSUME NEW l \in Loops, ClaimSchedule(l) PROVE Goal
  <2>1. PICK o \in loop[l].batch :
          IF Claimable(o)
          THEN /\ SetSchedule(o.s, sched[o.s].state, NextScheduleRun(o.at, Plan[o.s]))
               /\ loop' = [loop EXCEPT ![l] = [pc |-> "checking", item |-> o, seen |-> None,
                                               batch |-> loop[l].batch \ {o}]]
          ELSE UNCHANGED sched /\ Resume(l, loop[l].batch \ {o})
    BY <1>7 DEF ClaimSchedule
  <2>2. /\ o \in Occurrence /\ o.s \in Schedules /\ o.at \in Nat /\ o = [s |-> o.s, at |-> o.at]
        /\ o.at <= now /\ loop[l].item = NoItem /\ UNCHANGED <<now, scans>>
    BY <1>1, <1>7 DEF ClaimSchedule, Occurrence, CalendarInv, OnTheHour
  <2>3. CASE Claimable(o)
    <3>1. sched[o.s].state = "ACTIVE" /\ sched[o.s].next = o.at
      BY <2>3 DEF Claimable
    <3>2. /\ SetSchedule(o.s, "ACTIVE", NextScheduleRun(o.at, Plan[o.s]))
          /\ loop' = [loop EXCEPT ![l] = [pc |-> "checking", item |-> o, seen |-> None,
                                          batch |-> loop[l].batch \ {o}]]
      BY <2>1, <2>3, <3>1
    <3>3. /\ NextRuns' = [NextRuns EXCEPT ![o.s] = NextScheduleRun(o.at, Plan[o.s])]
          /\ Active' = Active \union {o.s}
      BY <1>2, <2>2, <3>2, SetScheduleSeen
    <3>4. NextScheduleRun(o.at, Plan[o.s]) > o.at /\ NextScheduleRun(o.at, Plan[o.s]) \in Nat
      BY <2>2, NextRunIsLater
    <3>5. /\ o.s \in Active /\ Active' = Active
          /\ NextRuns[o.s] = o.at /\ NextRuns'[o.s] = NextScheduleRun(o.at, Plan[o.s])
      BY <2>2, <3>1, <3>3 DEF Active, NextRuns
    <3>6. InHand' = InHand \union {o}
      <4>1. loop'[l].item = o /\ o # NoItem /\ \A m \in Loops \ {l} : loop'[m] = loop[m]
        BY <1>1, <2>2, <3>2
      <4>2. QED BY <2>2, <4>1 DEF InHand
    <3>7. Calendar!ComeDue(o.s)
      BY <2>2, <3>3, <3>4, <3>5, <3>6 DEF Calendar!ComeDue, Calendar!MoveOn
    <3>8. QED BY <2>2, <3>7 DEF Calendar!Next
  <2>4. CASE ~Claimable(o)
    <3>1. UNCHANGED sched /\ Resume(l, loop[l].batch \ {o})
      BY <2>1, <2>4
    <3>2. InHand' = InHand
      BY <2>2, <3>1, ResumeSeen DEF InHand
    <3>3. QED BY <2>2, <3>1, <3>2, NothingSeen
  <2>5. QED BY <2>3, <2>4
(* An occurrence that is refused, for whatever reason, is missed.          *)
<1>8. ASSUME NEW l \in Loops, Resume(l, loop[l].batch), UNCHANGED <<now, sched, scans>> PROVE Goal
  <2>1. InHand' \subseteq InHand
    BY <1>8, ResumeSeen
  <2>2. Calendar!Miss
    BY <1>8, <2>1 DEF Calendar!Miss, Active, NextRuns
  <2>3. QED BY <2>2 DEF Calendar!Next
<1>9. ASSUME NEW l \in Loops, CheckAccount(l) \/ FindSnapshot(l) PROVE Goal
  <2>1. UNCHANGED <<now, sched, scans>>
    BY <1>2, <1>9, EnqueueScanReads
  <2>2. CASE Resume(l, loop[l].batch)
    BY <1>8, <2>1, <2>2
  <2>3. CASE GoesOn(l)
    <3>1. InHand' = InHand
      BY <1>1, <2>3 DEF InHand, GoesOn
    <3>2. QED BY <2>1, <3>1, NothingSeen
  <2>4. QED BY <1>2, <1>9, <2>2, <2>3, EnqueueScanReads
<1>10. ASSUME NEW l \in Loops, EnqueueOccurrence(l) PROVE Goal
  <2> DEFINE o == loop[l].item
             k == <<AccountOf(l), loop[l].seen>>
  <2>1. /\ UNCHANGED <<now, sched>> /\ Resume(l, loop[l].batch)
        /\ o # NoItem /\ k \in Inventories
        /\ \/ UNCHANGED scans
           \/ /\ \A r \in scans : r.of # k
              /\ scans' = scans \union {[of |-> k, by |-> o]}
    BY <1>2, <1>10, ScanIsEnqueued
  <2>2. o \in InHand /\ InHand' = InHand \ {o}
    BY <2>1, ResumeSeen DEF InHand
  <2>3. CASE UNCHANGED scans
    BY <1>8, <2>1, <2>3
  <2>4. CASE ~UNCHANGED scans
    <3>1. Calendar!Scan(o)
      BY <2>1, <2>4 DEF Calendar!Scan
    <3>2. Calendar!Fire(o)
      BY <2>1, <2>2, <3>1 DEF Calendar!Fire, Active, NextRuns
    <3>3. QED BY <2>2, <3>2 DEF Calendar!Next
  <2>5. QED BY <2>3, <2>4
<1>11. ASSUME NEW l \in Loops, OccurrenceRefused(l) PROVE Goal
  BY <1>8, <1>11 DEF OccurrenceRefused
<1>12. ASSUME NEW t \in Instants, Tick(t) PROVE Goal
  <2>1. Calendar!Tick
    BY <1>12 DEF Tick, Calendar!Tick, Active, NextRuns, InHand
  <2>2. QED BY <2>1 DEF Calendar!Next
<1>13. ASSUME Crash PROVE Goal
  <2>1. InHand' = {}
    BY <1>13 DEF Crash, InHand, Asleep
  <2>2. Calendar!Miss
    BY <1>13, <2>1 DEF Crash, Calendar!Miss, Active, NextRuns
  <2>3. QED BY <2>2 DEF Calendar!Next
<1>14. ASSUME NEW a \in Scheduled, RequestScan(a) PROVE Goal
  <2>1. Calendar!Scan(NoItem) /\ UNCHANGED <<now, sched, loop>>
    BY <1>2, <1>14, ScanIsRequested DEF Calendar!Scan
  <2>2. Calendar!AskForScan
    BY <2>1 DEF Calendar!AskForScan, Active, NextRuns, InHand
  <2>3. QED BY <2>2 DEF Calendar!Next
<1>15. ASSUME NEW a \in Scheduled, NEW i \in Snapshots, InventoryChanges(a, i) PROVE Goal
  <2>1. UNCHANGED <<now, sched, scans>> /\ InHand' = InHand
    BY <1>15 DEF InventoryChanges, InHand
  <2>2. QED BY <2>1, NothingSeen
<1>16. Goal
  BY <1>3, <1>4, <1>5, <1>6, <1>7, <1>9, <1>10, <1>11, <1>12, <1>13, <1>14, <1>15
  DEF Next, SchedStep, vars, schedVars
<1>17. QED BY <1>16

(* The schedules implement ScanCalendar, for any number of schedules,      *)
(* activations and instants and in any time zone: however activations      *)
(* race, die or are refused, an occurrence comes due once and at its time, *)
(* and fires at most once, for an inventory that nobody had scanned        *)
(* (processDueSchedules, enqueueScan).                                     *)
THEOREM RefinesCalendarHolds == Spec => RefinesCalendar
<1>1. Init => Calendar!Init
  BY DEF Init, Calendar!Init, Active, NextRuns, InHand, Asleep
<1>2. CalendarInv /\ [Next]_vars => [Calendar!Next]_Calendar!vars
  BY CalendarStep
<1>3. QED BY <1>1, <1>2, CalendarInvHolds, PTL DEF Spec, Calendar!Spec, RefinesCalendar

-----------------------------------------------------------------------------
(* What the calendar promises.                                             *)

(* Next runs are instants, occurrences are those of schedules, nothing     *)
(* fires early or comes due again, and no two scans are of one inventory   *)
(* or by one occurrence.                                                   *)
HandledInv ==
  /\ now \in Nat
  /\ NextRuns \in [Schedules -> Nat]
  /\ \A o \in InHand \union Fired : o.s \in Schedules /\ o.at \in Nat
  /\ NoItem \notin InHand
  /\ Calendar!HandledInTime
  /\ Calendar!OneScanEach

LEMMA FiredSeen == Calendar!Fired = Fired
BY DEF Calendar!Fired, Fired

(* A new scan keeps the scans apart if its occurrence had not fired.       *)
LEMMA ScanIsAnother ==
  ASSUME Calendar!OneScanEach, NEW o, Calendar!Scan(o), o = NoItem \/ o \notin Fired
  PROVE  /\ Calendar!OneScanEach' /\ scans \subseteq scans'
         /\ Fired' = Fired \union ({o} \ {NoItem})
<1>1. PICK k \in Inventories : /\ \A r \in scans : r.of # k
                              /\ scans' = scans \union {[of |-> k, by |-> o]}
  BY DEF Calendar!Scan
<1>2. Calendar!OneScanEach'
  <2>1. SUFFICES ASSUME NEW p \in scans', NEW q \in scans',
                        p.of = q.of \/ (p.by = q.by /\ p.by # NoItem)
                 PROVE  p = q
    BY DEF Calendar!OneScanEach
  <2>2. o # NoItem => \A r \in scans : r.by # o
    BY DEF Fired
  <2>3. QED BY <1>1, <2>1, <2>2 DEF Calendar!OneScanEach
<1>3. Fired' = Fired \union ({o} \ {NoItem})
  BY <1>1, FiredWith
<1>4. QED BY <1>1, <1>2, <1>3

LEMMA HandledStep ==
  ASSUME HandledInv, [Calendar!Next]_Calendar!vars
  PROVE  HandledInv' /\ scans \subseteq scans' /\ InHand' \intersect Fired = {}
<1> DEFINE T == /\ now \in Nat
                /\ NextRuns \in [Schedules -> Nat]
                /\ \A o \in InHand \union Fired : o.s \in Schedules /\ o.at \in Nat
                /\ NoItem \notin InHand
                /\ InHand \intersect Fired = {}
                /\ \A o \in InHand \union Fired : o.at <= now /\ o.at < NextRuns[o.s]
           Goal == T' /\ InHand' \intersect Fired = {}
           Scans == Calendar!OneScanEach' /\ scans \subseteq scans'
<1>t. T
  BY FiredSeen DEF HandledInv, Calendar!HandledInTime
<1>f. ASSUME UNCHANGED scans PROVE UNCHANGED Fired /\ Scans
  BY <1>f DEF Fired, HandledInv, Calendar!OneScanEach
<1>o. Calendar!OneScanEach
  BY DEF HandledInv
<1> SUFFICES Goal /\ Scans
  BY FiredSeen DEF HandledInv, Calendar!HandledInTime, Calendar!Fired, Fired
<1> HIDE DEF Scans
<1>1. ASSUME NEW s \in Schedules, NEW t \in Nat, Calendar!MoveOn(s, t), NextRuns[s] <= t
      PROVE  /\ NextRuns' \in [Schedules -> Nat]
             /\ \A r \in Schedules : NextRuns'[r] >= NextRuns[r]
             /\ NextRuns'[s] > t
  BY <1>t, <1>1 DEF Calendar!MoveOn
<1>2. ASSUME NEW s \in Schedules, Calendar!Begin(s) PROVE Goal /\ Scans
  <2>1. UNCHANGED <<now, InHand, Fired>> /\ Calendar!MoveOn(s, now) /\ NextRuns[s] <= now /\ Scans
    BY <1>t, <1>f, <1>2 DEF Calendar!Begin
  <2>2. QED BY <1>t, <2>1, <1>1
<1>3. ASSUME NEW s \in Schedules, Calendar!Pause(s) \/ Calendar!Resume(s) PROVE Goal /\ Scans
  <2>1. UNCHANGED <<now, InHand, Fired, NextRuns>> /\ Scans
    BY <1>f, <1>3 DEF Calendar!Pause, Calendar!Resume
  <2>2. QED BY <1>t, <2>1
<1>4. ASSUME NEW s \in Schedules, Calendar!ComeDue(s) PROVE Goal /\ Scans
  <2> DEFINE o == [s |-> s, at |-> NextRuns[s]]
  <2>1. /\ UNCHANGED <<now, Fired>> /\ InHand' = InHand \union {o} /\ Scans
        /\ Calendar!MoveOn(s, NextRuns[s]) /\ NextRuns[s] <= now
    BY <1>f, <1>4 DEF Calendar!ComeDue
  <2>2. /\ NextRuns' \in [Schedules -> Nat]
        /\ \A r \in Schedules : NextRuns'[r] >= NextRuns[r]
        /\ NextRuns'[s] > NextRuns[s]
    BY <1>t, <2>1, <1>1
  <2>3. o \notin Fired /\ o # NoItem
    BY <1>t, PlanAssumption DEF NoItem
  <2>4. QED BY <1>t, <2>1, <2>2, <2>3
<1>5. ASSUME NEW o \in InHand, Calendar!Fire(o) PROVE Goal /\ Scans
  <2>1. o # NoItem /\ o \notin Fired /\ InHand' = InHand \ {o} /\ UNCHANGED <<now, NextRuns>>
    BY <1>t, <1>5 DEF Calendar!Fire
  <2>2. Scans /\ Fired' = Fired \union {o}
    BY <1>o, <1>5, <2>1, ScanIsAnother DEF Calendar!Fire, Scans
  <2>3. QED BY <1>t, <2>1, <2>2
<1>6. ASSUME Calendar!AskForScan PROVE Goal /\ Scans
  <2>1. UNCHANGED <<now, NextRuns, InHand, Fired>> /\ Scans
    BY <1>o, <1>6, ScanIsAnother DEF Calendar!AskForScan, Scans
  <2>2. QED BY <1>t, <2>1
<1>7. ASSUME Calendar!Miss PROVE Goal /\ Scans
  <2>1. InHand' \subseteq InHand /\ UNCHANGED <<now, NextRuns, Fired>> /\ Scans
    BY <1>f, <1>7 DEF Calendar!Miss
  <2>2. QED BY <1>t, <2>1
<1>8. ASSUME Calendar!Tick PROVE Goal /\ Scans
  <2>1. now' \in Nat /\ now' > now /\ UNCHANGED <<InHand, NextRuns, Fired>> /\ Scans
    BY <1>f, <1>8, PlanAssumption DEF Calendar!Tick
  <2>2. QED BY <1>t, <2>1
<1>9. ASSUME UNCHANGED Calendar!vars PROVE Goal /\ Scans
  <2>1. UNCHANGED <<now, InHand, NextRuns, Fired>> /\ Scans
    BY <1>f, <1>9 DEF Calendar!vars
  <2>2. QED BY <1>t, <2>1
<1>10. QED
  BY <1>2, <1>3, <1>4, <1>5, <1>6, <1>7, <1>8, <1>9 DEF Calendar!Next

(* In the calendar an occurrence is handled at its time or later, what     *)
(* fired does not come due again, and no two scans are of one inventory or *)
(* by one occurrence; so it is with the schedules (processDueSchedules,    *)
(* enqueueScan).                                                           *)
THEOREM OccurrencesFireOnce ==
  Spec => []Calendar!HandledInTime /\ []Calendar!OneScanEach /\ Calendar!FiredStands
<1>1. Calendar!Init => HandledInv
  BY DEF Calendar!Init, HandledInv, Calendar!HandledInTime, Calendar!OneScanEach,
         Calendar!Fired, Fired
<1>2. HandledInv /\ [Calendar!Next]_Calendar!vars => HandledInv'
  BY HandledStep
<1>3. HandledInv /\ [Calendar!Next]_Calendar!vars =>
        [scans \subseteq scans' /\ InHand' \intersect Calendar!Fired = {}]_Calendar!vars
  BY HandledStep, FiredSeen
<1>4. HandledInv => Calendar!HandledInTime /\ Calendar!OneScanEach
  BY DEF HandledInv
<1>5. Calendar!Spec =>
        []Calendar!HandledInTime /\ []Calendar!OneScanEach /\ Calendar!FiredStands
  BY <1>1, <1>2, <1>3, <1>4, PTL DEF Calendar!Spec, Calendar!FiredStands
<1>6. QED BY <1>5, RefinesCalendarHolds DEF RefinesCalendar
=============================================================================
