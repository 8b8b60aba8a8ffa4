----------------------------- MODULE ScanSchedule -----------------------------
(***************************************************************************)
(* Calendar schedules (createSchedule, pauseSchedule, processDueSchedules  *)
(* and nextScheduleRun in src/src/security-service.ts), composed with the  *)
(* connections whose status admits their scans.  Every server process      *)
(* looks for due schedules once a minute, without waiting for its previous *)
(* look, so several activations may process the same schedule.             *)
(*                                                                         *)
(* Time counts hours in UTC.  An inventory is known by its fingerprint     *)
(* alone.  Whether an account has a scan in progress is left open: it is   *)
(* one of the reasons to refuse an occurrence.                             *)
(***************************************************************************)
EXTENDS AwsConnections, Integers, FiniteSets

CONSTANTS
  Schedules,  \* ScanSchedule rows that may be created
  Plan,       \* of each schedule: account, localTime's hour, days and UTC offset
  Snapshots,  \* fingerprints of an account's inventory
  Loops,      \* activations of processDueSchedules (bounds the model)
  Instants    \* the instants considered

ASSUME PlanAssumption ==
  /\ None \notin Schedules
  /\ 0 \in Instants /\ Instants \subseteq Nat
  /\ Plan \in [Schedules -> [account: AwsAccounts, hour: 0..23, days: {1, 7},
                             offset: -12..14]]

(* The inventories and scans of other accounts are not seen here.          *)
Scheduled == {Plan[s].account : s \in Schedules}

VARIABLES
  now,        \* the time
  sched,      \* ScanSchedule: state and nextRunAt
  loop,       \* local state of each activation
  inventory,  \* fingerprint of a scheduled account's AwsResource rows
  scans       \* SecurityScanRun: idempotencyKey and correlationId

schedVars == <<now, sched, loop, inventory, scans>>
vars == <<connVars, schedVars>>

(* What processDueSchedules read: a schedule and its nextRunAt.            *)
Occurrence == [s: Schedules, at: Nat]
NoItem == [s |-> None, at |-> 0]
Asleep == [pc |-> "asleep", batch |-> {}, item |-> NoItem, seen |-> None]

(* The key of a scan that was asked for without one is the account and the *)
(* fingerprint; the occurrence is in its correlation id only.              *)
Inventories == Scheduled \X Snapshots
ScanOf(a, i, o) == [of |-> <<a, i>>, by |-> o]

SchedTypeOK ==
  /\ ConnTypeOK
  /\ now \in Instants
  /\ sched \in [Schedules -> [state: {"NONE", "ACTIVE", "PAUSED"}, next: Nat]]
  /\ inventory \in [Scheduled -> Snapshots]
  /\ scans \subseteq [of: Inventories, by: Occurrence \union {NoItem}]
  /\ loop \in [Loops -> [pc: {"asleep", "claiming", "checking", "reading", "enqueuing"},
                         batch: SUBSET Occurrence, item: Occurrence \union {NoItem},
                         seen: Snapshots \union {None}]]
  /\ \A l \in Loops : /\ loop[l].pc \in {"asleep", "claiming"} <=> loop[l].item = NoItem
                      /\ loop[l].pc = "enqueuing" => loop[l].seen \in Snapshots

Init ==
  /\ ConnInit
  /\ now = 0
  /\ sched = [s \in Schedules |-> [state |-> "NONE", next |-> 0]]
  /\ loop = [l \in Loops |-> Asleep]
  /\ inventory \in [Scheduled -> Snapshots]
  /\ scans = {}

-----------------------------------------------------------------------------
(* nextScheduleRun takes the date that the time zone has one period later, *)
(* and puts the local hour on it as if it were an hour of UTC.             *)
DateIn(plan, hour) == (hour + plan.offset) \div 24
Period(plan) == 24 * plan.days

NextScheduleRun(after, plan) ==
  LET utc == DateIn(plan, after + Period(plan)) * 24 + plan.hour
  IN  IF utc > after THEN utc ELSE utc + Period(plan)

SetSchedule(s, state, next) ==
  sched' = [sched EXCEPT ![s] = [state |-> state, next |-> next]]

CreateSchedule(s) ==
  /\ sched[s].state = "NONE"
  /\ accounts[Plan[s].account].status # "NONE"
  /\ SetSchedule(s, "ACTIVE", NextScheduleRun(now, Plan[s]))
  /\ UNCHANGED <<connVars, now, loop, inventory, scans>>

(* pauseSchedule, and the same call that ends a pause.                     *)
PauseSchedule(s, state) ==
  /\ sched[s].state # "NONE"
  /\ SetSchedule(s, state, sched[s].next)
  /\ UNCHANGED <<connVars, now, loop, inventory, scans>>

-----------------------------------------------------------------------------
(* processDueSchedules: read what is due, then claim and enqueue one after *)
(* the other, the earliest first.                                          *)

DueNow == {s \in Schedules : sched[s].state = "ACTIVE" /\ sched[s].next <= now}

FindDue(l) ==
  /\ loop[l] = Asleep
  /\ DueNow # {}
  /\ loop' = [loop EXCEPT ![l] =
       [pc |-> "claiming", item |-> NoItem, seen |-> None,
        batch |-> {[s |-> s, at |-> sched[s].next] : s \in DueNow}]]
  /\ UNCHANGED <<connVars, now, sched, inventory, scans>>

\* Mistake: nextRunAt, the pause, is not compared.
ClaimableAnyTime(o) == sched[o.s].state = "ACTIVE"
ClaimablePaused(o) == sched[o.s].next = o.at
Claimable(o) == sched[o.s].state = "ACTIVE" /\ sched[o.s].next = o.at

(* On to what remains of the batch.                                        *)
\* Mistake: the claimed occurrence is kept.
ResumeKeepingItem(l, batch) ==
  loop' = [loop EXCEPT ![l].pc = "claiming", ![l].batch = batch]
Resume(l, batch) ==
  loop' = [loop EXCEPT ![l] =
    IF batch = {} THEN Asleep
    ELSE [pc |-> "claiming", batch |-> batch, item |-> NoItem, seen |-> None]]

ClaimSchedule(l) ==
  /\ loop[l].pc = "claiming"
  /\ \E o \in loop[l].batch :
       /\ \A p \in loop[l].batch : o.at <= p.at
       /\ IF Claimable(o)
          THEN /\ SetSchedule(o.s, sched[o.s].state, NextScheduleRun(o.at, Plan[o.s]))
               /\ loop' = [loop EXCEPT ![l] = [pc |-> "checking", item |-> o, seen |-> None,
                                               batch |-> loop[l].batch \ {o}]]
          ELSE UNCHANGED sched /\ Resume(l, loop[l].batch \ {o})
  /\ UNCHANGED <<connVars, now, inventory, scans>>

(* enqueueScan, which processDueSchedules calls without a key.  A refused  *)
(* occurrence is lost.                                                     *)

Admits(a) == accounts[a].status = "ACTIVE" /\ conns[accounts[a].conn].status = "ACTIVE"
AccountOf(l) == Plan[loop[l].item.s].account

\* Mistake: the key is not unique.
HasNoScan(a, i) == FALSE
HasScan(a, i) == \E r \in scans : r.of = <<a, i>>

CheckAccount(l) ==
  /\ loop[l].pc = "checking"
  /\ IF Admits(AccountOf(l))
     THEN loop' = [loop EXCEPT ![l].pc = "reading"]
     ELSE Resume(l, loop[l].batch)
  /\ UNCHANGED <<connVars, now, sched, inventory, scans>>

(* The inventory is read, and the scan with its key: an inventory that was *)
(* scanned before answers the occurrence with its old scan.  (A scan that  *)
(* is created between the two reads is found below, to the same end.)      *)
FindSnapshot(l) ==
  /\ loop[l].pc = "reading"
  /\ LET i == inventory[AccountOf(l)] IN
     IF HasScan(AccountOf(l), i)
     THEN Resume(l, loop[l].batch)
     ELSE loop' = [loop EXCEPT ![l].pc = "enqueuing", ![l].seen = i]
  /\ UNCHANGED <<connVars, now, sched, inventory, scans>>

(* The transaction; another scan may have taken the key meanwhile, and     *)
(* then it is the answer.                                                  *)
EnqueueOccurrence(l) ==
  /\ loop[l].pc = "enqueuing"
  /\ scans' = IF HasScan(AccountOf(l), loop[l].seen) THEN scans
              ELSE scans \union {ScanOf(AccountOf(l), loop[l].seen, loop[l].item)}
  /\ Resume(l, loop[l].batch)
  /\ UNCHANGED <<connVars, now, sched, inventory>>

(* Another scan of the account is in progress, or a statement fails; the   *)
(* catch goes on with the next schedule.                                   *)
OccurrenceRefused(l) ==
  /\ "refused" \in Environment
  /\ loop[l].pc \in {"checking", "reading", "enqueuing"}
  /\ Resume(l, loop[l].batch)
  /\ UNCHANGED <<connVars, now, sched, inventory, scans>>

(* A discovery finds other resources, or those it had found before.        *)
InventoryChanges(a, i) ==
  /\ accounts[a].status # "NONE" /\ i # inventory[a]
  /\ inventory' = [inventory EXCEPT ![a] = i]
  /\ UNCHANGED <<connVars, now, sched, loop, scans>>

(* A user asks for a scan of a new inventory, with no key.  (One with a    *)
(* key of the user's takes no part in what follows.)                       *)
RequestScan(a) ==
  /\ Admits(a) /\ ~HasScan(a, inventory[a])
  /\ scans' = scans \union {ScanOf(a, inventory[a], NoItem)}
  /\ UNCHANGED <<connVars, now, sched, loop, inventory>>

Tick(t) ==
  /\ t > now /\ \A u \in Instants : u > now => u >= t
  /\ now' = t
  /\ UNCHANGED <<connVars, sched, loop, inventory, scans>>

Crash ==
  /\ "crash" \in Environment
  /\ RequestsDie
  /\ loop' = [l \in Loops |-> Asleep]
  /\ UNCHANGED <<conns, accounts, now, sched, inventory, scans>>

SchedStep ==
  \/ \E s \in Schedules :
       CreateSchedule(s) \/ \E state \in {"ACTIVE", "PAUSED"} : PauseSchedule(s, state)
  \/ \E l \in Loops :
       FindDue(l) \/ ClaimSchedule(l) \/ CheckAccount(l) \/ FindSnapshot(l)
       \/ EnqueueOccurrence(l) \/ OccurrenceRefused(l)
  \/ \E a \in Scheduled : RequestScan(a) \/ \E i \in Snapshots : InventoryChanges(a, i)
  \/ \E t \in Instants : Tick(t)
  \/ Crash

Next == (ConnStep /\ UNCHANGED schedVars) \/ SchedStep

Spec == Init /\ [][Next]_vars

-----------------------------------------------------------------------------
(* Properties.                                                             *)

Fired == {r.by : r \in scans} \ {NoItem}

(* An occurrence is claimed by one activation, and never after it has      *)
(* fired, however many processes read it while it was due                  *)
(* (processDueSchedules' conditional update).                              *)
OccurrencesAreClaimedOnce ==
  \A l \in Loops : loop[l].item # NoItem =>
    /\ loop[l].item \notin Fired
    /\ \A m \in Loops \ {l} : loop[m].item # loop[l].item
    /\ loop[l].item.at < sched[loop[l].item.s].next

(* A schedule moves only when it is due and not paused, and exactly one    *)
(* period: no occurrence is skipped or repeated (processDueSchedules with  *)
(* nextScheduleRun, whose date is right while localTime, taken as an hour  *)
(* of UTC, is not on the next day in the schedule's time zone, nor, for a  *)
(* weekly schedule, on the day before).                                    *)
SchedulesKeepTime ==
  [][\A s \in Schedules :
       sched[s].state # "NONE" /\ sched'[s].next # sched[s].next =>
         /\ sched[s].state = "ACTIVE"
         /\ sched[s].next <= now
         /\ sched'[s].next = sched[s].next + Period(Plan[s])]_sched

(* What a user sees of schedules: which are active, their next runs and    *)
(* the occurrences that activations have in hand.                          *)
Active == {s \in Schedules : sched[s].state = "ACTIVE"}
NextRuns == [s \in Schedules |-> sched[s].next]
InHand == {loop[l].item : l \in Loops} \ {NoItem}

Calendar == INSTANCE ScanCalendar
  WITH clock <- now, on <- Active, next <- NextRuns, due <- InHand

(* The schedules implement ScanCalendar: however activations race, die or  *)
(* are refused, an occurrence comes due once, at its time and not while    *)
(* the schedule is paused; it fires at most once, and only for an          *)
(* inventory that no occurrence and no user had scanned                    *)
(* (processDueSchedules, enqueueScan).                                     *)
RefinesCalendar == Calendar!Spec
=============================================================================
