----------------------------- MODULE ScanCalendar -----------------------------
(***************************************************************************)
(* What the schedules of src/src/security-service.ts promise: an           *)
(* occurrence comes due at its time, once and in order, unless its         *)
(* schedule is paused; it fires at most once, or is missed.  Each          *)
(* inventory is scanned once, for an occurrence or for a user: an          *)
(* occurrence that finds nothing new fires nothing.  ScanSchedule, whose   *)
(* activations race for what is due, is shown to implement this module.    *)
(***************************************************************************)
EXTENDS Naturals

CONSTANTS
  Schedules,    \* schedules that may be created
  Instants,     \* the instants considered
  Inventories,  \* what a scan is of: an account and what was found in it
  NoItem        \* stands for the occurrence of a scan that a user asked for

VARIABLES
  clock,  \* the time
  on,     \* the schedules that are not paused
  next,   \* of each schedule: its next occurrence, 0 before it is created
  due,    \* occurrences that came due and are being handled
  scans   \* scans: of which inventory, and by which occurrence

vars == <<clock, on, next, due, scans>>

Init ==
  /\ clock = 0
  /\ on = {}
  /\ next = [s \in Schedules |-> 0]
  /\ due = {} /\ scans = {}

(* The next occurrence of s is some instant after t.                       *)
MoveOn(s, t) ==
  /\ next'[s] \in Nat /\ next'[s] > t
  /\ next' = [next EXCEPT ![s] = next'[s]]

Begin(s) ==
  /\ next[s] = 0
  /\ MoveOn(s, clock)
  /\ on' = on \union {s}
  /\ UNCHANGED <<clock, due, scans>>

Pause(s) == on' = on \ {s} /\ UNCHANGED <<clock, next, due, scans>>

Resume(s) ==
  /\ next[s] > 0
  /\ on' = on \union {s}
  /\ UNCHANGED <<clock, next, due, scans>>

(* Each occurrence comes due by itself, before the one that follows it.    *)
ComeDue(s) ==
  /\ s \in on /\ next[s] <= clock
  /\ MoveOn(s, next[s])
  /\ due' = due \union {[s |-> s, at |-> next[s]]}
  /\ UNCHANGED <<clock, on, scans>>

Scan(o) ==
  \E k \in Inventories :
    /\ \A r \in scans : r.of # k
    /\ scans' = scans \union {[of |-> k, by |-> o]}

Fire(o) ==
  /\ due' = due \ {o}
  /\ Scan(o)
  /\ UNCHANGED <<clock, on, next>>

AskForScan == Scan(NoItem) /\ UNCHANGED <<clock, on, next, due>>

(* The account takes no scan, its inventory has one, or the process dies.  *)
Miss ==
  /\ due' \subseteq due
  /\ UNCHANGED <<clock, on, next, scans>>

Tick ==
  /\ clock' \in Instants /\ clock' > clock
  /\ UNCHANGED <<on, next, due, scans>>

Next ==
  \/ \E s \in Schedules : Begin(s) \/ Pause(s) \/ Resume(s) \/ ComeDue(s)
  \/ \E o \in due : Fire(o)
  \/ AskForScan
  \/ Miss
  \/ Tick

Spec == Init /\ [][Next]_vars

-----------------------------------------------------------------------------
Fired == {r.by : r \in scans} \ {NoItem}

(* An occurrence is handled at its time or later, before the next one is   *)
(* due, and not after it fired.                                            *)
HandledInTime ==
  /\ due \intersect Fired = {}
  /\ \A o \in due \union Fired : o.at <= clock /\ o.at < next[o.s]

(* No two scans are of one inventory, or by one occurrence.                *)
OneScanEach ==
  \A p, q \in scans : p.of = q.of \/ (p.by = q.by /\ p.by # NoItem) => p = q

(* What fired does not come due again.                                     *)
FiredStands == [][scans \subseteq scans' /\ due' \intersect Fired = {}]_vars
=============================================================================
