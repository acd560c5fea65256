----------------------------- MODULE NodeTraffic -----------------------------
(***************************************************************************)
(* The traffic of the nodes: the recordNodeUsage job, which takes a node's  *)
(* counters, writes them to its hourly history and adds them to its used    *)
(* traffic, and the two ways a used traffic is set back to zero: the daily  *)
(* task, on the node's day of the month, and an administrator's request.    *)
(* Both read the used traffic, archive what they read and then write zero,  *)
(* with an await in between; the task reads all nodes at its beginning.     *)
(***************************************************************************)
EXTENDS Naturals, Sequences

CONSTANTS
    Nodes,
    None,
    Months,       \* the lengths of the months modelled, in days
    ResetDays,    \* values of nodes.traffic_reset_day; 0 stands for null too
    MaxBytes,     \* bound: bytes that pass through a node
    MaxRequests,  \* bound: what administrators ask for
    MaxMishaps    \* bound: failed statements, lost answers and crashes

ASSUME TrafficAssumption ==
    /\ None \notin Nodes /\ None \notin Nat
    /\ Months \in Seq(Nat \ {0}) /\ Months # <<>>
    /\ ResetDays \subseteq Nat

VARIABLES
    tracking,  \* tracking[n]: nodes.is_traffic_tracking_active
    resetDay,  \* resetDay[n]: nodes.traffic_reset_day
    used,      \* used[n]: nodes.traffic_used_bytes
    history,   \* history[n]: the bytes of n in nodes_usage_history
    archived,  \* archived[n]: the bytes of n in nodes_traffic_usage_history
    passed,    \* passed[n]: bytes that ever passed through n
    counter,   \* counter[n]: bytes xray has counted since it was asked
    job,       \* job[n]: the recordNodeUsage job of n, or None
    month, day,
    ticked,    \* the daily task has had its turn today
    reset,     \* reset[s]: a run of the task, an administrator's reset, or None
    requests, mishaps,
    skewed,    \* nodes one of whose figures is known to be off (history)
    resets,    \* resets[n]: how often the task zeroed n this month (history)
    disturbed  \* nodes whose settings changed, or turn failed, this month (history)

rowVars == <<tracking, resetDay>>
tableVars == <<used, history, archived>>
clockVars == <<month, day, ticked>>
jobVars == <<passed, counter, job>>
vars == <<rowVars, tableVars, clockVars, jobVars, reset, requests, mishaps,
          skewed, resets, disturbed>>

Resetters == {"task", "request"}
Stage == {"history", "count"}
Job == [at : Stage, bytes : Nat]
Reset == [todo : SUBSET Nodes, read : [Nodes -> Nat], zeroing : Nodes \cup {None}]

ASSUME SlotAssumption == None \notin Job /\ None \notin Reset

TypeOK ==
    /\ tracking \in [Nodes -> BOOLEAN]
    /\ resetDay \in [Nodes -> Nat]
    /\ used \in [Nodes -> Nat]
    /\ history \in [Nodes -> Nat] /\ archived \in [Nodes -> Nat]
    /\ passed \in [Nodes -> Nat] /\ counter \in [Nodes -> Nat]
    /\ job \in [Nodes -> Job \cup {None}]
    /\ month \in DOMAIN Months /\ day \in 1..Months[month]
    /\ ticked \in BOOLEAN
    /\ reset \in [Resetters -> Reset \cup {None}]
    /\ requests \in Nat /\ mishaps \in Nat
    /\ skewed \in SUBSET Nodes /\ disturbed \in SUBSET Nodes
    /\ resets \in [Nodes -> Nat]

Init ==
    /\ tracking \in [Nodes -> BOOLEAN]
    /\ resetDay \in [Nodes -> ResetDays]
    /\ used = [n \in Nodes |-> 0] /\ history = used /\ archived = used
    /\ passed = used /\ counter = used
    /\ job = [n \in Nodes |-> None]
    /\ month = 1 /\ day = 1 /\ ticked = FALSE
    /\ reset = [s \in Resetters |-> None]
    /\ requests = 0 /\ mishaps = 0
    /\ skewed = {} /\ disturbed = {}
    /\ resets = used

Mishap ==
    /\ mishaps < MaxMishaps
    /\ mishaps' = mishaps + 1

Request ==
    /\ requests < MaxRequests
    /\ requests' = requests + 1

(* s has read the used traffic of n and not yet zeroed it.                   *)
Holds(s, n) == reset[s] # None /\ (n \in reset[s].todo \/ n = reset[s].zeroing)
Held(n) == \E s \in Resetters : Holds(s, n)

-----------------------------------------------------------------------------
(* recordNodeUsage.                                                         *)

Transfer(n) ==
    /\ passed[n] < MaxBytes
    /\ passed' = [passed EXCEPT ![n] = @ + 1]
    /\ counter' = [counter EXCEPT ![n] = @ + 1]
    /\ UNCHANGED <<rowVars, tableVars, clockVars, job, reset, requests, mishaps, skewed, resets, disturbed>>

In(n, at) == job[n] # None /\ job[n].at = at

(* The job's id is the node's: there is one at a time.  The node forgets its *)
(* counters as it answers, whether the answer arrives or not.               *)
FetchStats(n) ==
    /\ job[n] = None
    /\ counter' = [counter EXCEPT ![n] = 0]
    /\ \/ /\ job' = [job EXCEPT ![n] = IF counter[n] = 0 THEN None
                                       ELSE [at |-> "history", bytes |-> counter[n]]]
          /\ UNCHANGED mishaps
       \/ /\ Mishap
          /\ UNCHANGED job
    /\ UNCHANGED <<rowVars, tableVars, clockVars, passed, reset, requests, skewed, resets, disturbed>>

(* A history that cannot be written is logged, and the job goes on.          *)
WriteHistory(n) ==
    /\ In(n, "history")
    /\ \/ /\ history' = [history EXCEPT ![n] = @ + job[n].bytes]
          /\ UNCHANGED <<mishaps, skewed>>
       \/ /\ Mishap
          /\ skewed' = skewed \cup {n}
          /\ UNCHANGED history
    /\ job' = [job EXCEPT ![n].at = "count"]
    /\ UNCHANGED <<rowVars, used, archived, clockVars, passed, counter, reset, requests, resets, disturbed>>

(* What is added between the read and the zero of a reset is lost.           *)
CountUsage(n) ==
    /\ In(n, "count")
    /\ \/ /\ used' = [used EXCEPT ![n] = @ + job[n].bytes]
          /\ skewed' = IF Held(n) THEN skewed \cup {n} ELSE skewed
          /\ UNCHANGED mishaps
       \/ /\ Mishap
          /\ skewed' = skewed \cup {n}
          /\ UNCHANGED used
    /\ job' = [job EXCEPT ![n] = None]
    /\ UNCHANGED <<rowVars, history, archived, clockVars, passed, counter, reset, requests, resets, disturbed>>

(* A worker dies: the job starts again, as the next one would.               *)
CrashRecord(n) ==
    /\ job[n] # None
    /\ Mishap
    /\ skewed' = IF In(n, "count") THEN skewed \cup {n} ELSE skewed
    /\ job' = [job EXCEPT ![n] = None]
    /\ UNCHANGED <<rowVars, tableVars, clockVars, passed, counter, reset, requests, resets, disturbed>>

-----------------------------------------------------------------------------
(* The resets.                                                              *)

(* Fault: the end of the first month is taken for that of every month.        *)
LastDay_First == Months[1]
LastDay == Months[month]
DayOf(n) == IF resetDay[n] = 0 THEN 1 ELSE resetDay[n]

(* Fault: a day that the month does not have is waited for.                  *)
IsDue_Exact(d) == day = d
IsDue(d) == (d > LastDay /\ day = LastDay) \/ day = d

(* A reset begins by reading the used traffic of the nodes in S.             *)
Begin(s, S) ==
    /\ reset' = [reset EXCEPT ![s] =
        IF S = {} THEN None ELSE [todo |-> S, read |-> used, zeroing |-> None]]
    /\ skewed' = skewed \cup {n \in S : Held(n)}

StartTask ==
    /\ ~ticked
    /\ ticked' = TRUE
    /\ Begin("task", {n \in Nodes : tracking[n] /\ IsDue(DayOf(n))})
    /\ UNCHANGED <<rowVars, tableVars, month, day, jobVars, requests, mishaps, resets, disturbed>>

(* The process is down at the time of the task, or cannot read the nodes.    *)
MissTask ==
    /\ ~ticked
    /\ ticked' = TRUE
    /\ Mishap
    /\ disturbed' = Nodes
    /\ UNCHANGED <<rowVars, tableVars, month, day, jobVars, reset, requests, skewed, resets>>

RequestReset(n) ==
    /\ reset["request"] = None
    /\ Request
    /\ Begin("request", {n})
    /\ UNCHANGED <<rowVars, tableVars, clockVars, jobVars, mishaps, resets, disturbed>>

(* The bytes read at the beginning are archived; if that fails it is logged, *)
(* and the node is zeroed all the same.                                      *)
Archive(s, n) ==
    /\ reset[s] # None /\ reset[s].zeroing = None
    /\ n \in reset[s].todo
    /\ reset' = [reset EXCEPT ![s].todo = @ \ {n}, ![s].zeroing = n]
    /\ \/ /\ archived' = [archived EXCEPT ![n] = @ + reset[s].read[n]]
          /\ UNCHANGED <<mishaps, skewed>>
       \/ /\ Mishap
          /\ skewed' = skewed \cup {n}
          /\ UNCHANGED archived
    /\ UNCHANGED <<rowVars, used, history, clockVars, jobVars, requests, resets, disturbed>>

(* Fault: an administrator's reset archives the traffic and leaves it.        *)
Zeroed_Keep(s, n) == IF s = "task" THEN 0 ELSE used[n]
Zeroed(s, n) == 0

(* On to the next node, or to the end.                                       *)
Advance(s) ==
    reset' = [reset EXCEPT ![s] = IF reset[s].todo = {} THEN None ELSE [@ EXCEPT !.zeroing = None]]

Zero(s) ==
    /\ reset[s] # None /\ reset[s].zeroing # None
    /\ LET n == reset[s].zeroing IN
        \/ /\ used' = [used EXCEPT ![n] = Zeroed(s, n)]
           /\ resets' = IF s = "task" THEN [resets EXCEPT ![n] = @ + 1] ELSE resets
           /\ skewed' = IF \E t \in Resetters \ {s} : Holds(t, n) THEN skewed \cup {n} ELSE skewed
           /\ UNCHANGED <<mishaps, disturbed>>
        \/ /\ Mishap
           /\ skewed' = skewed \cup {n}
           /\ disturbed' = IF s = "task" THEN disturbed \cup {n} ELSE disturbed
           /\ UNCHANGED <<used, resets>>
    /\ Advance(s)
    /\ UNCHANGED <<rowVars, history, archived, clockVars, jobVars, requests>>

(* The process stops in the middle of a reset.                               *)
CrashReset(s) ==
    /\ reset[s] # None
    /\ Mishap
    /\ skewed' = IF reset[s].zeroing = None THEN skewed ELSE skewed \cup {reset[s].zeroing}
    /\ disturbed' = disturbed \cup {n \in Nodes : s = "task" /\ Holds(s, n)}
    /\ reset' = [reset EXCEPT ![s] = None]
    /\ UNCHANGED <<rowVars, tableVars, clockVars, jobVars, requests, resets>>

-----------------------------------------------------------------------------

(* updateNode: the settings of a node change.                                *)
EditNode(n) ==
    /\ Request
    /\ \E d \in ResetDays : resetDay' = [resetDay EXCEPT ![n] = d]
    /\ \E b \in BOOLEAN : tracking' = [tracking EXCEPT ![n] = b]
    /\ disturbed' = disturbed \cup {n}
    /\ UNCHANGED <<tableVars, clockVars, jobVars, reset, mishaps, skewed, resets>>

(* The task ends on the day it began.                                        *)
Midnight ==
    /\ ticked /\ reset["task"] = None
    /\ ticked' = FALSE
    /\ \/ /\ day < LastDay
          /\ day' = day + 1
          /\ UNCHANGED <<month, resets, disturbed>>
       \/ /\ day = LastDay /\ month + 1 \in DOMAIN Months
          /\ month' = month + 1 /\ day' = 1
          /\ resets' = [n \in Nodes |-> 0] /\ disturbed' = {}
    /\ UNCHANGED <<rowVars, tableVars, jobVars, reset, requests, mishaps, skewed>>

Next ==
    \/ \E n \in Nodes :
        \/ Transfer(n) \/ FetchStats(n) \/ WriteHistory(n)
        \/ CountUsage(n) \/ CrashRecord(n) \/ RequestReset(n) \/ EditNode(n)
    \/ StartTask \/ MissTask \/ Midnight
    \/ \E s \in Resetters : Zero(s) \/ CrashReset(s) \/ \E n \in Nodes : Archive(s, n)

Spec == Init /\ [][Next]_vars

-----------------------------------------------------------------------------
(* Properties.                                                              *)

(* What is still to be set back: nothing once it was archived.               *)
Unzeroed(n) == IF \E s \in Resetters : reset[s] # None /\ reset[s].zeroing = n THEN 0 ELSE used[n]
Counting(n) == IF In(n, "count") THEN job[n].bytes ELSE 0

(* A node's two histories agree: every byte of the hourly one is archived by *)
(* one reset, or in the used traffic, or about to be added to it, unless the *)
(* traffic changed between a reset's read and its zero, or a step failed.    *)
TrafficAccounted ==
    \A n \in Nodes \ skewed : history[n] = archived[n] + Unzeroed(n) + Counting(n)

(* Once its day has come, or the last of a month too short to have it, and   *)
(* the task is through, a tracked node was reset exactly once this month;    *)
(* before, it was not; provided its settings stay and no turn fails.         *)
ResetOncePerMonth ==
    \A n \in Nodes \ disturbed :
        resets[n] = IF tracking[n] /\ ~Holds("task", n)
                       /\ (IF DayOf(n) > LastDay THEN LastDay ELSE DayOf(n)) < day + (IF ticked THEN 1 ELSE 0)
                    THEN 1 ELSE 0

=============================================================================
