-------------------------- MODULE NodeTrafficProofs --------------------------
(* Proofs about NodeTraffic for every set of nodes, every calendar, every    *)
(* reset day, and every bound on bytes, requests and failures.              *)
EXTENDS NodeTraffic, TLAPS

-----------------------------------------------------------------------------
(* Types, group by group.                                                   *)

RowsOK == tracking \in [Nodes -> BOOLEAN] /\ resetDay \in [Nodes -> Nat]
TablesOK == used \in [Nodes -> Nat] /\ history \in [Nodes -> Nat] /\ archived \in [Nodes -> Nat]
ClockOK == month \in DOMAIN Months /\ day \in 1..Months[month] /\ ticked \in BOOLEAN
JobsOK ==
    /\ passed \in [Nodes -> Nat] /\ counter \in [Nodes -> Nat]
    /\ job \in [Nodes -> Job \cup {None}]
ResetOK == reset \in [Resetters -> Reset \cup {None}]
CountsOK == requests \in Nat /\ mishaps \in Nat
PastOK == skewed \in SUBSET Nodes /\ disturbed \in SUBSET Nodes /\ resets \in [Nodes -> Nat]

LEMMA TypeParts ==
    /\ TypeOK <=> (RowsOK /\ TablesOK /\ ClockOK /\ JobsOK /\ ResetOK /\ CountsOK /\ PastOK)
    /\ TypeOK' <=> (RowsOK' /\ TablesOK' /\ ClockOK' /\ JobsOK' /\ ResetOK' /\ CountsOK' /\ PastOK')
BY DEF TypeOK, RowsOK, TablesOK, ClockOK, JobsOK, ResetOK, CountsOK, PastOK

LEMMA Kept ==
    /\ RowsOK /\ UNCHANGED rowVars => RowsOK'
    /\ TablesOK /\ UNCHANGED tableVars => TablesOK'
    /\ ClockOK /\ UNCHANGED clockVars => ClockOK'
    /\ JobsOK /\ UNCHANGED jobVars => JobsOK'
    /\ ResetOK /\ UNCHANGED reset => ResetOK'
    /\ CountsOK /\ UNCHANGED <<requests, mishaps>> => CountsOK'
    /\ PastOK /\ UNCHANGED <<skewed, resets, disturbed>> => PastOK'
BY DEF RowsOK, TablesOK, ClockOK, JobsOK, ResetOK, CountsOK, PastOK,
       rowVars, tableVars, clockVars, jobVars

LEMMA Counted ==
    ASSUME CountsOK
    PROVE  /\ (Mishap \/ UNCHANGED mishaps) /\ UNCHANGED requests => CountsOK'
           /\ Request /\ UNCHANGED mishaps => CountsOK'
BY DEF CountsOK, Mishap, Request

LEMMA JobHeld ==
    ASSUME JobsOK, NEW n \in Nodes, job[n] # None
    PROVE  job[n] \in Job /\ job[n].bytes \in Nat /\ job[n].at \in Stage
<1>1. job[n] \in Job
  BY DEF JobsOK
<1>. QED
  BY <1>1 DEF Job

LEMMA ResetHeld ==
    ASSUME ResetOK, NEW s \in Resetters, reset[s] # None
    PROVE  /\ reset[s] \in Reset
           /\ reset[s].todo \in SUBSET Nodes /\ reset[s].read \in [Nodes -> Nat]
           /\ reset[s].zeroing \in Nodes \cup {None}
<1>1. reset[s] \in Reset
  BY DEF ResetOK
<1>. QED
  BY <1>1 DEF Reset

LEMMA BeginType ==
    ASSUME TypeOK, NEW s \in Resetters, NEW S \in SUBSET Nodes, Begin(s, S)
    PROVE  ResetOK' /\ skewed' \in SUBSET Nodes
<1>1. [todo |-> S, read |-> used, zeroing |-> None] \in Reset
  BY DEF TypeOK, Reset
<1>2. (IF S = {} THEN None ELSE [todo |-> S, read |-> used, zeroing |-> None]) \in Reset \cup {None}
  BY <1>1
<1>3. ResetOK'
  BY <1>2 DEF Begin, TypeOK, ResetOK
<1>. QED
  BY <1>3 DEF Begin, TypeOK

LEMMA CalendarFits ==
    /\ 1 \in DOMAIN Months
    /\ \A m \in DOMAIN Months : Months[m] \in Nat /\ Months[m] >= 1
<1>1. Months \in Seq(Nat \ {0}) /\ Months # <<>>
  BY TrafficAssumption
<1>. QED
  BY <1>1

LEMMA InitType == Init => TypeOK
<1> SUFFICES ASSUME Init PROVE TypeOK
  OBVIOUS
<1>1. ClockOK
  <2>1. Months[1] \in Nat /\ 1 <= Months[1]
    BY CalendarFits
  <2>2. 1 \in 1..Months[1]
    BY <2>1
  <2>. QED
    BY <2>2, CalendarFits DEF Init, ClockOK
<1>2. RowsOK
  BY TrafficAssumption DEF Init, RowsOK
<1>. QED
  BY <1>1, <1>2, TypeParts DEF Init, TablesOK, JobsOK, ResetOK, CountsOK, PastOK

LEMMA UsageType ==
    ASSUME TypeOK, NEW n \in Nodes,
           \/ Transfer(n) \/ FetchStats(n) \/ WriteHistory(n) \/ CountUsage(n) \/ CrashRecord(n)
    PROVE  TypeOK'
<1> USE TypeParts, Kept
<1>1. CASE Transfer(n)
  <2>1. JobsOK'
    BY <1>1 DEF Transfer, JobsOK
  <2>. QED
    BY <1>1, <2>1 DEF Transfer
<1>2. CASE FetchStats(n)
  <2>1. counter[n] # 0 => [at |-> "history", bytes |-> counter[n]] \in Job
    BY DEF JobsOK, Job, Stage
  <2>2. JobsOK'
    BY <1>2, <2>1 DEF FetchStats, JobsOK
  <2>. QED
    BY <1>2, <2>2, Counted DEF FetchStats
<1>3. CASE WriteHistory(n)
  <2>1. job[n] # None
    BY <1>3 DEF WriteHistory, In
  <2>2. job[n] \in Job /\ job[n].bytes \in Nat
    BY <2>1, JobHeld
  <2>3. job' = [job EXCEPT ![n] = [job[n] EXCEPT !.at = "count"]] /\ [job[n] EXCEPT !.at = "count"] \in Job
    BY <1>3, <2>2 DEF WriteHistory, Job, Stage
  <2>4. JobsOK'
    BY <1>3, <2>3 DEF WriteHistory, JobsOK
  <2>5. TablesOK' /\ PastOK'
    BY <1>3, <2>2 DEF WriteHistory, TablesOK, PastOK
  <2>. QED
    BY <1>3, <2>4, <2>5, Counted DEF WriteHistory
<1>4. CASE CountUsage(n)
  <2>1. job[n] # None
    BY <1>4 DEF CountUsage, In
  <2>2. job[n].bytes \in Nat
    BY <2>1, JobHeld
  <2>3. JobsOK'
    BY <1>4 DEF CountUsage, JobsOK
  <2>4. TablesOK' /\ PastOK'
    BY <1>4, <2>2 DEF CountUsage, TablesOK, PastOK
  <2>. QED
    BY <1>4, <2>3, <2>4, Counted DEF CountUsage
<1>5. CASE CrashRecord(n)
  <2>1. JobsOK' /\ PastOK'
    BY <1>5 DEF CrashRecord, JobsOK, PastOK
  <2>. QED
    BY <1>5, <2>1, Counted DEF CrashRecord
<1>. QED
  BY <1>1, <1>2, <1>3, <1>4, <1>5

LEMMA ClockType ==
    ASSUME TypeOK,
           StartTask \/ MissTask \/ Midnight \/ \E n \in Nodes : RequestReset(n) \/ EditNode(n)
    PROVE  TypeOK'
<1> USE TypeParts, Kept
<1>1. CASE StartTask
  <2>1. ResetOK' /\ skewed' \in SUBSET Nodes
    BY <1>1, BeginType DEF StartTask, Resetters
  <2>2. PastOK' /\ ClockOK'
    BY <1>1, <2>1 DEF StartTask, PastOK, ClockOK
  <2>. QED
    BY <1>1, <2>1, <2>2 DEF StartTask
<1>2. CASE MissTask
  <2>1. PastOK' /\ ClockOK'
    BY <1>2 DEF MissTask, PastOK, ClockOK
  <2>. QED
    BY <1>2, <2>1, Counted DEF MissTask
<1>3. CASE Midnight
  <2>1. PastOK'
    BY <1>3 DEF Midnight, PastOK
  <2>2. ClockOK'
    <3>1. Months[month] \in Nat /\ day \in Nat /\ 1 <= day
      BY CalendarFits DEF ClockOK
    <3>2. CASE day < Months[month] /\ day' = day + 1 /\ UNCHANGED month
      <4>1. day + 1 \in 1..Months[month]
        BY <3>1, <3>2
      <4>. QED
        BY <1>3, <3>2, <4>1 DEF Midnight, ClockOK
    <3>3. CASE month + 1 \in DOMAIN Months /\ month' = month + 1 /\ day' = 1
      <4>1. 1 \in 1..Months[month + 1]
        BY <3>3, CalendarFits
      <4>. QED
        BY <1>3, <3>3, <4>1 DEF Midnight, ClockOK
    <3>. QED
      BY <1>3, <3>2, <3>3 DEF Midnight, LastDay
  <2>. QED
    BY <1>3, <2>1, <2>2 DEF Midnight
<1>4. ASSUME NEW n \in Nodes, RequestReset(n) PROVE TypeOK'
  <2>1. ResetOK' /\ skewed' \in SUBSET Nodes
    BY <1>4, BeginType DEF RequestReset, Resetters
  <2>2. PastOK'
    BY <1>4, <2>1 DEF RequestReset, PastOK
  <2>. QED
    BY <1>4, <2>1, <2>2, Counted DEF RequestReset
<1>5. ASSUME NEW n \in Nodes, EditNode(n) PROVE TypeOK'
  <2>1. RowsOK' /\ PastOK'
    BY <1>5, TrafficAssumption DEF EditNode, RowsOK, PastOK
  <2>. QED
    BY <1>5, <2>1, Counted DEF EditNode
<1>. QED
  BY <1>1, <1>2, <1>3, <1>4, <1>5

(* What a reset's record becomes as it goes on.                              *)
LEMMA ResetFields ==
    ASSUME NEW o \in Reset, NEW n \in Nodes
    PROVE  /\ [o EXCEPT !.todo = o.todo \ {n}, !.zeroing = n] \in Reset
           /\ [o EXCEPT !.zeroing = None] \in Reset
BY DEF Reset

LEMMA ArchiveRecord ==
    ASSUME TypeOK, NEW s \in Resetters, NEW n \in Nodes, Archive(s, n)
    PROVE  /\ reset' = [reset EXCEPT ![s] = [reset[s] EXCEPT !.todo = reset[s].todo \ {n}, !.zeroing = n]]
           /\ reset'[s] # None /\ reset'[s] \in Reset
           /\ reset'[s].todo = reset[s].todo \ {n} /\ reset'[s].zeroing = n
           /\ reset'[s].read = reset[s].read
           /\ \A t \in Resetters : t # s => reset'[t] = reset[t]
           /\ ResetOK'
<1> DEFINE o == [reset[s] EXCEPT !.todo = reset[s].todo \ {n}, !.zeroing = n]
<1>1. reset[s] \in Reset
  BY ResetHeld, TypeParts DEF Archive
<1>2. o \in Reset /\ o.todo = reset[s].todo \ {n} /\ o.zeroing = n /\ o.read = reset[s].read
  BY <1>1, ResetFields DEF Reset
<1>3. reset' = [reset EXCEPT ![s] = o]
  BY DEF Archive
<1>4. reset'[s] = o /\ \A t \in Resetters : t # s => reset'[t] = reset[t]
  BY <1>3 DEF TypeOK
<1>5. ResetOK'
  BY <1>2, <1>3 DEF TypeOK, ResetOK
<1>. QED
  BY <1>2, <1>3, <1>4, <1>5, SlotAssumption

LEMMA AdvanceRecord ==
    ASSUME TypeOK, NEW s \in Resetters, reset[s] # None, Advance(s)
    PROVE  /\ reset'[s] = None \/ /\ reset'[s] \in Reset /\ reset'[s].zeroing = None
                                  /\ reset'[s].todo = reset[s].todo /\ reset'[s].read = reset[s].read
           /\ reset'[s] = None => reset[s].todo = {}
           /\ \A t \in Resetters : t # s => reset'[t] = reset[t]
           /\ ResetOK'
<1>1. reset[s] \in Reset
  BY ResetHeld, TypeParts
<1> DEFINE o == [reset[s] EXCEPT !.zeroing = None]
<1>2. o \in Reset /\ o.zeroing = None /\ o.todo = reset[s].todo /\ o.read = reset[s].read
  BY <1>1 DEF Reset
<1>3. reset' = [reset EXCEPT ![s] = IF reset[s].todo = {} THEN None ELSE o]
  BY DEF Advance
<1>4. ResetOK'
  BY <1>2, <1>3 DEF TypeOK, ResetOK
<1>5. /\ reset'[s] = IF reset[s].todo = {} THEN None ELSE o
      /\ \A t \in Resetters : t # s => reset'[t] = reset[t]
  BY <1>3 DEF TypeOK
<1>. QED
  BY <1>2, <1>4, <1>5, SlotAssumption

LEMMA ResetType ==
    ASSUME TypeOK, NEW s \in Resetters,
           Zero(s) \/ CrashReset(s) \/ \E n \in Nodes : Archive(s, n)
    PROVE  TypeOK'
<1> USE TypeParts, Kept
<1>1. CASE Zero(s)
  <2>1. reset[s].zeroing \in Nodes
    BY <1>1, ResetHeld DEF Zero
  <2>2. ResetOK'
    BY <1>1, AdvanceRecord DEF Zero
  <2>3. TablesOK' /\ PastOK' /\ CountsOK'
    BY <1>1, <2>1, Counted DEF Zero, Zeroed, TablesOK, PastOK
  <2>. QED
    BY <1>1, <2>2, <2>3 DEF Zero
<1>2. CASE CrashReset(s)
  <2>1. reset[s].zeroing \in Nodes \cup {None}
    BY <1>2, ResetHeld DEF CrashReset
  <2>2. ResetOK' /\ PastOK'
    BY <1>2, <2>1 DEF CrashReset, ResetOK, PastOK
  <2>. QED
    BY <1>2, <2>2, Counted DEF CrashReset
<1>3. ASSUME NEW n \in Nodes, Archive(s, n) PROVE TypeOK'
  <2>1. ResetOK'
    BY <1>3, ArchiveRecord
  <2>2. reset[s].read[n] \in Nat
    BY <1>3, ResetHeld DEF Archive
  <2>3. TablesOK' /\ PastOK'
    BY <1>3, <2>2 DEF Archive, TablesOK, PastOK
  <2>. QED
    BY <1>3, <2>1, <2>3, Counted DEF Archive
<1>. QED
  BY <1>1, <1>2, <1>3

LEMMA StepType ==
    ASSUME TypeOK, [Next]_vars
    PROVE  TypeOK'
<1>1. CASE UNCHANGED vars
  BY <1>1, TypeParts, Kept DEF vars, rowVars, tableVars, clockVars, jobVars
<1>. QED
  BY <1>1, UsageType, ClockType, ResetType DEF Next

(* The figures stay numbers, and the day a day of its month.                 *)
THEOREM TypeCorrect == Spec => []TypeOK
<1>. QED
  BY InitType, StepType, PTL DEF Spec

-----------------------------------------------------------------------------
(* The accounts of a node.                                                  *)

Waits(r, n) == r # None /\ n \in r.todo
Zeroing(r, n) == r # None /\ r.zeroing = n

Exact(n) == history[n] = archived[n] + Unzeroed(n) + Counting(n)
(* One reset at a time has read the node, and what it read is still true.    *)
Alone(n) == \A s, t \in Resetters : Holds(s, n) /\ Holds(t, n) => s = t
ReadTrue(n) == \A s \in Resetters : Waits(reset[s], n) => reset[s].read[n] = used[n]
Good(n) == Exact(n) /\ Alone(n) /\ ReadTrue(n)

(* A node is zeroed once by one reset; the task runs once a day.             *)
Apart == \A s \in Resetters : reset[s] # None => reset[s].zeroing \notin reset[s].todo
OncePerDay == ticked \/ reset["task"] = None

Frame == TypeOK /\ Apart /\ OncePerDay
Accounts == \A n \in Nodes \ skewed : Good(n)

LEMMA HoldsMeans == \A s, n : Holds(s, n) <=> (Waits(reset[s], n) \/ Zeroing(reset[s], n))
BY DEF Holds, Waits, Zeroing

LEMMA UnzeroedMeans ==
    \A n : Unzeroed(n) = IF \E s \in Resetters : Zeroing(reset[s], n) THEN 0 ELSE used[n]
BY DEF Unzeroed, Zeroing

LEMMA Figures ==
    ASSUME TypeOK, NEW n \in Nodes
    PROVE  /\ history[n] \in Nat /\ archived[n] \in Nat /\ used[n] \in Nat
           /\ Counting(n) \in Nat /\ Unzeroed(n) \in Nat
<1>1. Counting(n) \in Nat
  BY JobHeld, TypeParts DEF Counting, In
<1>. QED
  BY <1>1 DEF TypeOK, Unzeroed

(* A step that leaves the figures of n alone, and no new reset reads it.     *)
LEMMA GoodKept ==
    ASSUME NEW n, Good(n), Counting(n)' = Counting(n),
           used'[n] = used[n], history'[n] = history[n], archived'[n] = archived[n],
           \A s \in Resetters :
               /\ Zeroing(reset'[s], n) <=> Zeroing(reset[s], n)
               /\ Waits(reset'[s], n) => Waits(reset[s], n) /\ reset'[s].read[n] = reset[s].read[n]
    PROVE  Good(n)'
<1>1. Unzeroed(n)' = Unzeroed(n)
  BY UnzeroedMeans DEF Unzeroed, Zeroing
<1>2. Exact(n)'
  BY <1>1 DEF Good, Exact
<1>3. \A s \in Resetters : Holds(s, n)' => Holds(s, n)
  BY HoldsMeans DEF Holds, Waits, Zeroing
<1>4. Alone(n)'
  BY <1>3 DEF Good, Alone
<1>5. ReadTrue(n)'
  BY DEF Good, ReadTrue
<1>. QED
  BY <1>2, <1>4, <1>5 DEF Good

LEMMA SameReset ==
    ASSUME UNCHANGED reset
    PROVE  \A s \in Resetters : \A n :
               /\ Zeroing(reset'[s], n) <=> Zeroing(reset[s], n)
               /\ Waits(reset'[s], n) <=> Waits(reset[s], n)
               /\ reset'[s].read[n] = reset[s].read[n]
BY DEF Zeroing, Waits

LEMMA SameJob ==
    ASSUME NEW n, job'[n] = job[n]
    PROVE  Counting(n)' = Counting(n)
BY DEF Counting, In

(* recordNodeUsage.                                                         *)
LEMMA UsageAccounts ==
    ASSUME Frame, Accounts, NEW n \in Nodes,
           \/ Transfer(n) \/ FetchStats(n) \/ WriteHistory(n) \/ CountUsage(n) \/ CrashRecord(n)
    PROVE  Accounts'
<1>1. UNCHANGED reset /\ UNCHANGED archived /\ skewed \subseteq skewed'
  BY DEF Transfer, FetchStats, WriteHistory, CountUsage, CrashRecord, tableVars
<1>2. ASSUME NEW m \in Nodes \ skewed', m # n PROVE Good(m)'
  <2>1. job'[m] = job[m] /\ used'[m] = used[m] /\ history'[m] = history[m]
    BY <1>2 DEF Frame, TypeOK, Transfer, FetchStats, WriteHistory, CountUsage, CrashRecord, tableVars
  <2>2. Good(m)
    BY <1>1, <1>2 DEF Accounts
  <2>. QED
    BY <1>1, <2>1, <2>2, GoodKept, SameReset, SameJob
<1>3. ASSUME n \notin skewed' PROVE Good(n)'
  <2>1. Good(n)
    BY <1>1, <1>3 DEF Accounts
  <2>2. /\ history[n] \in Nat /\ archived[n] \in Nat /\ used[n] \in Nat
        /\ Counting(n) \in Nat /\ Unzeroed(n) \in Nat
    BY Figures DEF Frame
  <2>3. CASE Transfer(n)
    BY <1>1, <2>1, <2>3, GoodKept, SameReset, SameJob DEF Transfer, tableVars
  <2>4. CASE FetchStats(n)
    <3>1. Counting(n) = 0
      BY <2>4 DEF FetchStats, Counting, In
    <3>2. job'[n] = None \/ job'[n] = [at |-> "history", bytes |-> counter[n]]
      BY <2>4 DEF FetchStats, Frame, TypeOK
    <3>3. Counting(n)' = 0
      BY <3>2 DEF Counting, In
    <3>. QED
      BY <1>1, <2>1, <2>4, <3>1, <3>3, GoodKept, SameReset DEF FetchStats, tableVars
  <2>5. CASE WriteHistory(n)
    <3>1. history'[n] = history[n] + job[n].bytes /\ UNCHANGED used
      BY <1>3, <2>5 DEF WriteHistory, Frame, TypeOK
    <3>2. job[n] # None /\ job[n].at = "history" /\ Counting(n) = 0
      BY <2>5 DEF WriteHistory, In, Counting
    <3>3. job[n] \in Job /\ job[n].bytes \in Nat
      BY <3>2, JobHeld, TypeParts DEF Frame
    <3>4. job'[n] = [job[n] EXCEPT !.at = "count"]
      BY <2>5 DEF WriteHistory, Frame, TypeOK
    <3>5. job'[n] \in Job /\ job'[n].at = "count" /\ job'[n].bytes = job[n].bytes
      BY <3>3, <3>4 DEF Job, Stage
    <3>6. Counting(n)' = job[n].bytes
      BY <3>5, SlotAssumption DEF Counting, In
    <3>7. Unzeroed(n)' = Unzeroed(n)
      BY <1>1, <3>1 DEF Unzeroed
    <3>8. Exact(n)'
      BY <1>1, <2>1, <2>2, <3>1, <3>2, <3>3, <3>6, <3>7 DEF Good, Exact
    <3>9. Alone(n)' /\ ReadTrue(n)'
      BY <1>1, <2>1, <3>1 DEF Good, Alone, ReadTrue, Holds, Waits
    <3>. QED
      BY <3>8, <3>9 DEF Good
  <2>6. CASE CountUsage(n)
    <3>1. ~Held(n) /\ used'[n] = used[n] + job[n].bytes /\ UNCHANGED history
      BY <1>3, <2>6 DEF CountUsage, Frame, TypeOK
    <3>2. job[n] # None /\ job[n].at = "count" /\ Counting(n) = job[n].bytes
      BY <2>6 DEF CountUsage, In, Counting
    <3>3. job[n].bytes \in Nat
      BY <3>2, JobHeld, TypeParts DEF Frame
    <3>4. job'[n] = None /\ Counting(n)' = 0
      BY <2>6 DEF CountUsage, Frame, TypeOK, Counting, In
    <3>5. \A s \in Resetters : ~Zeroing(reset[s], n) /\ ~Waits(reset[s], n)
      BY <3>1, HoldsMeans DEF Held
    <3>6. Unzeroed(n) = used[n] /\ Unzeroed(n)' = used'[n]
      BY <1>1, <3>5 DEF Unzeroed, Zeroing
    <3>7. Exact(n)'
      BY <1>1, <2>1, <2>2, <3>1, <3>2, <3>3, <3>4, <3>6 DEF Good, Exact
    <3>8. Alone(n)' /\ ReadTrue(n)'
      BY <1>1, <2>1, <3>5 DEF Good, Alone, ReadTrue, Holds, Waits
    <3>. QED
      BY <3>7, <3>8 DEF Good
  <2>7. CASE CrashRecord(n)
    <3>1. ~In(n, "count") /\ job'[n] = None
      BY <1>3, <2>7 DEF CrashRecord, Frame, TypeOK
    <3>2. Counting(n) = 0 /\ Counting(n)' = 0
      BY <3>1 DEF Counting, In
    <3>. QED
      BY <1>1, <2>1, <2>7, <3>2, GoodKept, SameReset DEF CrashRecord, tableVars
  <2>. QED
    BY <2>3, <2>4, <2>5, <2>6, <2>7
<1>. QED
  BY <1>2, <1>3 DEF Accounts

(* A reset begins: it reads what is true, and marks the nodes that another   *)
(* has read.                                                                *)
LEMMA BeginAccounts ==
    ASSUME Frame, Accounts, NEW s \in Resetters, NEW S \in SUBSET Nodes, Begin(s, S),
           reset[s] = None, UNCHANGED <<tableVars, job>>
    PROVE  Accounts' /\ Apart'
<1> DEFINE o == IF S = {} THEN None ELSE [todo |-> S, read |-> used, zeroing |-> None]
<1>1. reset'[s] = o /\ \A t \in Resetters : t # s => reset'[t] = reset[t]
  BY DEF Begin, Frame, TypeOK
<1>2. None \notin Nodes
  BY TrafficAssumption
<1>3. Apart'
  BY <1>1, <1>2 DEF Apart, Frame
<1>4. ASSUME NEW n \in Nodes \ skewed' PROVE Good(n)'
  <2>1. n \notin skewed /\ (n \in S => ~Held(n)) /\ Good(n)
    BY <1>4 DEF Begin, Accounts
  <2>2. ~Zeroing(reset[s], n) /\ ~Zeroing(reset'[s], n) /\ ~Waits(reset[s], n)
    BY <1>1, <1>2 DEF Zeroing, Waits
  <2>3. \A t \in Resetters : t # s => /\ Zeroing(reset'[t], n) <=> Zeroing(reset[t], n)
                                      /\ Waits(reset'[t], n) <=> Waits(reset[t], n)
                                      /\ reset'[t].read[n] = reset[t].read[n]
    BY <1>1 DEF Zeroing, Waits
  <2>4. CASE n \notin S
    <3>1. ~Waits(reset'[s], n)
      BY <1>1, <2>4 DEF Waits
    <3>. QED
      BY <2>1, <2>2, <2>3, <3>1, GoodKept, SameJob DEF tableVars
  <2>5. CASE n \in S
    <3>1. \A t \in Resetters : ~Zeroing(reset[t], n) /\ ~Waits(reset[t], n)
      BY <2>1, <2>5, HoldsMeans DEF Held
    <3>2. \A t \in Resetters : ~Zeroing(reset'[t], n) /\ (t # s => ~Waits(reset'[t], n))
      BY <2>2, <2>3, <3>1
    <3>3. Unzeroed(n)' = used'[n] /\ Unzeroed(n) = used[n]
      BY <3>1, <3>2 DEF Unzeroed, Zeroing
    <3>4. Exact(n)'
      BY <2>1, <3>3, SameJob DEF tableVars, Good, Exact
    <3>5. Alone(n)'
      BY <3>2 DEF Alone, Holds, Waits, Zeroing
    <3>6. reset'[s].read = used
      BY <1>1, <2>5
    <3>7. ReadTrue(n)'
      BY <3>2, <3>6 DEF ReadTrue, tableVars, Waits
    <3>. QED
      BY <3>4, <3>5, <3>7 DEF Good
  <2>. QED
    BY <2>4, <2>5
<1>. QED
  BY <1>3, <1>4 DEF Accounts

LEMMA ArchiveAccounts ==
    ASSUME Frame, Accounts, NEW s \in Resetters, NEW n \in Nodes, Archive(s, n)
    PROVE  Accounts' /\ Apart'
<1>1. /\ reset'[s] # None /\ reset'[s].todo = reset[s].todo \ {n} /\ reset'[s].zeroing = n
      /\ reset'[s].read = reset[s].read
      /\ \A t \in Resetters : t # s => reset'[t] = reset[t]
  BY ArchiveRecord DEF Frame
<1>2. Apart'
  BY <1>1 DEF Apart, Frame
<1>3. /\ reset[s] # None /\ reset[s].zeroing = None /\ n \in reset[s].todo
      /\ UNCHANGED <<used, history, job>>
      /\ skewed \subseteq skewed' /\ None \notin Nodes
  BY TrafficAssumption DEF Archive, jobVars
<1>4. ASSUME NEW m \in Nodes \ skewed', m # n PROVE Good(m)'
  <2>1. archived'[m] = archived[m] /\ Good(m)
    BY <1>3, <1>4 DEF Archive, Frame, TypeOK, Accounts
  <2>2. \A t \in Resetters : /\ Zeroing(reset'[t], m) <=> Zeroing(reset[t], m)
                             /\ Waits(reset'[t], m) => Waits(reset[t], m) /\ reset'[t].read[m] = reset[t].read[m]
    BY <1>1, <1>3, <1>4 DEF Zeroing, Waits
  <2>. QED
    BY <1>3, <2>1, <2>2, GoodKept, SameJob
<1>5. ASSUME n \notin skewed' PROVE Good(n)'
  <2>1. Good(n) /\ archived'[n] = archived[n] + reset[s].read[n]
    BY <1>3, <1>5 DEF Archive, Frame, TypeOK, Accounts
  <2>2. reset[s].read[n] = used[n]
    BY <1>3, <2>1 DEF Good, ReadTrue, Waits
  <2>3. Holds(s, n) /\ \A t \in Resetters : t # s => ~Holds(t, n)
    BY <1>3, <2>1 DEF Good, Alone, Holds
  <2>4. \A t \in Resetters : t # s => ~Zeroing(reset[t], n) /\ ~Waits(reset[t], n)
    BY <2>3, HoldsMeans
  <2>5. ~Zeroing(reset[s], n) /\ Zeroing(reset'[s], n) /\ ~Waits(reset'[s], n)
    BY <1>1, <1>3 DEF Zeroing, Waits
  <2>6. \A t \in Resetters : t # s => ~Zeroing(reset'[t], n) /\ ~Waits(reset'[t], n)
    BY <1>1, <2>4 DEF Zeroing, Waits
  <2>7. Unzeroed(n) = used[n] /\ Unzeroed(n)' = 0
    BY <2>4, <2>5 DEF Unzeroed, Zeroing
  <2>8. Exact(n)'
    <3>1. Counting(n)' = Counting(n)
      BY <1>3, SameJob
    <3>2. /\ history[n] \in Nat /\ archived[n] \in Nat /\ used[n] \in Nat /\ Counting(n) \in Nat
      BY Figures DEF Frame
    <3>. QED
      BY <1>3, <2>1, <2>2, <2>7, <3>1, <3>2 DEF Good, Exact
  <2>9. Alone(n)' /\ ReadTrue(n)'
    BY <2>5, <2>6 DEF Alone, ReadTrue, Holds, Waits, Zeroing
  <2>. QED
    BY <2>8, <2>9 DEF Good
<1>. QED
  BY <1>2, <1>4, <1>5 DEF Accounts

LEMMA ZeroAccounts ==
    ASSUME Frame, Accounts, NEW s \in Resetters, Zero(s)
    PROVE  Accounts' /\ Apart'
<1>0. PICK z \in Nodes : z = reset[s].zeroing
  BY ResetHeld, TypeParts DEF Zero, Frame
<1>1. reset[s] # None /\ reset[s].zeroing = z /\ z \notin reset[s].todo
  BY <1>0 DEF Zero, Frame, Apart
<1>2. /\ reset'[s] = None \/ /\ reset'[s].zeroing = None
                              /\ reset'[s].todo = reset[s].todo /\ reset'[s].read = reset[s].read
      /\ \A t \in Resetters : t # s => reset'[t] = reset[t]
  BY <1>1, AdvanceRecord DEF Zero, Frame
<1>3. UNCHANGED <<history, archived, job>> /\ skewed \subseteq skewed' /\ None \notin Nodes
  BY TrafficAssumption DEF Zero, jobVars
<1>4. reset[s].todo \in SUBSET Nodes
  BY <1>1, ResetHeld, TypeParts DEF Frame
<1>5. Apart'
  BY <1>2, <1>3, <1>4 DEF Apart, Frame
<1>6. ASSUME NEW m \in Nodes \ skewed', m # z PROVE Good(m)'
  <2>1. used'[m] = used[m] /\ Good(m)
    BY <1>1, <1>3, <1>6 DEF Zero, Zeroed, Frame, TypeOK, Accounts
  <2>2. \A t \in Resetters : /\ Zeroing(reset'[t], m) <=> Zeroing(reset[t], m)
                             /\ Waits(reset'[t], m) => Waits(reset[t], m) /\ reset'[t].read[m] = reset[t].read[m]
    BY <1>1, <1>2, <1>3, <1>6 DEF Zeroing, Waits
  <2>. QED
    BY <1>3, <2>1, <2>2, GoodKept, SameJob
<1>7. ASSUME z \notin skewed' PROVE Good(z)'
  <2>1. Good(z) /\ used'[z] = 0 /\ \A t \in Resetters : t # s => ~Holds(t, z)
    BY <1>1, <1>3, <1>7 DEF Zero, Zeroed, Frame, TypeOK, Accounts
  <2>2. \A t \in Resetters : t # s => ~Zeroing(reset[t], z) /\ ~Waits(reset[t], z)
    BY <2>1, HoldsMeans
  <2>3. Zeroing(reset[s], z) /\ ~Zeroing(reset'[s], z) /\ ~Waits(reset'[s], z)
    BY <1>1, <1>2, <1>3 DEF Zeroing, Waits
  <2>4. \A t \in Resetters : ~Zeroing(reset'[t], z) /\ ~Waits(reset'[t], z)
    BY <1>2, <2>2, <2>3 DEF Zeroing, Waits
  <2>5. Unzeroed(z) = 0 /\ Unzeroed(z)' = 0
    BY <1>1, <2>1, <2>3, <2>4 DEF Unzeroed, Zeroing
  <2>6. Exact(z)'
    BY <1>3, <2>1, <2>5, SameJob DEF Good, Exact
  <2>7. Alone(z)' /\ ReadTrue(z)'
    BY <2>4 DEF Alone, ReadTrue, Holds, Waits, Zeroing
  <2>. QED
    BY <2>6, <2>7 DEF Good
<1>. QED
  BY <1>5, <1>6, <1>7 DEF Accounts

LEMMA CrashAccounts ==
    ASSUME Frame, Accounts, NEW s \in Resetters, CrashReset(s)
    PROVE  Accounts' /\ Apart'
<1>1. reset'[s] = None /\ \A t \in Resetters : t # s => reset'[t] = reset[t]
  BY DEF CrashReset, Frame, TypeOK
<1>2. Apart'
  BY <1>1 DEF Apart, Frame
<1>3. UNCHANGED <<tableVars, job>> /\ skewed \subseteq skewed'
  BY DEF CrashReset, jobVars
<1>4. ASSUME NEW m \in Nodes \ skewed' PROVE Good(m)'
  <2>1. Good(m)
    BY <1>3, <1>4 DEF Accounts
  <2>2. ~Zeroing(reset[s], m)
    BY <1>4, TrafficAssumption DEF CrashReset, Zeroing
  <2>3. \A t \in Resetters : /\ Zeroing(reset'[t], m) <=> Zeroing(reset[t], m)
                             /\ Waits(reset'[t], m) => Waits(reset[t], m) /\ reset'[t].read[m] = reset[t].read[m]
    BY <1>1, <2>2 DEF Zeroing, Waits
  <2>. QED
    BY <1>3, <2>1, <2>3, GoodKept, SameJob DEF tableVars
<1>. QED
  BY <1>2, <1>4 DEF Accounts

LEMMA StepAccounts ==
    ASSUME Frame, Accounts, [Next]_vars
    PROVE  Frame' /\ Accounts'
<1>1. TypeOK'
  BY StepType DEF Frame
<1>2. OncePerDay'
  <2>1. CASE UNCHANGED <<ticked, reset>>
    BY <2>1 DEF Frame, OncePerDay
  <2>2. ASSUME NEW s \in Resetters, reset[s] # None, UNCHANGED ticked,
               \A t \in Resetters : t # s => reset'[t] = reset[t]
        PROVE  OncePerDay'
    BY <2>2 DEF Frame, OncePerDay, Resetters
  <2>3. CASE StartTask \/ MissTask \/ Midnight
    BY <2>3 DEF StartTask, MissTask, Midnight, OncePerDay
  <2>4. ASSUME NEW n \in Nodes, RequestReset(n) PROVE OncePerDay'
    BY <2>4 DEF RequestReset, Begin, clockVars, Frame, OncePerDay, TypeOK, Resetters
  <2>5. ASSUME NEW s \in Resetters, Zero(s) \/ CrashReset(s) \/ \E n \in Nodes : Archive(s, n)
        PROVE  OncePerDay'
    BY <2>2, <2>5, ArchiveRecord, AdvanceRecord DEF Zero, CrashReset, Archive, clockVars, Frame, TypeOK
  <2>6. ASSUME NEW n \in Nodes,
               \/ Transfer(n) \/ FetchStats(n) \/ WriteHistory(n) \/ CountUsage(n) \/ CrashRecord(n)
               \/ EditNode(n)
        PROVE  OncePerDay'
    BY <2>1, <2>6 DEF Transfer, FetchStats, WriteHistory, CountUsage, CrashRecord, EditNode, clockVars
  <2>. QED
    BY <2>1, <2>3, <2>4, <2>5, <2>6 DEF Next, vars, clockVars
<1>3. CASE UNCHANGED <<tableVars, job, reset, skewed>>
  <2>1. Apart'
    BY <1>3 DEF Frame, Apart
  <2>2. Accounts'
    BY <1>3, GoodKept, SameReset, SameJob DEF Accounts, tableVars
  <2>. QED
    BY <1>1, <1>2, <2>1, <2>2 DEF Frame
<1>4. ASSUME NEW n \in Nodes,
             \/ Transfer(n) \/ FetchStats(n) \/ WriteHistory(n) \/ CountUsage(n) \/ CrashRecord(n)
      PROVE  Frame' /\ Accounts'
  <2>1. Apart'
    BY <1>4 DEF Transfer, FetchStats, WriteHistory, CountUsage, CrashRecord, Frame, Apart
  <2>. QED
    BY <1>1, <1>2, <1>4, <2>1, UsageAccounts DEF Frame
<1>5. CASE StartTask
  <2>1. reset["task"] = None /\ "task" \in Resetters
    BY <1>5 DEF StartTask, Frame, OncePerDay, Resetters
  <2>2. Accounts' /\ Apart'
    BY <1>5, <2>1, BeginAccounts DEF StartTask, jobVars
  <2>. QED
    BY <1>1, <1>2, <2>2 DEF Frame
<1>6. ASSUME NEW n \in Nodes, RequestReset(n) PROVE Frame' /\ Accounts'
  <2>1. reset["request"] = None /\ "request" \in Resetters
    BY <1>6 DEF RequestReset, Resetters
  <2>2. Accounts' /\ Apart'
    BY <1>6, <2>1, BeginAccounts DEF RequestReset, jobVars
  <2>. QED
    BY <1>1, <1>2, <2>2 DEF Frame
<1>7. ASSUME NEW s \in Resetters, Zero(s) \/ CrashReset(s) \/ \E n \in Nodes : Archive(s, n)
      PROVE  Frame' /\ Accounts'
  BY <1>1, <1>2, <1>7, ZeroAccounts, CrashAccounts, ArchiveAccounts DEF Frame
<1>8. CASE MissTask \/ Midnight \/ (\E n \in Nodes : EditNode(n)) \/ UNCHANGED vars
  BY <1>3, <1>8 DEF MissTask, Midnight, EditNode, vars, jobVars
<1>. QED
  BY <1>4, <1>5, <1>6, <1>7, <1>8 DEF Next

LEMMA InitAccounts == Init => Frame /\ Accounts
<1> SUFFICES ASSUME Init PROVE Frame /\ Accounts
  OBVIOUS
<1>1. Apart /\ OncePerDay
  BY DEF Init, Apart, OncePerDay, Resetters
<1>2. ASSUME NEW n \in Nodes PROVE Good(n)
  <2>1. Counting(n) = 0 /\ Unzeroed(n) = 0 /\ history[n] = 0 /\ archived[n] = 0
    BY DEF Init, Counting, In, Unzeroed
  <2>2. Exact(n)
    BY <2>1 DEF Exact
  <2>. QED
    BY <2>2 DEF Init, Good, Alone, ReadTrue, Holds, Waits
<1>. QED
  BY <1>1, <1>2, InitType DEF Frame, Accounts

(* Every byte of a node's hourly history is archived once, or used and not   *)
(* yet archived, or about to be counted, whatever the resets and the jobs    *)
(* interleave, unless one of the marked races or failures touched the node.  *)
THEOREM Accounted == Spec => []TrafficAccounted
<1>1. Init => Frame /\ Accounts
  BY InitAccounts
<1>2. Frame /\ Accounts => TrafficAccounted
  BY DEF Accounts, Good, Exact, TrafficAccounted
<1>. QED
  BY <1>1, <1>2, StepAccounts, PTL DEF Spec

-----------------------------------------------------------------------------
(* One reset a month.                                                       *)

(* The day of month m on which a node with reset day d has its turn.         *)
Turn(d, m) ==
    LET e == IF d = 0 THEN 1 ELSE d IN IF e > Months[m] THEN Months[m] ELSE e
HeldIn(r, n) == r # None /\ (n \in r.todo \/ n = r.zeroing)
Through == IF ticked THEN 1 ELSE 0

(* A node the task holds was tracked, and has its turn today.                *)
Monthly(n) ==
    /\ resets[n] = IF tracking[n] /\ ~HeldIn(reset["task"], n) /\ Turn(resetDay[n], month) < day + Through
                   THEN 1 ELSE 0
    /\ HeldIn(reset["task"], n) => tracking[n] /\ Turn(resetDay[n], month) = day
AllMonthly == \A n \in Nodes \ disturbed : Monthly(n)

LEMMA TurnFits ==
    ASSUME NEW m \in DOMAIN Months, NEW d \in Nat
    PROVE  Turn(d, m) \in Nat /\ 1 <= Turn(d, m) /\ Turn(d, m) <= Months[m]
BY CalendarFits DEF Turn

LEMMA Calendar ==
    ASSUME TypeOK
    PROVE  /\ month \in DOMAIN Months /\ day \in Nat /\ 1 <= day /\ day <= Months[month]
           /\ Months[month] \in Nat
           /\ \A n \in Nodes : Turn(resetDay[n], month) \in Nat /\ 1 <= Turn(resetDay[n], month)
<1>1. month \in DOMAIN Months /\ day \in 1..Months[month] /\ Months[month] \in Nat
  BY CalendarFits DEF TypeOK
<1>2. \A n \in Nodes : resetDay[n] \in Nat
  BY DEF TypeOK
<1>. QED
  BY <1>1, <1>2, TurnFits

LEMMA DueMeans ==
    ASSUME TypeOK, NEW n \in Nodes
    PROVE  IsDue(DayOf(n)) <=> Turn(resetDay[n], month) = day
<1>1. resetDay[n] \in Nat
  BY DEF TypeOK
<1>. QED
  BY <1>1, Calendar DEF IsDue, DayOf, LastDay, Turn

LEMMA MonthlyKept ==
    ASSUME NEW n, Monthly(n), UNCHANGED clockVars,
           tracking'[n] = tracking[n], resetDay'[n] = resetDay[n], resets'[n] = resets[n],
           HeldIn(reset'["task"], n) <=> HeldIn(reset["task"], n)
    PROVE  Monthly(n)'
BY DEF Monthly, clockVars, Through

(* The task's own steps.                                                    *)
LEMMA StartMonthly ==
    ASSUME Frame, AllMonthly, StartTask
    PROVE  AllMonthly'
<1> DEFINE S == {n \in Nodes : tracking[n] /\ IsDue(DayOf(n))}
           o == IF S = {} THEN None ELSE [todo |-> S, read |-> used, zeroing |-> None]
<1>1. /\ ticked = FALSE /\ ticked' = TRUE /\ reset["task"] = None
      /\ UNCHANGED <<tracking, resetDay, month, day, resets, disturbed>>
  BY DEF StartTask, Frame, OncePerDay, TypeOK, rowVars
<1>2. reset'["task"] = o
  BY DEF StartTask, Begin, Frame, TypeOK, Resetters
<1>3. ASSUME NEW n \in Nodes \ disturbed PROVE Monthly(n)'
  <2>1. ~HeldIn(reset["task"], n) /\ (HeldIn(reset'["task"], n) <=> n \in S)
    <3>1. S # {} => [todo |-> S, read |-> used, zeroing |-> None] \in Reset
      BY DEF Frame, TypeOK, Reset
    <3>2. S # {} => o # None /\ o.todo = S /\ o.zeroing = None
      BY <3>1, SlotAssumption
    <3>3. S = {} => o = None
      OBVIOUS
    <3>. HIDE DEF S, o
    <3>. QED
      BY <1>1, <1>2, <3>2, <3>3, TrafficAssumption DEF HeldIn
  <2>2. n \in S <=> tracking[n] /\ Turn(resetDay[n], month) = day
    BY DueMeans DEF Frame
  <2>3. Turn(resetDay[n], month) \in Nat /\ day \in Nat
    BY Calendar DEF Frame
  <2>4. Monthly(n)
    BY DEF AllMonthly
  <2>. HIDE DEF S, o
  <2>. QED
    BY <1>1, <2>1, <2>2, <2>3, <2>4 DEF Monthly, Through
<1>. QED
  BY <1>1, <1>3 DEF AllMonthly

LEMMA MidnightMonthly ==
    ASSUME Frame, AllMonthly, Midnight
    PROVE  AllMonthly'
<1>1. /\ ticked = TRUE /\ ticked' = FALSE /\ reset["task"] = None /\ reset'["task"] = None
      /\ UNCHANGED <<tracking, resetDay>>
  BY DEF Midnight, Frame, TypeOK, rowVars
<1>2. ASSUME NEW n \in Nodes PROVE ~HeldIn(reset["task"], n) /\ ~HeldIn(reset'["task"], n)
  BY <1>1 DEF HeldIn
<1>3. CASE day' = day + 1 /\ UNCHANGED <<month, resets, disturbed>>
  <2>1. ASSUME NEW n \in Nodes \ disturbed PROVE Monthly(n)'
    <3>1. Monthly(n) /\ day \in Nat
      BY Calendar DEF Frame, AllMonthly
    <3>. QED
      BY <1>1, <1>2, <1>3, <3>1 DEF Monthly, Through
  <2>. QED
    BY <1>3, <2>1 DEF AllMonthly
<1>4. CASE month' = month + 1 /\ day' = 1 /\ month + 1 \in DOMAIN Months /\ resets' = [n \in Nodes |-> 0]
  <2>1. ASSUME NEW n \in Nodes PROVE Monthly(n)'
    <3>1. resetDay[n] \in Nat
      BY DEF Frame, TypeOK
    <3>2. Turn(resetDay[n], month + 1) \in Nat /\ 1 <= Turn(resetDay[n], month + 1)
      BY <1>4, <3>1, TurnFits
    <3>. QED
      BY <1>1, <1>2, <1>4, <3>2 DEF Monthly, Through
  <2>. QED
    BY <2>1 DEF AllMonthly
<1>. QED
  BY <1>3, <1>4 DEF Midnight

LEMMA ZeroMonthly ==
    ASSUME Frame, AllMonthly, Zero("task")
    PROVE  AllMonthly'
<1>0. "task" \in Resetters
  BY DEF Resetters
<1>1. PICK z \in Nodes : z = reset["task"].zeroing
  BY <1>0, ResetHeld, TypeParts DEF Zero, Frame
<1>2. reset["task"] # None /\ z \notin reset["task"].todo /\ ticked = TRUE
  BY <1>0, <1>1 DEF Zero, Frame, Apart, OncePerDay, TypeOK
<1>3. \/ reset'["task"] = None /\ reset["task"].todo = {}
      \/ /\ reset'["task"].zeroing = None /\ reset'["task"].todo = reset["task"].todo
         /\ reset'["task"] # None
  BY <1>0, AdvanceRecord, SlotAssumption DEF Zero, Frame
<1>4. UNCHANGED clockVars /\ UNCHANGED <<tracking, resetDay>>
  BY DEF Zero, rowVars
<1>5. ASSUME NEW n \in Nodes \ disturbed', n # z PROVE Monthly(n)'
  <2>1. n \notin disturbed /\ resets'[n] = resets[n]
    BY <1>1, <1>5 DEF Zero, Frame, TypeOK
  <2>2. HeldIn(reset'["task"], n) <=> HeldIn(reset["task"], n)
    BY <1>1, <1>2, <1>3, <1>5, TrafficAssumption DEF HeldIn
  <2>. QED
    BY <1>4, <2>1, <2>2, MonthlyKept DEF AllMonthly
<1>6. ASSUME z \notin disturbed' PROVE Monthly(z)'
  <2>1. z \notin disturbed /\ resets'[z] = resets[z] + 1
    BY <1>1, <1>6 DEF Zero, Frame, TypeOK
  <2>2. HeldIn(reset["task"], z) /\ ~HeldIn(reset'["task"], z)
    BY <1>1, <1>2, <1>3, TrafficAssumption DEF HeldIn
  <2>3. tracking[z] /\ Turn(resetDay[z], month) = day /\ resets[z] = 0 /\ day \in Nat
    BY <2>1, <2>2, Calendar DEF AllMonthly, Monthly, Frame
  <2>. QED
    BY <1>2, <1>4, <2>1, <2>2, <2>3 DEF Monthly, clockVars, Through
<1>. QED
  BY <1>5, <1>6 DEF AllMonthly

LEMMA StepMonthly ==
    ASSUME Frame, AllMonthly, [Next]_vars
    PROVE  AllMonthly'
<1>1. ASSUME UNCHANGED <<rowVars, clockVars, resets>>, disturbed \subseteq disturbed',
             \A n \in Nodes \ disturbed' : HeldIn(reset'["task"], n) <=> HeldIn(reset["task"], n)
      PROVE  AllMonthly'
  BY <1>1, MonthlyKept DEF AllMonthly, rowVars
<1>2. CASE UNCHANGED <<rowVars, clockVars, resets, disturbed>> /\ reset'["task"] = reset["task"]
  BY <1>1, <1>2
<1>3. ASSUME NEW n \in Nodes,
             \/ Transfer(n) \/ FetchStats(n) \/ WriteHistory(n) \/ CountUsage(n) \/ CrashRecord(n)
      PROVE  AllMonthly'
  BY <1>2, <1>3 DEF Transfer, FetchStats, WriteHistory, CountUsage, CrashRecord
<1>4. ASSUME NEW n \in Nodes, RequestReset(n) PROVE AllMonthly'
  <2>1. reset'["task"] = reset["task"]
    BY <1>4 DEF RequestReset, Begin, Frame, TypeOK, Resetters
  <2>. QED
    BY <1>2, <1>4, <2>1 DEF RequestReset
<1>5. ASSUME NEW n \in Nodes, EditNode(n) PROVE AllMonthly'
  <2>1. ASSUME NEW m \in Nodes \ disturbed' PROVE Monthly(m)'
    <3>1. m # n /\ m \notin disturbed
      BY <1>5 DEF EditNode
    <3>2. tracking'[m] = tracking[m] /\ resetDay'[m] = resetDay[m]
      BY <1>5, <3>1 DEF EditNode, Frame, TypeOK
    <3>. QED
      BY <1>5, <3>1, <3>2, MonthlyKept DEF EditNode, AllMonthly
  <2>. QED
    BY <2>1 DEF AllMonthly
<1>6. CASE MissTask
  BY <1>6 DEF MissTask, AllMonthly
<1>7. ASSUME NEW s \in Resetters, NEW n \in Nodes, Archive(s, n) PROVE AllMonthly'
  <2>1. \A m \in Nodes : HeldIn(reset'["task"], m) <=> HeldIn(reset["task"], m)
    <3>1. CASE s # "task"
      BY <1>7, <3>1, ArchiveRecord DEF Frame, Resetters
    <3>2. CASE s = "task"
      <4>1. reset["task"] # None /\ reset["task"].zeroing = None /\ n \in reset["task"].todo
        BY <1>7, <3>2 DEF Archive
      <4>2. /\ reset'["task"] # None /\ reset'["task"].zeroing = n
            /\ reset'["task"].todo = reset["task"].todo \ {n}
        BY <1>7, <3>2, ArchiveRecord DEF Frame
      <4>. QED
        BY <4>1, <4>2, TrafficAssumption DEF HeldIn
    <3>. QED
      BY <3>1, <3>2
  <2>. QED
    BY <1>1, <1>7, <2>1 DEF Archive
<1>8. ASSUME NEW s \in Resetters, CrashReset(s) PROVE AllMonthly'
  <2>1. CASE s # "task"
    <3>1. reset'["task"] = reset["task"] /\ disturbed \subseteq disturbed'
      BY <1>8, <2>1 DEF CrashReset, Frame, TypeOK, Resetters
    <3>. QED
      BY <1>1, <1>8, <3>1 DEF CrashReset
  <2>2. CASE s = "task"
    <3>1. reset'["task"] = None /\ disturbed \subseteq disturbed'
      BY <1>8, <2>2 DEF CrashReset, Frame, TypeOK
    <3>2. \A m \in Nodes \ disturbed' : ~HeldIn(reset["task"], m)
      BY <1>8, <2>2 DEF CrashReset, Holds, HeldIn
    <3>3. \A m \in Nodes : ~HeldIn(reset'["task"], m)
      BY <3>1 DEF HeldIn
    <3>. QED
      BY <1>1, <1>8, <3>1, <3>2, <3>3 DEF CrashReset
  <2>. QED
    BY <2>1, <2>2
<1>9. ASSUME NEW s \in Resetters, Zero(s) PROVE AllMonthly'
  <2>1. CASE s # "task"
    <3>1. reset'["task"] = reset["task"]
      BY <1>9, <2>1, AdvanceRecord DEF Zero, Frame, Resetters
    <3>2. UNCHANGED <<rowVars, clockVars, resets, disturbed>>
      BY <1>9, <2>1 DEF Zero
    <3>. QED
      BY <1>2, <3>1, <3>2
  <2>. QED
    BY <1>9, <2>1, ZeroMonthly
<1>10. CASE UNCHANGED vars
  BY <1>2, <1>10 DEF vars
<1>. QED
  BY <1>3, <1>4, <1>5, <1>6, <1>7, <1>8, <1>9, <1>10, StartMonthly, MidnightMonthly DEF Next

(* A tracked node is reset by the task exactly once a month, on its day or   *)
(* on the last of a month that lacks it, whatever administrators reset       *)
(* meanwhile.                                                               *)
THEOREM OnceAMonth == Spec => []ResetOncePerMonth
<1>1. Init => Frame /\ Accounts
  BY InitAccounts
<1>2. ASSUME Init PROVE AllMonthly
  <2>1. ASSUME NEW n \in Nodes PROVE Monthly(n)
    <3>1. /\ resets[n] = 0 /\ ~HeldIn(reset["task"], n) /\ ticked = FALSE /\ day = 1
      BY <1>2 DEF Init, HeldIn, Resetters
    <3>2. 1 <= Turn(resetDay[n], month) /\ Turn(resetDay[n], month) \in Nat
      BY <1>2, InitType, Calendar
    <3>. QED
      BY <3>1, <3>2 DEF Monthly, Through
  <2>. QED
    BY <2>1 DEF AllMonthly
<1>3. AllMonthly => ResetOncePerMonth
  BY DEF AllMonthly, Monthly, ResetOncePerMonth, Turn, DayOf, LastDay, HeldIn, Holds, Through
<1>. QED
  BY <1>1, <1>2, <1>3, StepAccounts, StepMonthly, PTL DEF Spec

=============================================================================
