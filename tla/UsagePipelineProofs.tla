------------------------ MODULE UsagePipelineProofs ------------------------
(* Proofs about UsagePipeline for every set of users, nodes and workers,    *)
(* every multiplier and every bound; and about QueueThrottle, the jobs that *)
(* pause its queues, for every set of jobs, whatever they pause, in whatever *)
(* order, and every bound.                                                  *)
EXTENDS UsagePipeline, QueueThrottle, FiniteSetTheorems, TLAPS

-----------------------------------------------------------------------------
(* The operators on byte counts stay within the byte counts.                *)

LEMMA ZeroType == Zero \in Bytes
BY DEF Zero, Bytes

LEMMA PlusType ==
    ASSUME NEW f \in Bytes, NEW g \in Bytes
    PROVE  Plus(f, g) \in Bytes
BY DEF Plus, Bytes

LEMMA OnlyType ==
    ASSUME NEW f \in Bytes, NEW S
    PROVE  Only(f, S) \in Bytes
BY DEF Only, Bytes

LEMMA BilledType ==
    ASSUME NEW n \in Nodes, NEW b \in Nat
    PROVE  Billed(n, b) \in Nat
<1>1. One \in Nat \ {0} /\ Multiplier[n] \in Nat
  BY UsageAssumption
<1>2. Multiplier[n] * b \in Nat
  BY <1>1
<1>3. (Multiplier[n] * b) \div One \in Nat
  BY <1>1, <1>2
<1>. QED
  BY <1>3 DEF Billed

LEMMA IdleTypes ==
    /\ IdleRec \in [state : RecState, batch : Bytes, listed : SUBSET Users]
    /\ IdlePush \in [state : PushState, done : SUBSET Users, stalls : Nat]
BY ZeroType DEF IdleRec, EmptyRec, IdlePush, RecState, PushState

-----------------------------------------------------------------------------
(* Type correctness.                                                        *)

LEMMA InitType == Init => TypeOK
BY ZeroType, IdleTypes, UsageAssumption
DEF Init, TypeOK

LEMMA RecordStepType ==
    ASSUME TypeOK, NEW n \in Nodes, RecordStep(n)
    PROVE  TypeOK'
<1>1. CASE QueueRecord(n)
  BY <1>1 DEF TypeOK, QueueRecord, RecState, nodeVars, cacheVars, userVars
<1>2. CASE FetchStats(n)
  <2>1. PICK listed \in SUBSET Users :
          LET counted == {u \in listed : counter[n][u] >= IgnoreBelow}
          IN rec' = [rec EXCEPT ![n] =
                       IF listed = {} THEN IdleRec
                       ELSE [state |-> "fetched", batch |-> Only(counter[n], counted),
                             listed |-> counted]]
    BY <1>2 DEF FetchStats
  <2> DEFINE counted == {u \in listed : counter[n][u] >= IgnoreBelow}
  <2>2. [state |-> "fetched", batch |-> Only(counter[n], counted), listed |-> counted]
          \in [state : RecState, batch : Bytes, listed : SUBSET Users]
    <3>1. Only(counter[n], counted) \in Bytes
      BY OnlyType DEF TypeOK
    <3>. QED
      BY <3>1 DEF RecState
  <2>3. rec' \in [Nodes -> [state : RecState, batch : Bytes, listed : SUBSET Users]]
    <3> HIDE DEF counted
    <3>. QED
      BY <2>1, <2>2, IdleTypes DEF TypeOK, counted
  <2>4. counter' \in [Nodes -> Bytes]
    BY <1>2, ZeroType DEF FetchStats, TypeOK
  <2>. QED
    BY <1>2, <2>3, <2>4 DEF TypeOK, FetchStats, cacheVars, userVars
<1>3. CASE FetchFails(n)
  <2>1. rec' \in [Nodes -> [state : RecState, batch : Bytes, listed : SUBSET Users]]
    BY <1>3, IdleTypes DEF TypeOK, FetchFails
  <2>2. counter' \in [Nodes -> Bytes]
    <3>1. [counter EXCEPT ![n] = Zero] \in [Nodes -> Bytes]
      BY ZeroType DEF TypeOK
    <3>. QED
      BY <1>3, <3>1 DEF TypeOK, FetchFails
  <2>3. mishaps' \in Nat
    BY <1>3 DEF TypeOK, FetchFails, Mishap
  <2>. QED
    BY <1>3, <2>1, <2>2, <2>3 DEF TypeOK, FetchFails, cacheVars, userVars
<1>4. CASE CacheUsage(n)
  <2>1. rec' \in [Nodes -> [state : RecState, batch : Bytes, listed : SUBSET Users]]
    BY <1>4 DEF TypeOK, CacheUsage, RecState
  <2>2. redis' \in [Nodes -> Bytes] /\ mishaps' \in Nat
    <3>1. Plus(redis[n], rec[n].batch) \in Bytes
      BY PlusType DEF TypeOK
    <3>2. CASE redis' = [redis EXCEPT ![n] = Plus(@, rec[n].batch)] /\ UNCHANGED mishaps
      BY <3>1, <3>2 DEF TypeOK
    <3>3. CASE Mishap /\ UNCHANGED redis
      BY <3>3 DEF TypeOK, Mishap
    <3>. QED
      BY <1>4, <3>2, <3>3 DEF CacheUsage
  <2>. QED
    BY <1>4, <2>1, <2>2 DEF TypeOK, CacheUsage, nodeVars, userVars
<1>5. CASE QueueUpdates(n)
  <2>1. PICK chunk \in SUBSET rec[n].listed :
          /\ updates' = Append(updates,
                [inc |-> [u \in Users |-> IF u \in chunk THEN Billed(n, rec[n].batch[u]) ELSE 0],
                 for |-> chunk, stalls |-> 0])
          /\ rec' = [rec EXCEPT ![n].listed = @ \ chunk]
    BY <1>5 DEF QueueUpdates
  <2>2. chunk \in SUBSET Users
    BY <2>1 DEF TypeOK
  <2>3. [u \in Users |-> IF u \in chunk THEN Billed(n, rec[n].batch[u]) ELSE 0] \in Bytes
    <3>1. \A u \in Users : rec[n].batch[u] \in Nat
      BY DEF TypeOK, Bytes
    <3>2. \A u \in Users : Billed(n, rec[n].batch[u]) \in Nat
      BY <3>1, BilledType
    <3>. QED
      BY <3>2 DEF Bytes
  <2>4. updates' \in Seq(UpdateJob)
    BY <2>1, <2>2, <2>3 DEF TypeOK, UpdateJob
  <2>5. rec' \in [Nodes -> [state : RecState, batch : Bytes, listed : SUBSET Users]]
    BY <2>1 DEF TypeOK
  <2>. QED
    BY <1>5, <2>4, <2>5 DEF TypeOK, QueueUpdates, nodeVars, cacheVars, userVars
<1>6. CASE SchedulePush(n)
  BY <1>6, IdleTypes
  DEF TypeOK, SchedulePush, PushState, nodeVars, userVars
<1>7. CASE RecordFails(n)
  BY <1>7, IdleTypes DEF TypeOK, RecordFails, Mishap, nodeVars, cacheVars, userVars
<1>8. CASE CrashRecord(n)
  <2>1. EmptyRec("queued") \in [state : RecState, batch : Bytes, listed : SUBSET Users]
    BY ZeroType DEF EmptyRec, RecState
  <2>. QED
    BY <1>8, <2>1 DEF TypeOK, CrashRecord, Mishap, nodeVars, cacheVars, userVars
<1>. QED
  BY <1>1, <1>2, <1>3, <1>4, <1>5, <1>6, <1>7, <1>8 DEF RecordStep

LEMMA PushStepType ==
    ASSUME TypeOK, NEW n \in Nodes, PushStep(n)
    PROVE  TypeOK'
<1>1. CASE StartPush(n)
  BY <1>1 DEF TypeOK, StartPush, PushState, nodeVars, userVars
<1>2. CASE SkipPush(n)
  BY <1>2, ZeroType, IdleTypes DEF TypeOK, SkipPush, nodeVars, userVars
<1>3. CASE RenameHash(n)
  BY <1>3, ZeroType DEF TypeOK, RenameHash, PushState, nodeVars, userVars
<1>4. CASE UpsertBatch(n)
  <2>1. PICK batch \in SUBSET Unscanned(n) :
          /\ push' = [push EXCEPT ![n].done = @ \cup batch]
          /\ \/ /\ history' = [history EXCEPT ![n] =
                                  Plus(@, Only(processing[n], batch \cap alive))]
                /\ UNCHANGED mishaps
             \/ /\ Mishap
                /\ UNCHANGED history
    BY <1>4 DEF UpsertBatch
  <2>2. push' \in [Nodes -> [state : PushState, done : SUBSET Users, stalls : Nat]]
    <3>1. batch \subseteq Users
      BY DEF Unscanned
    <3>2. push[n].done \cup batch \subseteq Users
      BY <3>1 DEF TypeOK
    <3>3. push' = [push EXCEPT ![n].done = @ \cup batch]
      BY <2>1
    <3>. QED
      BY <3>2, <3>3 DEF TypeOK
  <2>3. history' \in [Nodes -> Bytes] /\ mishaps' \in Nat
    <3>1. Plus(history[n], Only(processing[n], batch \cap alive)) \in Bytes
      BY PlusType, OnlyType DEF TypeOK
    <3>2. CASE history' = [history EXCEPT ![n] =
                             Plus(@, Only(processing[n], batch \cap alive))]
               /\ UNCHANGED mishaps
      BY <3>1, <3>2 DEF TypeOK
    <3>3. CASE Mishap /\ UNCHANGED history
      BY <3>3 DEF TypeOK, Mishap
    <3>. QED
      BY <2>1, <3>2, <3>3
  <2>. QED
    BY <1>4, <2>2, <2>3 DEF TypeOK, UpsertBatch, nodeVars, userVars
<1>5. CASE FinishPush(n)
  BY <1>5, ZeroType, IdleTypes DEF TypeOK, FinishPush, nodeVars, userVars
<1>6. CASE PushFails(n)
  BY <1>6, ZeroType, IdleTypes DEF TypeOK, PushFails, Mishap, nodeVars, userVars
<1>7. CASE CrashPush(n)
  BY <1>7, IdleTypes DEF TypeOK, CrashPush, Mishap, PushState, nodeVars, userVars
<1>8. CASE ExpireHash(n)
  BY <1>8, ZeroType DEF TypeOK, ExpireHash, Mishap, nodeVars, userVars
<1>. QED
  BY <1>1, <1>2, <1>3, <1>4, <1>5, <1>6, <1>7, <1>8 DEF PushStep

LEMMA FireType ==
    ASSUME TypeOK, NEW w \in Workers, Fire(w)
    PROVE  welcomed' \in Bytes
<1>1. \A u \in Users : welcomed[u] + (IF u \in active[w].first THEN 1 ELSE 0) \in Nat
  BY DEF TypeOK, Bytes
<1>. QED
  BY <1>1 DEF Fire, Bytes

LEMMA UpdateStepType ==
    ASSUME TypeOK, NEW w \in Workers, UpdateStep(w)
    PROVE  TypeOK'
<1>1. CASE StartUpdate(w)
  <2>1. Head(updates) \in UpdateJob /\ Tail(updates) \in Seq(UpdateJob)
    BY <1>1 DEF TypeOK, StartUpdate
  <2>2. [inc |-> Head(updates).inc, for |-> Head(updates).for,
         stalls |-> Head(updates).stalls, written |-> FALSE, first |-> {}] \in ActiveJob
    BY <2>1 DEF UpdateJob, ActiveJob
  <2>3. active' \in [Workers -> ActiveJob \cup {NoJob}]
    BY <1>1, <2>2 DEF TypeOK, StartUpdate
  <2>. QED
    BY <1>1, <2>1, <2>3 DEF TypeOK, StartUpdate, nodeVars, cacheVars, userVars
<1>2. CASE WriteUpdate(w)
  <2> DEFINE rows == active[w].for \cap alive
  <2>1. active[w] \in ActiveJob
    BY <1>2 DEF TypeOK, WriteUpdate
  <2>2. Plus(used, Only(active[w].inc, rows)) \in Bytes
    BY <2>1, PlusType, OnlyType DEF TypeOK, ActiveJob
  <2>3. Plus(lifetime, Only(active[w].inc, rows)) \in Bytes
    BY <2>1, PlusType, OnlyType DEF TypeOK, ActiveJob
  <2>4. PICK same \in SUBSET (rows \cap connected) :
          /\ active' = [active EXCEPT ![w].written = TRUE,
                                     ![w].first = FirstConnections(rows, same)]
          /\ tied' = tied \cup same
    BY <1>2 DEF WriteUpdate
  <2>5. rows \subseteq Users /\ FirstConnections(rows, same) \subseteq Users /\ tied' \subseteq Users
    BY <2>1, <2>4 DEF TypeOK, ActiveJob, FirstConnections
  <2>6. [active[w] EXCEPT !.written = TRUE, !.first = FirstConnections(rows, same)] \in ActiveJob
    BY <2>1, <2>5 DEF ActiveJob
  <2>7. active' = [active EXCEPT
                     ![w] = [@ EXCEPT !.written = TRUE, !.first = FirstConnections(rows, same)]]
    BY <2>4
  <2>8. active' \in [Workers -> ActiveJob \cup {NoJob}]
    BY <2>6, <2>7 DEF TypeOK
  <2>9. used' \in Bytes /\ lifetime' \in Bytes /\ connected' \in SUBSET Users
    BY <1>2, <2>2, <2>3, <2>5 DEF TypeOK, WriteUpdate
  <2>. QED
    BY <1>2, <2>5, <2>8, <2>9 DEF TypeOK, WriteUpdate, nodeVars, cacheVars
<1>3. CASE FinishUpdate(w)
  <2>1. welcomed' \in Bytes
    BY <1>3, FireType DEF FinishUpdate
  <2>. QED
    BY <1>3, <2>1 DEF TypeOK, FinishUpdate, nodeVars, cacheVars
<1>4. CASE UpdateFails(w)
  BY <1>4 DEF TypeOK, UpdateFails, Mishap, nodeVars, cacheVars, userVars
<1>5. CASE CrashUpdate(w)
  <2>1. [inc |-> active[w].inc, for |-> active[w].for,
         stalls |-> active[w].stalls + 1] \in UpdateJob
    BY <1>5 DEF TypeOK, CrashUpdate, ActiveJob, UpdateJob
  <2>2. updates' \in Seq(UpdateJob)
    BY <1>5, <2>1 DEF TypeOK, CrashUpdate
  <2>3. welcomed' \in Bytes
    BY <1>5, FireType DEF TypeOK, CrashUpdate
  <2>. QED
    BY <1>5, <2>2, <2>3 DEF TypeOK, CrashUpdate, Mishap, nodeVars, cacheVars
<1>. QED
  BY <1>1, <1>2, <1>3, <1>4, <1>5 DEF UpdateStep

LEMMA OtherStepType ==
    ASSUME TypeOK,
           \/ \E n \in Nodes : RestartXray(n)
           \/ \E n \in Nodes, u \in Users : Transfer(n, u)
           \/ \E u \in Users : ResetTraffic(u) \/ DeleteUser(u)
           \/ TruncateHistory
    PROVE  TypeOK'
<1>1. ASSUME NEW n \in Nodes, RestartXray(n) PROVE TypeOK'
  BY <1>1, ZeroType DEF TypeOK, RestartXray, Mishap, cacheVars, userVars
<1>2. ASSUME NEW n \in Nodes, NEW u \in Users, Transfer(n, u) PROVE TypeOK'
  <2>1. generated' \in [Nodes -> Bytes] /\ counter' \in [Nodes -> Bytes]
    <3>1. /\ [generated[n] EXCEPT ![u] = @ + 1] \in Bytes
          /\ [counter[n] EXCEPT ![u] = @ + 1] \in Bytes
      <4>1. generated[n] \in Bytes /\ counter[n] \in Bytes
        BY DEF TypeOK
      <4>. QED
        BY <4>1 DEF Bytes
    <3>. QED
      BY <1>2, <3>1 DEF TypeOK, Transfer
  <2>. QED
    BY <1>2, <2>1 DEF TypeOK, Transfer, cacheVars, userVars
<1>3. ASSUME NEW u \in Users, ResetTraffic(u) PROVE TypeOK'
  <2>1. used' \in Bytes
    BY <1>3 DEF TypeOK, ResetTraffic, Bytes
  <2>. QED
    BY <1>3, <2>1 DEF TypeOK, ResetTraffic, nodeVars, cacheVars
<1>4. ASSUME NEW u \in Users, DeleteUser(u) PROVE TypeOK'
  <2>1. used' \in Bytes /\ lifetime' \in Bytes /\ history' \in [Nodes -> Bytes]
    <3>1. \A n \in Nodes : [history[n] EXCEPT ![u] = 0] \in Bytes
      BY DEF TypeOK, Bytes
    <3>2. [used EXCEPT ![u] = 0] \in Bytes /\ [lifetime EXCEPT ![u] = 0] \in Bytes
      BY DEF TypeOK, Bytes
    <3>. QED
      BY <1>4, <3>1, <3>2 DEF DeleteUser
  <2>. QED
    BY <1>4, <2>1 DEF TypeOK, DeleteUser, Mishap, nodeVars
<1>5. CASE TruncateHistory
  BY <1>5, ZeroType DEF TypeOK, TruncateHistory, Mishap, nodeVars, userVars
<1>. QED
  BY <1>1, <1>2, <1>3, <1>4, <1>5

LEMMA NextType == TypeOK /\ [Next]_vars => TypeOK'
<1>. SUFFICES ASSUME TypeOK, [Next]_vars PROVE TypeOK'
  OBVIOUS
<1>1. CASE Next
  BY <1>1, RecordStepType, PushStepType, UpdateStepType, OtherStepType DEF Next
<1>2. CASE UNCHANGED vars
  BY <1>2 DEF TypeOK, vars, nodeVars, cacheVars, userVars
<1>. QED
  BY <1>1, <1>2

(* Every behaviour of the pipeline stays within its types.                  *)
THEOREM TypeCorrect == Spec => []TypeOK
BY InitType, NextType, PTL DEF Spec

-----------------------------------------------------------------------------
(* Counting at most once, and losing nothing without a mishap.  Both are    *)
(* statements about the sum of the five places a byte can be in; every      *)
(* action but Transfer leaves that sum or, by a mishap or below IgnoreBelow, *)
(* lowers it.  A processing key counts only while a scan is under way and   *)
(* only for the users the scan has not reached.                             *)

LEMMA PartTypes ==
    ASSUME TypeOK, NEW n \in Nodes, NEW u \in Users
    PROVE  /\ generated[n][u] \in Nat /\ counter[n][u] \in Nat /\ redis[n][u] \in Nat
           /\ history[n][u] \in Nat /\ Fetched(n, u) \in Nat /\ Unwritten(n, u) \in Nat
           /\ processing[n][u] \in Nat /\ rec[n].batch[u] \in Nat
<1>1. /\ generated[n] \in Bytes /\ counter[n] \in Bytes /\ redis[n] \in Bytes
      /\ history[n] \in Bytes /\ processing[n] \in Bytes /\ rec[n].batch \in Bytes
  BY DEF TypeOK
<1>. QED
  BY <1>1 DEF Bytes, Fetched, Unwritten

LEMMA MishapIsSeen ==
    ASSUME TypeOK, Mishap
    PROVE  mishaps' = mishaps + 1 /\ mishaps' # mishaps /\ mishaps' # 0
BY DEF TypeOK, Mishap

AliveInv == mishaps = 0 => alive = Users

Balanced(n, u) ==
    /\ Accounted(n, u) <= generated[n][u]
    /\ mishaps = 0 /\ IgnoreBelow <= 1 => Accounted(n, u) = generated[n][u]

BalanceInv == \A n \in Nodes, u \in Users : Balanced(n, u)

(* What a step that sends nothing does to the sum: it keeps what reached the *)
(* history and drops less than IgnoreBelow of a user that exists, or it is a *)
(* mishap, and records nothing.                                             *)
Keeps(n, u) ==
    /\ mishaps' = mishaps
    /\ history[n][u] <= history'[n][u]
    /\ u \in alive => \/ Accounted(n, u)' = Accounted(n, u)
                      \/ Accounted(n, u) < Accounted(n, u)' + IgnoreBelow
Loses(n, u) ==
    /\ mishaps' = mishaps + 1
    /\ history'[n][u] <= history[n][u]

Conserves(n, u) ==
    /\ generated'[n][u] = generated[n][u]
    /\ Accounted(n, u)' <= Accounted(n, u)
    /\ Keeps(n, u) \/ Loses(n, u)

LEMMA ConservesBalanced ==
    ASSUME TypeOK, TypeOK', AliveInv, NEW n \in Nodes, NEW u \in Users, Balanced(n, u),
           Conserves(n, u)
    PROVE  Balanced(n, u)'
<1>1. Accounted(n, u) \in Nat /\ generated[n][u] \in Nat
  BY PartTypes DEF Accounted
<1>2. Accounted(n, u)' \in Nat
  <2>1. /\ counter'[n][u] \in Nat /\ redis'[n][u] \in Nat /\ history'[n][u] \in Nat
        /\ Fetched(n, u)' \in Nat /\ Unwritten(n, u)' \in Nat
    <3>1. /\ counter'[n] \in Bytes /\ redis'[n] \in Bytes /\ history'[n] \in Bytes
          /\ processing'[n] \in Bytes /\ rec'[n].batch \in Bytes
      BY DEF TypeOK
    <3>. QED
      BY <3>1 DEF Bytes, Fetched, Unwritten
  <2>. QED
    BY <2>1 DEF Accounted
<1>3. mishaps \in Nat /\ mishaps' \in Nat /\ IgnoreBelow \in Nat
  BY UsageAssumption DEF TypeOK
<1>4. mishaps' = 0 /\ IgnoreBelow <= 1 => mishaps = 0 /\ Accounted(n, u)' = Accounted(n, u)
  BY <1>1, <1>2, <1>3 DEF Conserves, Keeps, Loses, AliveInv
<1>. QED
  BY <1>1, <1>2, <1>4 DEF Balanced, Conserves

LEMMA BalanceInit == Init => BalanceInv /\ AliveInv
BY DEF Init, BalanceInv, Balanced, AliveInv, Accounted, Fetched, Unwritten, Zero,
       IdleRec, EmptyRec, IdlePush

LEMMA RecordConserves ==
    ASSUME TypeOK, NEW n \in Nodes, RecordStep(n), NEW m \in Nodes, NEW u \in Users
    PROVE  Conserves(m, u)
<1>. USE PartTypes, MishapIsSeen
<1>1. CASE QueueRecord(n)
  <2>1. Fetched(m, u)' = Fetched(m, u)
    BY <1>1 DEF QueueRecord, Fetched, TypeOK
  <2>2. Unwritten(m, u)' = Unwritten(m, u)
    BY <1>1 DEF QueueRecord, Unwritten, cacheVars
  <2>. QED
    BY <1>1, <2>1, <2>2 DEF QueueRecord, Conserves, Keeps, Loses, Accounted, nodeVars, cacheVars
<1>2. CASE FetchStats(n)
  <2>1. Unwritten(m, u)' = Unwritten(m, u)
    BY <1>2 DEF FetchStats, Unwritten, cacheVars
  <2>2. CASE m # n
    <3>1. Fetched(m, u)' = Fetched(m, u) /\ counter'[m] = counter[m]
      BY <1>2, <2>2 DEF FetchStats, Fetched, TypeOK
    <3>. QED
      BY <1>2, <2>1, <3>1 DEF FetchStats, Conserves, Keeps, Loses, Accounted, cacheVars
  <2>3. CASE m = n
    <3>1. Fetched(m, u) = 0 /\ counter'[m][u] = 0
      BY <1>2, <2>3 DEF FetchStats, Fetched, TypeOK, Zero
    <3>2. /\ Fetched(m, u)' <= counter[m][u]
          /\ Fetched(m, u)' = counter[m][u] \/ counter[m][u] < IgnoreBelow
          /\ Fetched(m, u)' \in Nat
      <4>1. PICK listed \in SUBSET Users :
              /\ {v \in Users : counter[n][v] > 0} \subseteq listed
              /\ rec' = [rec EXCEPT ![n] =
                       IF listed = {} THEN IdleRec
                       ELSE [state |-> "fetched",
                             batch |-> Only(counter[n],
                                            {v \in listed : counter[n][v] >= IgnoreBelow}),
                             listed |-> {v \in listed : counter[n][v] >= IgnoreBelow}]]
        BY <1>2 DEF FetchStats
      <4>2. CASE listed = {}
        <5>1. counter[n][u] = 0
          BY <4>1, <4>2
        <5>2. Fetched(m, u)' = 0
          BY <2>3, <4>1, <4>2 DEF Fetched, IdleRec, EmptyRec, TypeOK
        <5>. QED
          BY <2>3, <5>1, <5>2
      <4>3. CASE listed # {}
        <5>1. Fetched(m, u)' =
                Only(counter[n], {v \in listed : counter[n][v] >= IgnoreBelow})[u]
          BY <2>3, <4>1, <4>3 DEF Fetched, TypeOK
        <5>2. Fetched(m, u)' =
                IF u \in listed /\ counter[n][u] >= IgnoreBelow THEN counter[n][u] ELSE 0
          BY <5>1 DEF Only
        <5>3. IgnoreBelow \in Nat
          BY UsageAssumption
        <5>4. u \notin listed => counter[n][u] = 0
          BY <4>1
        <5>. QED
          BY <2>3, <5>2, <5>3, <5>4
      <4>. QED
        BY <4>2, <4>3
    <3>3. /\ UNCHANGED <<redis, history, mishaps>> /\ generated' = generated
          /\ IgnoreBelow \in Nat
      BY <1>2, UsageAssumption DEF FetchStats, cacheVars
    <3>. QED
      BY <2>1, <2>3, <3>1, <3>2, <3>3 DEF Conserves, Keeps, Accounted
  <2>. QED
    BY <2>2, <2>3
<1>3. CASE FetchFails(n)
  <2>1. Unwritten(m, u)' = Unwritten(m, u)
    BY <1>3 DEF FetchFails, Unwritten, cacheVars
  <2>2. Fetched(m, u)' = 0 \/ (m # n /\ Fetched(m, u)' = Fetched(m, u))
    BY <1>3 DEF FetchFails, Fetched, TypeOK, IdleRec, EmptyRec
  <2>3. m = n => Fetched(m, u) = 0
    BY <1>3 DEF FetchFails, Fetched
  <2>4. CASE UNCHANGED counter /\ UNCHANGED mishaps
    <3>1. Fetched(m, u)' = Fetched(m, u)
      BY <1>3 DEF FetchFails, Fetched, TypeOK, IdleRec, EmptyRec
    <3>. QED
      BY <1>3, <2>1, <2>4, <3>1 DEF FetchFails, Conserves, Keeps, Loses, Accounted, cacheVars
  <2>5. CASE Mishap /\ counter' = [counter EXCEPT ![n] = Zero]
    <3>1. counter'[m][u] <= counter[m][u] /\ counter'[m][u] \in Nat
      BY <2>5 DEF TypeOK, Zero
    <3>. QED
      BY <1>3, <2>1, <2>2, <2>3, <2>5, <3>1
      DEF FetchFails, Conserves, Keeps, Loses, Accounted, cacheVars
  <2>. QED
    BY <1>3, <2>4, <2>5 DEF FetchFails
<1>4. CASE CacheUsage(n)
  <2>1. Unwritten(m, u)' = Unwritten(m, u)
    BY <1>4 DEF CacheUsage, Unwritten
  <2>2. CASE m # n
    <3>1. Fetched(m, u)' = Fetched(m, u) /\ redis'[m] = redis[m]
      BY <1>4, <2>2 DEF CacheUsage, Fetched, TypeOK
    <3>. QED
      BY <1>4, <2>1, <3>1 DEF CacheUsage, Conserves, Keeps, Loses, Accounted, nodeVars
  <2>3. CASE m = n
    <3>1. Fetched(m, u) = rec[n].batch[u] /\ Fetched(m, u)' = 0
      BY <1>4, <2>3 DEF CacheUsage, Fetched, TypeOK
    <3>2. CASE redis' = [redis EXCEPT ![n] = Plus(@, rec[n].batch)] /\ UNCHANGED mishaps
      <4>1. redis'[m][u] = redis[m][u] + rec[n].batch[u]
        BY <2>3, <3>2 DEF TypeOK, Plus
      <4>. QED
        BY <1>4, <2>1, <2>3, <3>1, <3>2, <4>1 DEF CacheUsage, Conserves, Keeps, Loses, Accounted, nodeVars
    <3>3. CASE Mishap /\ UNCHANGED redis
      BY <1>4, <2>1, <3>1, <3>3
      DEF CacheUsage, Conserves, Keeps, Loses, Accounted, nodeVars
    <3>. QED
      BY <1>4, <3>2, <3>3 DEF CacheUsage
  <2>. QED
    BY <2>2, <2>3
<1>5. CASE QueueUpdates(n)
  <2>1. Unwritten(m, u)' = Unwritten(m, u)
    BY <1>5 DEF QueueUpdates, Unwritten, cacheVars
  <2>2. Fetched(m, u)' = Fetched(m, u)
    BY <1>5 DEF QueueUpdates, Fetched, TypeOK
  <2>3. UNCHANGED <<generated, counter, redis, history, mishaps>>
    BY <1>5 DEF QueueUpdates, nodeVars, cacheVars
  <2>. QED
    BY <2>1, <2>2, <2>3 DEF Conserves, Keeps, Accounted
<1>6. CASE SchedulePush(n)
  <2>1. Unwritten(m, u)' = Unwritten(m, u)
    BY <1>6 DEF SchedulePush, Unwritten, TypeOK
  <2>2. Fetched(m, u)' = Fetched(m, u)
    BY <1>6 DEF SchedulePush, Fetched, TypeOK, IdleRec, EmptyRec
  <2>. QED
    BY <1>6, <2>1, <2>2 DEF SchedulePush, Conserves, Keeps, Loses, Accounted, nodeVars
<1>7. CASE RecordFails(n)
  <2>1. Unwritten(m, u)' = Unwritten(m, u)
    BY <1>7 DEF RecordFails, Unwritten, cacheVars
  <2>2. Fetched(m, u)' \in {0, Fetched(m, u)}
    BY <1>7 DEF RecordFails, Fetched, TypeOK, IdleRec, EmptyRec
  <2>. QED
    BY <1>7, <2>1, <2>2
    DEF RecordFails, Conserves, Keeps, Loses, Accounted, nodeVars, cacheVars
<1>8. CASE CrashRecord(n)
  <2>1. Unwritten(m, u)' = Unwritten(m, u)
    BY <1>8 DEF CrashRecord, Unwritten, cacheVars
  <2>2. Fetched(m, u)' \in {0, Fetched(m, u)}
    BY <1>8 DEF CrashRecord, Fetched, TypeOK, EmptyRec
  <2>. QED
    BY <1>8, <2>1, <2>2
    DEF CrashRecord, Conserves, Keeps, Loses, Accounted, nodeVars, cacheVars
<1>. QED
  BY <1>1, <1>2, <1>3, <1>4, <1>5, <1>6, <1>7, <1>8 DEF RecordStep

LEMMA PushConserves ==
    ASSUME TypeOK, NEW n \in Nodes, PushStep(n), NEW m \in Nodes, NEW u \in Users
    PROVE  Conserves(m, u)
<1>. USE PartTypes, MishapIsSeen
<1>1. CASE StartPush(n)
  <2>1. Fetched(m, u)' = Fetched(m, u)
    BY <1>1 DEF StartPush, Fetched
  <2>2. Unwritten(m, u)' = Unwritten(m, u)
    BY <1>1 DEF StartPush, Unwritten, TypeOK
  <2>. QED
    BY <1>1, <2>1, <2>2 DEF StartPush, Conserves, Keeps, Loses, Accounted, nodeVars
<1>2. CASE SkipPush(n)
  <2>1. Fetched(m, u)' = Fetched(m, u)
    BY <1>2 DEF SkipPush, Fetched
  <2>2. Unwritten(m, u)' = Unwritten(m, u)
    BY <1>2 DEF SkipPush, Unwritten, TypeOK, IdlePush
  <2>. QED
    BY <1>2, <2>1, <2>2 DEF SkipPush, Conserves, Keeps, Loses, Accounted, nodeVars
<1>3. CASE RenameHash(n)
  <2>1. Fetched(m, u)' = Fetched(m, u)
    BY <1>3 DEF RenameHash, Fetched
  <2>2. /\ generated' = generated /\ counter' = counter /\ history' = history
        /\ mishaps' = mishaps
    BY <1>3 DEF RenameHash, nodeVars
  <2>3. CASE m # n
    <3>1. redis'[m] = redis[m] /\ Unwritten(m, u)' = Unwritten(m, u)
      BY <1>3, <2>3 DEF RenameHash, Unwritten, TypeOK
    <3>. QED
      BY <2>1, <2>2, <3>1 DEF Conserves, Keeps, Loses, Accounted
  <2>4. CASE m = n
    <3>1. redis'[m][u] = 0 /\ Unwritten(m, u) = 0 /\ Unwritten(m, u)' = redis[m][u]
      BY <1>3, <2>4 DEF RenameHash, Unwritten, TypeOK, Zero
    <3>. QED
      BY <2>1, <2>2, <3>1 DEF Conserves, Keeps, Loses, Accounted
  <2>. QED
    BY <2>3, <2>4
<1>4. CASE UpsertBatch(n)
  <2>1. Fetched(m, u)' = Fetched(m, u)
    BY <1>4 DEF UpsertBatch, Fetched
  <2>2. PICK batch \in SUBSET Unscanned(n) :
          /\ push' = [push EXCEPT ![n].done = @ \cup batch]
          /\ \/ /\ history' = [history EXCEPT ![n] =
                                  Plus(@, Only(processing[n], batch \cap alive))]
                /\ UNCHANGED mishaps
             \/ /\ Mishap
                /\ UNCHANGED history
    BY <1>4 DEF UpsertBatch
  <2>3. push' = [push EXCEPT ![n].done = @ \cup batch]
    BY <2>2
  <2>4. CASE m # n
    <3>1. Unwritten(m, u)' = Unwritten(m, u)
      BY <1>4, <2>3, <2>4 DEF UpsertBatch, Unwritten, TypeOK
    <3>2. history'[m] = history[m] /\ (mishaps' = 0 => mishaps = 0)
      BY <2>2, <2>4 DEF TypeOK
    <3>. QED
      BY <1>4, <2>1, <3>1, <3>2 DEF UpsertBatch, Conserves, Keeps, Loses, Accounted, nodeVars
  <2>5. CASE m = n
    <3>1. Unwritten(m, u)' = IF u \in batch THEN 0 ELSE Unwritten(m, u)
      BY <1>4, <2>3, <2>5 DEF UpsertBatch, Unwritten, TypeOK
    <3>2. u \in batch => Unwritten(m, u) = processing[n][u]
      BY <1>4, <2>5 DEF UpsertBatch, Unwritten, Unscanned
    <3>3. CASE history' = [history EXCEPT ![n] =
                             Plus(@, Only(processing[n], batch \cap alive))]
               /\ UNCHANGED mishaps
      <4>1. history'[m][u] =
              history[m][u] + (IF u \in batch \cap alive THEN processing[n][u] ELSE 0)
        BY <2>5, <3>3 DEF TypeOK, Plus, Only
      <4>2. /\ history'[m][u] + Unwritten(m, u)' <= history[m][u] + Unwritten(m, u)
            /\ u \in alive =>
                 history'[m][u] + Unwritten(m, u)' = history[m][u] + Unwritten(m, u)
            /\ history[m][u] <= history'[m][u]
            /\ history'[m][u] \in Nat /\ Unwritten(m, u)' \in Nat
        BY <2>5, <3>1, <3>2, <4>1
      <4>3. generated' = generated /\ counter' = counter /\ redis' = redis
        BY <1>4 DEF UpsertBatch, nodeVars
      <4>. QED
        BY <2>1, <3>3, <4>2, <4>3 DEF Conserves, Keeps, Accounted
    <3>4. CASE Mishap /\ UNCHANGED history
      BY <1>4, <2>1, <3>1, <3>4 DEF UpsertBatch, Conserves, Keeps, Loses, Accounted, nodeVars
    <3>. QED
      BY <2>2, <3>3, <3>4
  <2>. QED
    BY <2>4, <2>5
<1>5. CASE FinishPush(n)
  <2>1. Fetched(m, u)' = Fetched(m, u)
    BY <1>5 DEF FinishPush, Fetched
  <2>2. Unwritten(m, u)' = Unwritten(m, u)
    <3>1. CASE m # n
      BY <1>5, <3>1 DEF FinishPush, Unwritten, TypeOK, IdlePush
    <3>2. CASE m = n
      <4>1. Unwritten(m, u)' = 0
        BY <1>5, <3>2 DEF FinishPush, Unwritten, TypeOK, IdlePush
      <4>2. u \notin Unscanned(n)
        BY <1>5 DEF FinishPush
      <4>. QED
        BY <3>2, <4>1, <4>2 DEF Unwritten, Unscanned
    <3>. QED
      BY <3>1, <3>2
  <2>. QED
    BY <1>5, <2>1, <2>2 DEF FinishPush, Conserves, Keeps, Loses, Accounted, nodeVars
<1>6. CASE PushFails(n)
  <2>1. Fetched(m, u)' = Fetched(m, u)
    BY <1>6 DEF PushFails, Fetched
  <2>2. Unwritten(m, u)' \in {0, Unwritten(m, u)}
    BY <1>6 DEF PushFails, Unwritten, TypeOK, IdlePush
  <2>. QED
    BY <1>6, <2>1, <2>2 DEF PushFails, Conserves, Keeps, Loses, Accounted, nodeVars
<1>7. CASE CrashPush(n)
  <2>1. Fetched(m, u)' = Fetched(m, u)
    BY <1>7 DEF CrashPush, Fetched
  <2>2. Unwritten(m, u)' \in {0, Unwritten(m, u)}
    BY <1>7 DEF CrashPush, Unwritten, TypeOK, IdlePush
  <2>. QED
    BY <1>7, <2>1, <2>2 DEF CrashPush, Conserves, Keeps, Loses, Accounted, nodeVars
<1>8. CASE ExpireHash(n)
  <2>1. Fetched(m, u)' = Fetched(m, u) /\ Unwritten(m, u)' = Unwritten(m, u)
    BY <1>8 DEF ExpireHash, Fetched, Unwritten
  <2>2. redis'[m][u] \in {0, redis[m][u]}
    BY <1>8 DEF ExpireHash, TypeOK, Zero
  <2>. QED
    BY <1>8, <2>1, <2>2 DEF ExpireHash, Conserves, Keeps, Loses, Accounted, nodeVars
<1>. QED
  BY <1>1, <1>2, <1>3, <1>4, <1>5, <1>6, <1>7, <1>8 DEF PushStep

LEMMA AliveStep == TypeOK /\ AliveInv /\ [Next]_vars => AliveInv'
<1>. SUFFICES ASSUME TypeOK, AliveInv, [Next]_vars PROVE AliveInv'
  OBVIOUS
<1>. USE MishapIsSeen
<1>1. ASSUME NEW n \in Nodes, RecordStep(n) PROVE UNCHANGED alive /\ (mishaps' = 0 => mishaps = 0)
  BY <1>1 DEF RecordStep, QueueRecord, FetchStats, FetchFails, CacheUsage, QueueUpdates,
              SchedulePush, RecordFails, CrashRecord, userVars
<1>2. ASSUME NEW n \in Nodes, PushStep(n) PROVE UNCHANGED alive /\ (mishaps' = 0 => mishaps = 0)
  BY <1>2 DEF PushStep, StartPush, SkipPush, RenameHash, UpsertBatch, FinishPush,
              PushFails, CrashPush, ExpireHash, userVars
<1>3. ASSUME NEW w \in Workers, UpdateStep(w)
      PROVE  UNCHANGED alive /\ (mishaps' = 0 => mishaps = 0)
  BY <1>3 DEF UpdateStep, StartUpdate, WriteUpdate, FinishUpdate, UpdateFails, CrashUpdate,
              userVars
<1>4. ASSUME NEW n \in Nodes, NEW u \in Users, RestartXray(n) \/ Transfer(n, u)
      PROVE  UNCHANGED alive /\ (mishaps' = 0 => mishaps = 0)
  BY <1>4 DEF RestartXray, Transfer, userVars
<1>5. ASSUME NEW u \in Users, ResetTraffic(u) \/ DeleteUser(u) PROVE AliveInv'
  BY <1>5 DEF ResetTraffic, DeleteUser, AliveInv
<1>6. CASE TruncateHistory
  BY <1>6 DEF TruncateHistory, AliveInv, userVars
<1>7. CASE UNCHANGED vars
  BY <1>7 DEF vars, AliveInv, userVars
<1>8. ASSUME NEW n \in Nodes, RestartXray(n) PROVE AliveInv'
  BY <1>8 DEF RestartXray, AliveInv, userVars
<1>9. (UNCHANGED alive /\ (mishaps' = 0 => mishaps = 0)) => AliveInv'
  BY DEF AliveInv
<1>. QED
  BY <1>1, <1>2, <1>3, <1>4, <1>5, <1>6, <1>7, <1>8, <1>9 DEF Next

LEMMA OtherConserves ==
    ASSUME TypeOK, NEW m \in Nodes, NEW v \in Users,
           \/ \E n \in Nodes : RestartXray(n)
           \/ \E w \in Workers : UpdateStep(w)
           \/ \E u \in Users : ResetTraffic(u) \/ DeleteUser(u)
           \/ TruncateHistory
           \/ UNCHANGED vars
    PROVE  Conserves(m, v)
<1>. USE PartTypes, MishapIsSeen
<1>1. ASSUME NEW n \in Nodes, RestartXray(n) PROVE Conserves(m, v)
  <2>1. Fetched(m, v)' = Fetched(m, v) /\ Unwritten(m, v)' = Unwritten(m, v)
    BY <1>1 DEF RestartXray, Fetched, Unwritten, cacheVars
  <2>2. counter'[m][v] \in {0, counter[m][v]}
    BY <1>1 DEF RestartXray, TypeOK, Zero
  <2>3. /\ generated' = generated /\ redis' = redis /\ history' = history /\ mishaps' = mishaps + 1
    BY <1>1 DEF RestartXray, cacheVars
  <2>. QED
    BY <2>1, <2>2, <2>3 DEF Conserves, Keeps, Loses, Accounted
<1>2. ASSUME NEW w \in Workers, UpdateStep(w) PROVE Conserves(m, v)
  <2>1. /\ UNCHANGED <<generated, counter, rec, redis, processing, push, history>>
        /\ mishaps' = mishaps \/ mishaps' = mishaps + 1
    BY <1>2 DEF UpdateStep, StartUpdate, WriteUpdate, FinishUpdate, UpdateFails, CrashUpdate,
                nodeVars, cacheVars
  <2>. QED
    BY <2>1 DEF Conserves, Keeps, Loses, Accounted, Fetched, Unwritten
<1>3. ASSUME NEW u \in Users, ResetTraffic(u) PROVE Conserves(m, v)
  BY <1>3 DEF ResetTraffic, Conserves, Keeps, Loses, Accounted, Fetched, Unwritten, nodeVars, cacheVars
<1>4. ASSUME NEW u \in Users, DeleteUser(u) PROVE Conserves(m, v)
  <2>1. Fetched(m, v)' = Fetched(m, v) /\ Unwritten(m, v)' = Unwritten(m, v)
    BY <1>4 DEF DeleteUser, Fetched, Unwritten
  <2>2. history'[m][v] \in {0, history[m][v]}
    BY <1>4 DEF DeleteUser, TypeOK, Bytes
  <2>3. /\ generated' = generated /\ counter' = counter /\ redis' = redis /\ mishaps' = mishaps + 1
    BY <1>4 DEF DeleteUser, nodeVars
  <2>. QED
    BY <2>1, <2>2, <2>3 DEF Conserves, Keeps, Loses, Accounted
<1>5. ASSUME TruncateHistory PROVE Conserves(m, v)
  <2>1. Fetched(m, v)' = Fetched(m, v) /\ Unwritten(m, v)' = Unwritten(m, v)
    BY <1>5 DEF TruncateHistory, Fetched, Unwritten
  <2>2. history'[m][v] = 0
    BY <1>5 DEF TruncateHistory, Zero
  <2>3. /\ generated' = generated /\ counter' = counter /\ redis' = redis /\ mishaps' = mishaps + 1
    BY <1>5 DEF TruncateHistory, nodeVars
  <2>. QED
    BY <2>1, <2>2, <2>3 DEF Conserves, Keeps, Loses, Accounted
<1>6. ASSUME UNCHANGED vars PROVE Conserves(m, v)
  <2>1. UNCHANGED <<generated, counter, rec, redis, processing, push, history, mishaps>>
    BY <1>6 DEF vars, nodeVars, cacheVars
  <2>. QED
    BY <2>1 DEF Conserves, Keeps, Loses, Accounted, Fetched, Unwritten
<1>. QED
  BY <1>1, <1>2, <1>3, <1>4, <1>5, <1>6

(* Transfer sends one byte, and the node counts it.                          *)
LEMMA TransferSends ==
    ASSUME TypeOK, NEW n \in Nodes, NEW u \in Users, Transfer(n, u),
           NEW m \in Nodes, NEW v \in Users
    PROVE  /\ Fetched(m, v)' = Fetched(m, v) /\ Unwritten(m, v)' = Unwritten(m, v)
           /\ UNCHANGED <<redis, history, alive, mishaps>>
           /\ counter'[m][v] = counter[m][v] + (IF m = n /\ v = u THEN 1 ELSE 0)
           /\ generated'[m][v] = generated[m][v] + (IF m = n /\ v = u THEN 1 ELSE 0)
<1>1. Fetched(m, v)' = Fetched(m, v) /\ Unwritten(m, v)' = Unwritten(m, v)
  BY DEF Transfer, Fetched, Unwritten, cacheVars
<1>2. UNCHANGED <<redis, history, alive, mishaps>>
  BY DEF Transfer, cacheVars, userVars
<1>3. /\ generated[m] \in [Users -> Nat] /\ counter[m] \in [Users -> Nat]
      /\ generated[m][v] \in Nat /\ counter[m][v] \in Nat
  <2>1. generated[m] \in [Users -> Nat] /\ counter[m] \in [Users -> Nat]
    BY DEF TypeOK, Bytes
  <2>. QED
    BY <2>1
<1>4. CASE m = n
  <2>1. /\ counter'[m] = [counter[m] EXCEPT ![u] = @ + 1]
        /\ generated'[m] = [generated[m] EXCEPT ![u] = @ + 1]
    BY <1>4 DEF Transfer, TypeOK
  <2>. QED
    BY <1>1, <1>2, <1>3, <1>4, <2>1
<1>5. CASE m # n
  <2>1. counter'[m] = counter[m] /\ generated'[m] = generated[m]
    BY <1>5 DEF Transfer, TypeOK
  <2>. QED
    BY <1>1, <1>2, <1>3, <1>5, <2>1
<1>. QED
  BY <1>4, <1>5

LEMMA StepConserves ==
    ASSUME TypeOK, [Next]_vars, NEW m \in Nodes, NEW v \in Users
    PROVE  Conserves(m, v) \/ \E n \in Nodes, u \in Users : Transfer(n, u)
BY RecordConserves, PushConserves, OtherConserves DEF Next

LEMMA BalanceStep ==
    TypeOK /\ TypeOK' /\ AliveInv /\ BalanceInv /\ [Next]_vars => BalanceInv'
<1>. SUFFICES ASSUME TypeOK, TypeOK', AliveInv, BalanceInv, [Next]_vars,
                     NEW m \in Nodes, NEW v \in Users
              PROVE  Balanced(m, v)'
  BY DEF BalanceInv
<1>1. Balanced(m, v)
  BY DEF BalanceInv
<1>2. ASSUME NEW n \in Nodes, NEW u \in Users, Transfer(n, u) PROVE Balanced(m, v)'
  <2>1. /\ Accounted(m, v) \in Nat /\ generated[m][v] \in Nat
        /\ counter[m][v] \in Nat /\ redis[m][v] \in Nat /\ history[m][v] \in Nat
        /\ Fetched(m, v) \in Nat /\ Unwritten(m, v) \in Nat
    BY PartTypes DEF Accounted
  <2>2. Accounted(m, v)' = Accounted(m, v) + (IF m = n /\ v = u THEN 1 ELSE 0)
    BY <1>2, <2>1, TransferSends DEF Accounted
  <2>. QED
    BY <1>1, <1>2, <2>1, <2>2, TransferSends DEF Balanced
<1>3. Conserves(m, v) => Balanced(m, v)'
  BY <1>1, ConservesBalanced
<1>. QED
  BY <1>2, <1>3, StepConserves DEF Next

LEMMA Balance == Spec => [](BalanceInv /\ AliveInv)
BY BalanceInit, BalanceStep, AliveStep, TypeCorrect, PTL DEF Spec

(* No interleaving, crash or second run of a job records a byte twice.      *)
THEOREM CountedOnce == Spec => []CountedAtMostOnce
<1>1. BalanceInv => CountedAtMostOnce
  BY DEF BalanceInv, Balanced, CountedAtMostOnce
<1>. QED
  BY <1>1, Balance, PTL

-----------------------------------------------------------------------------
(* The refinement of UsageLedger.                                           *)

(* A step that is no Transfer keeps what was sent, and is a mishap or leaves *)
(* the users alone.                                                         *)
StepShape ==
    /\ UNCHANGED generated
    /\ \/ UNCHANGED mishaps /\ UNCHANGED alive
       \/ mishaps' = mishaps + 1 /\ alive' \subseteq alive

LEMMA StepShapes ==
    ASSUME TypeOK, [Next]_vars
    PROVE  StepShape \/ \E n \in Nodes, u \in Users : Transfer(n, u)
<1>1. ASSUME NEW n \in Nodes, RecordStep(n) PROVE StepShape
  BY <1>1 DEF RecordStep, QueueRecord, FetchStats, FetchFails, CacheUsage, QueueUpdates,
              SchedulePush, RecordFails, CrashRecord, Mishap, nodeVars, userVars, StepShape
<1>2. ASSUME NEW n \in Nodes, PushStep(n) PROVE StepShape
  BY <1>2 DEF PushStep, StartPush, SkipPush, RenameHash, UpsertBatch, FinishPush,
              PushFails, CrashPush, ExpireHash, Mishap, nodeVars, userVars, StepShape
<1>3. ASSUME NEW w \in Workers, UpdateStep(w) PROVE StepShape
  BY <1>3 DEF UpdateStep, StartUpdate, WriteUpdate, FinishUpdate, UpdateFails, CrashUpdate,
              Mishap, nodeVars, userVars, StepShape
<1>4. ASSUME NEW u \in Users, ResetTraffic(u) \/ DeleteUser(u) PROVE StepShape
  BY <1>4 DEF ResetTraffic, DeleteUser, Mishap, nodeVars, StepShape
<1>5. ASSUME (\E n \in Nodes : RestartXray(n)) \/ TruncateHistory \/ UNCHANGED vars PROVE StepShape
  BY <1>5 DEF RestartXray, TruncateHistory, Mishap, vars, nodeVars, userVars, StepShape
<1>. QED
  BY <1>1, <1>2, <1>3, <1>4, <1>5 DEF Next

LEMMA HeldMeans ==
    \A n \in Nodes, u \in Users :
        /\ Held[n][u] = counter[n][u] + Fetched(n, u) + redis[n][u] + Unwritten(n, u)
        /\ Held'[n][u] = counter'[n][u] + Fetched(n, u)' + redis'[n][u] + Unwritten(n, u)'
        /\ Accounted(n, u) = Ledger!Total(n, u)
        /\ Accounted(n, u)' = Ledger!Total(n, u)'
BY DEF Held, Accounted, Ledger!Total

LEMMA LedgerInit == Init => Ledger!Init
<1> SUFFICES ASSUME Init PROVE Ledger!Init
  OBVIOUS
<1>1. \A n \in Nodes, u \in Users :
          counter[n][u] = 0 /\ Fetched(n, u) = 0 /\ redis[n][u] = 0 /\ Unwritten(n, u) = 0
  BY DEF Init, Zero, Fetched, Unwritten, IdleRec, EmptyRec, IdlePush
<1>2. Held = [n \in Nodes |-> [u \in Users |-> 0]]
  BY <1>1 DEF Held
<1>. QED
  BY <1>2 DEF Init, Ledger!Init, Zero

LEMMA LedgerSend ==
    ASSUME TypeOK, NEW n \in Nodes, NEW u \in Users, Transfer(n, u)
    PROVE  Ledger!Send(n, u)
<1>1. generated' = [generated EXCEPT ![n][u] = @ + 1] /\ UNCHANGED <<history, alive, mishaps>>
  BY DEF Transfer, cacheVars, userVars
<1>2. ASSUME NEW m \in Nodes, NEW v \in Users
      PROVE  Held'[m][v] = Held[m][v] + (IF m = n /\ v = u THEN 1 ELSE 0)
  <2>1. /\ counter[m][v] \in Nat /\ redis[m][v] \in Nat
        /\ Fetched(m, v) \in Nat /\ Unwritten(m, v) \in Nat
    BY PartTypes
  <2>. QED
    BY <2>1, HeldMeans, TransferSends
<1>3. ASSUME NEW m \in Nodes, NEW v \in Users PROVE Held[m][v] \in Nat
  <2>1. /\ counter[m][v] \in Nat /\ redis[m][v] \in Nat
        /\ Fetched(m, v) \in Nat /\ Unwritten(m, v) \in Nat
    BY PartTypes
  <2>. QED
    BY <2>1, HeldMeans
<1>4. Held' = [Held EXCEPT ![n][u] = @ + 1]
  <2>1. /\ Held = [m \in Nodes |-> [v \in Users |-> Held[m][v]]]
        /\ Held' = [m \in Nodes |-> [v \in Users |-> Held'[m][v]]]
    BY DEF Held
  <2>. QED
    BY <1>2, <1>3, <2>1
<1>. QED
  BY <1>1, <1>4 DEF Ledger!Send

LEMMA LedgerStep ==
    ASSUME TypeOK, TypeOK', [Next]_vars
    PROVE  Ledger!Next
<1>1. ASSUME NEW n \in Nodes, NEW u \in Users, Transfer(n, u) PROVE Ledger!Next
  BY <1>1, LedgerSend DEF Ledger!Next
<1>2. ASSUME StepShape, \A n \in Nodes, u \in Users : Conserves(n, u) PROVE Ledger!Next
  <2>1. mishaps \in Nat
    BY DEF TypeOK
  <2>2. ASSUME NEW n \in Nodes, NEW u \in Users
        PROVE  /\ Ledger!Total(n, u)' <= Ledger!Total(n, u)
               /\ Keeps(n, u) => /\ history[n][u] <= history'[n][u]
                                 /\ u \in alive /\ Ledger!Total(n, u)' # Ledger!Total(n, u)
                                      => Ledger!Total(n, u) < Ledger!Total(n, u)' + IgnoreBelow
               /\ Loses(n, u) => history'[n][u] <= history[n][u]
               /\ Keeps(n, u) \/ Loses(n, u)
    BY <1>2, HeldMeans DEF Conserves, Keeps, Loses
  <2>3. CASE UNCHANGED mishaps /\ UNCHANGED alive
    <3>1. \A n \in Nodes, u \in Users : ~Loses(n, u)
      BY <2>1, <2>3 DEF Loses
    <3>. QED
      BY <1>2, <2>2, <2>3, <3>1 DEF Ledger!Next, Ledger!Settle, StepShape
  <2>4. CASE mishaps' = mishaps + 1 /\ alive' \subseteq alive
    <3>1. \A n \in Nodes, u \in Users : ~Keeps(n, u)
      BY <2>1, <2>4 DEF Keeps
    <3>. QED
      BY <1>2, <2>2, <2>4, <3>1 DEF Ledger!Next, Ledger!Lose, StepShape
  <2>. QED
    BY <1>2, <2>3, <2>4 DEF StepShape
<1>. QED
  BY <1>1, <1>2, StepShapes, StepConserves

(* The jobs, the caches, their failures and their retries implement the      *)
(* ledger: bytes move towards the history, and are lost only by a mishap, or *)
(* less than IgnoreBelow at a time.                                         *)
THEOREM KeepsTheLedger == Spec => KeepsLedger
<1>1. Init => Ledger!Init
  BY LedgerInit
<1>2. TypeOK /\ TypeOK' /\ [Next]_vars => [Ledger!Next]_(Ledger!ledger)
  BY LedgerStep
<1>. QED
  BY <1>1, <1>2, TypeCorrect, PTL DEF Spec, KeepsLedger, Ledger!Spec

-----------------------------------------------------------------------------
(* The counters of a user's row.  UsedWithinLifetime is inductive: the two   *)
(* columns grow by the same amount in WriteUpdate, ResetTraffic lowers the   *)
(* used one and DeleteUser drops both.                                      *)

LEMMA UsedStep ==
    ASSUME TypeOK, UsedWithinLifetime, [Next]_vars, NEW v \in Users
    PROVE  used'[v] <= lifetime'[v]
<1>0. used \in [Users -> Nat] /\ lifetime \in [Users -> Nat] /\ used[v] <= lifetime[v]
  BY DEF TypeOK, Bytes, UsedWithinLifetime
<1>1. ASSUME NEW n \in Nodes, RecordStep(n) PROVE used' = used /\ lifetime' = lifetime
  BY <1>1 DEF RecordStep, QueueRecord, FetchStats, FetchFails, CacheUsage, QueueUpdates,
              SchedulePush, RecordFails, CrashRecord, userVars
<1>2. ASSUME NEW n \in Nodes, PushStep(n) PROVE used' = used /\ lifetime' = lifetime
  BY <1>2 DEF PushStep, StartPush, SkipPush, RenameHash, UpsertBatch, FinishPush,
              PushFails, CrashPush, ExpireHash, userVars
<1>3. ASSUME NEW w \in Workers, UpdateStep(w) PROVE used'[v] <= lifetime'[v]
  <2>1. CASE WriteUpdate(w)
    <3>1. active[w].inc[v] \in Nat
      <4>1. active[w] \in ActiveJob
        BY <2>1 DEF WriteUpdate, TypeOK
      <4>. QED
        BY <4>1 DEF ActiveJob, Bytes
    <3>2. PICK rows : /\ used' = Plus(used, Only(active[w].inc, rows))
                      /\ lifetime' = Plus(lifetime, Only(active[w].inc, rows))
      BY <2>1 DEF WriteUpdate
    <3>. QED
      BY <1>0, <3>1, <3>2 DEF Plus, Only
  <2>2. CASE StartUpdate(w) \/ FinishUpdate(w) \/ UpdateFails(w) \/ CrashUpdate(w)
    BY <1>0, <2>2 DEF StartUpdate, FinishUpdate, UpdateFails, CrashUpdate, userVars
  <2>. QED
    BY <1>3, <2>1, <2>2 DEF UpdateStep
<1>4. ASSUME NEW n \in Nodes, NEW u \in Users, RestartXray(n) \/ Transfer(n, u)
      PROVE  used' = used /\ lifetime' = lifetime
  BY <1>4 DEF RestartXray, Transfer, userVars
<1>5. ASSUME NEW n \in Nodes, RestartXray(n) PROVE used' = used /\ lifetime' = lifetime
  BY <1>5 DEF RestartXray, userVars
<1>6. ASSUME NEW u \in Users, ResetTraffic(u) PROVE used'[v] <= lifetime'[v]
  BY <1>0, <1>6 DEF ResetTraffic
<1>7. ASSUME NEW u \in Users, DeleteUser(u) PROVE used'[v] <= lifetime'[v]
  BY <1>0, <1>7 DEF DeleteUser
<1>8. CASE TruncateHistory
  BY <1>0, <1>8 DEF TruncateHistory, userVars
<1>9. CASE UNCHANGED vars
  BY <1>0, <1>9 DEF vars, userVars
<1>10. used' = used /\ lifetime' = lifetime => used'[v] <= lifetime'[v]
  BY <1>0
<1>. QED
  BY <1>1, <1>2, <1>3, <1>4, <1>5, <1>6, <1>7, <1>8, <1>9, <1>10 DEF Next

(* The used counter of a user never exceeds its lifetime counter.            *)
THEOREM UsedBelowLifetime == Spec => []UsedWithinLifetime
<1>1. Init => UsedWithinLifetime
  <2>1. Init => used = Zero /\ lifetime = Zero
    BY DEF Init
  <2>2. ASSUME NEW u \in Users, used = Zero, lifetime = Zero PROVE used[u] <= lifetime[u]
    <3>1. used[u] = 0 /\ lifetime[u] = 0
      BY <2>2 DEF Zero
    <3>. QED
      BY <3>1
  <2>. QED
    BY <2>1, <2>2 DEF UsedWithinLifetime
<1>2. TypeOK /\ UsedWithinLifetime /\ [Next]_vars => UsedWithinLifetime'
  BY UsedStep DEF UsedWithinLifetime
<1>. QED
  BY <1>1, <1>2, TypeCorrect, PTL DEF Spec

-----------------------------------------------------------------------------
(* FIRST_CONNECTED.  Between the statement that sets first_connected_at and  *)
(* the event, a slot holds the users it must announce.  A user that no two   *)
(* transactions of one millisecond wrote is not held by two slots, or held   *)
(* and already announced, and if it could still be the first row of a        *)
(* statement it is neither.                                                 *)

Holds(w, u) == active[w] # NoJob /\ u \in active[w].first

WelcomeInv ==
    \A u \in Users \ tied :
        /\ welcomed[u] \in {0, 1}
        /\ u \in alive \ connected => welcomed[u] = 0 /\ \A w \in Workers : ~Holds(w, u)
        /\ \A w \in Workers : Holds(w, u) => welcomed[u] = 0
        /\ \A w1, w2 \in Workers : Holds(w1, u) /\ Holds(w2, u) => w1 = w2

LEMMA WelcomeInit == Init => WelcomeInv
<1>. SUFFICES ASSUME Init PROVE WelcomeInv
  OBVIOUS
<1>1. \A u \in Users : welcomed[u] = 0
  BY DEF Init, Zero
<1>2. \A w \in Workers, u \in Users : ~Holds(w, u)
  BY DEF Init, Holds
<1>3. alive = Users
  BY DEF Init
<1>. QED
  BY <1>1, <1>2, <1>3 DEF WelcomeInv

LEMMA WelcomeUpdateStep ==
    ASSUME TypeOK, WelcomeInv, NEW w \in Workers, UpdateStep(w)
    PROVE  WelcomeInv'
<1>0. /\ active \in [Workers -> ActiveJob \cup {NoJob}]
      /\ welcomed \in [Users -> Nat] /\ alive \subseteq Users
  BY DEF TypeOK, Bytes
<1>1. CASE StartUpdate(w)
  <2>1. \A x \in Workers, u \in Users : Holds(x, u)' => Holds(x, u)
    BY <1>0, <1>1 DEF StartUpdate, Holds
  <2>2. alive' = alive /\ connected' = connected /\ welcomed' = welcomed /\ tied' = tied
    BY <1>1 DEF StartUpdate, userVars
  <2>. QED
    BY <1>0, <2>1, <2>2 DEF WelcomeInv
<1>2. CASE WriteUpdate(w)
  <2>0. PICK rows : rows = active[w].for \cap alive
    OBVIOUS
  <2>1. PICK same \in SUBSET (rows \cap connected) :
          /\ connected' = connected \cup rows
          /\ active' = [active EXCEPT ![w].written = TRUE,
                                     ![w].first = FirstConnections(rows, same)]
          /\ tied' = tied \cup same
    BY <1>2, <2>0 DEF WriteUpdate
  <2>2. alive' = alive /\ welcomed' = welcomed
    BY <1>2 DEF WriteUpdate
  <2>3. \A x \in Workers : x # w => active'[x] = active[x]
    BY <1>0, <2>1
  <2>4. active[w] \in ActiveJob
    BY <1>0, <1>2 DEF WriteUpdate
  <2>5. active'[w].first = (rows \ connected) \cup same
    BY <1>0, <2>1, <2>4 DEF FirstConnections, ActiveJob
  <2>6. ASSUME NEW u \in Users \ tied'
        PROVE  \A x \in Workers :
                 Holds(x, u)' => IF x = w THEN u \in rows \ connected ELSE Holds(x, u)
    BY <2>1, <2>3, <2>5, <2>6 DEF Holds
  <2>7. \A u \in (rows \ connected) \ tied :
          welcomed[u] = 0 /\ \A x \in Workers : ~Holds(x, u)
    BY <1>0, <2>0 DEF WelcomeInv
  <2>8. Users \ tied' \subseteq Users \ tied
    BY <2>1
  <2>. QED
    BY <1>0, <2>1, <2>2, <2>6, <2>7, <2>8 DEF WelcomeInv
<1>3. CASE FinishUpdate(w) \/ CrashUpdate(w)
  <2>1. /\ active[w] # NoJob /\ active' = [active EXCEPT ![w] = NoJob]
        /\ alive' = alive /\ connected' = connected /\ tied' = tied
        /\ welcomed' = welcomed \/ Fire(w)
    BY <1>3 DEF FinishUpdate, CrashUpdate
  <2>2. ASSUME NEW u \in Users \ tied
        PROVE  welcomed'[u] = welcomed[u] \/ (Holds(w, u) /\ welcomed'[u] = 1)
    BY <1>0, <2>1 DEF Fire, Holds, WelcomeInv
  <2>3. \A x \in Workers, u \in Users : Holds(x, u)' => Holds(x, u) /\ x # w
    BY <1>0, <2>1 DEF Holds
  <2>. QED
    BY <1>0, <2>1, <2>2, <2>3 DEF WelcomeInv
<1>4. CASE UpdateFails(w)
  <2>1. \A x \in Workers, u \in Users : Holds(x, u)' => Holds(x, u)
    BY <1>0, <1>4 DEF UpdateFails, Holds
  <2>2. alive' = alive /\ connected' = connected /\ welcomed' = welcomed /\ tied' = tied
    BY <1>4 DEF UpdateFails, userVars
  <2>. QED
    BY <1>0, <2>1, <2>2 DEF WelcomeInv
<1>. QED
  BY <1>1, <1>2, <1>3, <1>4 DEF UpdateStep

LEMMA WelcomeStep == TypeOK /\ WelcomeInv /\ [Next]_vars => WelcomeInv'
<1>. SUFFICES ASSUME TypeOK, WelcomeInv, [Next]_vars PROVE WelcomeInv'
  OBVIOUS
<1>0. ASSUME alive' = alive, connected' = connected, welcomed' = welcomed, tied' = tied,
             active' = active
      PROVE  WelcomeInv'
  <2>1. \A w \in Workers, u \in Users : Holds(w, u)' <=> Holds(w, u)
    BY <1>0 DEF Holds
  <2>2. alive \subseteq Users
    BY DEF TypeOK
  <2>. QED
    BY <1>0, <2>1, <2>2 DEF WelcomeInv
<1>1. ASSUME NEW n \in Nodes, RecordStep(n) PROVE WelcomeInv'
  <2>1. UNCHANGED <<alive, connected, welcomed, tied, active>>
    BY <1>1 DEF RecordStep, QueueRecord, FetchStats, FetchFails, CacheUsage, QueueUpdates,
                SchedulePush, RecordFails, CrashRecord, userVars
  <2>. QED
    BY <1>0, <2>1
<1>2. ASSUME NEW n \in Nodes, PushStep(n) PROVE WelcomeInv'
  BY <1>0, <1>2 DEF PushStep, StartPush, SkipPush, RenameHash, UpsertBatch, FinishPush,
              PushFails, CrashPush, ExpireHash, userVars
<1>3. ASSUME NEW n \in Nodes, RestartXray(n) PROVE WelcomeInv'
  BY <1>0, <1>3 DEF RestartXray, userVars
<1>4. ASSUME NEW n \in Nodes, NEW u \in Users, Transfer(n, u) PROVE WelcomeInv'
  BY <1>0, <1>4 DEF Transfer, userVars
<1>5. ASSUME NEW w \in Workers, UpdateStep(w) PROVE WelcomeInv'
  BY <1>5, WelcomeUpdateStep
<1>6. ASSUME NEW u \in Users, ResetTraffic(u) PROVE WelcomeInv'
  BY <1>0, <1>6 DEF ResetTraffic
<1>7. ASSUME NEW u \in Users, DeleteUser(u) PROVE WelcomeInv'
  <2>1. /\ alive' = alive \ {u} /\ connected' = connected \ {u}
        /\ welcomed' = welcomed /\ tied' = tied /\ active' = active
    BY <1>7 DEF DeleteUser
  <2>. QED
    BY <2>1 DEF WelcomeInv, Holds
<1>8. CASE TruncateHistory
  BY <1>0, <1>8 DEF TruncateHistory, userVars
<1>9. CASE UNCHANGED vars
  <2>1. UNCHANGED <<alive, connected, welcomed, tied, active>>
    BY <1>9 DEF vars, userVars
  <2>. QED
    BY <1>0, <2>1
<1>. QED
  BY <1>1, <1>2, <1>3, <1>4, <1>5, <1>6, <1>7, <1>8, <1>9 DEF Next

(* A user is announced at most once, whatever jobs run twice or at once, if  *)
(* no two transactions that wrote it have the time of its first connection. *)
THEOREM WelcomedAtMostOnce == Spec => []WelcomedOnce
<1>1. WelcomeInv => WelcomedOnce
  <2>1. ASSUME NEW u \in Users, welcomed[u] \in {0, 1} PROVE welcomed[u] <= 1
    BY <2>1
  <2>. QED
    BY <2>1 DEF WelcomeInv, WelcomedOnce
<1>. QED
  BY <1>1, WelcomeInit, WelcomeStep, TypeCorrect, PTL DEF Spec

-----------------------------------------------------------------------------
(* Sums over finite sets.  A function of naturals is summed by counting:    *)
(* its units over D are the pairs of an element and a number below its      *)
(* value, so the facts about finite sets speak of sums too.  SumFunction    *)
(* chooses a recursive function of the subsets of D; SumIsUnits shows that  *)
(* it counts the units, by induction over the subsets: a set of subsets     *)
(* that holds a subset whenever it holds each subset with one element less  *)
(* holds D.                                                                 *)

Units(f, D) == {e \in D \X Nat : e[2] < f[e[1]]}
Tally(f, D) == Cardinality(Units(f, D))

(* Induction over the subsets of a finite set, the property given as a set. *)
LEMMA SubsetInduction ==
    ASSUME NEW D, IsFiniteSet(D), NEW B, {} \in B,
           \A S \in SUBSET D : S # {} /\ (\A d \in S : S \ {d} \in B) => S \in B
    PROVE  D \in B
<1>. SUFFICES ASSUME D \notin B PROVE FALSE
  OBVIOUS
<1>1. PICK T : T = (SUBSET D) \ B
  OBVIOUS
<1>2. IsWellFoundedOn(StrictSubsetOrdering(D), SUBSET D)
  <2>1. IsWellFoundedOn(StrictSubsetOrdering(D), FiniteSubsetsOf(D))
    BY FS_StrictSubsetOrderingWellFounded
  <2>2. FiniteSubsetsOf(D) = SUBSET D
    BY FS_FiniteSubsetsOfFinite
  <2>. QED
    BY <2>1, <2>2
<1>3. T \subseteq SUBSET D /\ T # {}
  BY <1>1
<1>4. PICK S \in T : \A R \in T : <<R, S>> \notin StrictSubsetOrdering(D)
  BY <1>2, <1>3, WFMin
<1>5. \A d \in S : S \ {d} \in B
  <2>. SUFFICES ASSUME NEW d \in S PROVE S \ {d} \in B
    OBVIOUS
  <2>1. S \ {d} \in SUBSET D /\ S \in SUBSET D /\ S \ {d} # S
    BY <1>3, <1>4
  <2>2. <<S \ {d}, S>> \in StrictSubsetOrdering(D)
    BY <2>1 DEF StrictSubsetOrdering
  <2>. QED
    BY <1>1, <1>4, <2>1, <2>2
<1>. QED
  BY <1>1, <1>3, <1>4, <1>5

LEMMA UnitsOfOne ==
    ASSUME NEW f, NEW d, f[d] \in Nat
    PROVE  IsFiniteSet(Units(f, {d})) /\ Tally(f, {d}) = f[d]
<1>1. PICK I : I = 0..(f[d] - 1)
  OBVIOUS
<1>2. Units(f, {d}) = {d} \X I
  BY <1>1 DEF Units
<1>3. IsFiniteSet(I) /\ Cardinality(I) = f[d]
  <2>1. 0 \in Int /\ f[d] - 1 \in Int
    OBVIOUS
  <2>2. /\ IsFiniteSet(0..(f[d] - 1))
        /\ Cardinality(0..(f[d] - 1)) = IF 0 > f[d] - 1 THEN 0 ELSE (f[d] - 1) - 0 + 1
    BY <2>1, FS_Interval
  <2>. QED
    BY <1>1, <2>2
<1>4. IsFiniteSet({d}) /\ Cardinality({d}) = 1
  BY FS_Singleton
<1>5. /\ IsFiniteSet({d} \X I)
      /\ Cardinality({d} \X I) = Cardinality({d}) * Cardinality(I)
  BY <1>3, <1>4, FS_Product
<1>6. Cardinality(Units(f, {d})) = 1 * f[d]
  BY <1>2, <1>3, <1>4, <1>5
<1>7. 1 * f[d] = f[d]
  OBVIOUS
<1>. QED
  BY <1>2, <1>5, <1>6, <1>7 DEF Tally

LEMMA UnitsAdd ==
    ASSUME NEW f, NEW D, NEW d, d \notin D, IsFiniteSet(Units(f, D)), f[d] \in Nat
    PROVE  /\ IsFiniteSet(Units(f, D \cup {d}))
           /\ Tally(f, D \cup {d}) = Tally(f, D) + f[d]
<1>1. Units(f, D \cup {d}) = Units(f, D) \cup Units(f, {d})
  BY DEF Units
<1>2. Units(f, D) \cap Units(f, {d}) = {}
  BY DEF Units
<1>3. IsFiniteSet(Units(f, {d})) /\ Cardinality(Units(f, {d})) = f[d]
  BY UnitsOfOne DEF Tally
<1>4. Cardinality(Units(f, D)) \in Nat
  BY FS_CardinalityType
<1>5. Cardinality({}) = 0
  BY FS_EmptySet
<1>6. /\ IsFiniteSet(Units(f, D) \cup Units(f, {d}))
      /\ Cardinality(Units(f, D) \cup Units(f, {d})) =
            Cardinality(Units(f, D)) + Cardinality(Units(f, {d}))
            - Cardinality(Units(f, D) \cap Units(f, {d}))
  BY <1>3, FS_Union
<1>7. PICK c : c = Cardinality(Units(f, D)) /\ c \in Nat
  BY <1>4
<1>8. c + f[d] - 0 = c + f[d]
  BY <1>7
<1>9. Cardinality(Units(f, D \cup {d})) = c + f[d] - 0
  BY <1>1, <1>2, <1>3, <1>5, <1>6, <1>7
<1>. QED
  BY <1>1, <1>6, <1>7, <1>8, <1>9 DEF Tally

LEMMA TallyOfNone == \A f : Tally(f, {}) = 0
BY FS_EmptySet, \A f : Units(f, {}) = {} DEF Units, Tally

(* The units of a finite set are finitely many.                             *)
LEMMA UnitsFinite ==
    ASSUME NEW D, IsFiniteSet(D), NEW f, \A d \in D : f[d] \in Nat
    PROVE  IsFiniteSet(Units(f, D)) /\ Tally(f, D) \in Nat
<1>1. PICK B : B = {S \in SUBSET D : IsFiniteSet(Units(f, S))}
  OBVIOUS
<1>2. {} \in B
  BY <1>1, FS_EmptySet, Units(f, {}) = {} DEF Units
<1>3. ASSUME NEW S \in SUBSET D, S # {}, \A d \in S : S \ {d} \in B
      PROVE  S \in B
  <2>1. PICK d \in S : TRUE
    BY <1>3
  <2>2. S = (S \ {d}) \cup {d} /\ d \notin S \ {d}
    BY <2>1
  <2>. QED
    BY <1>1, <1>3, <2>1, <2>2, UnitsAdd
<1>4. D \in B
  BY <1>2, <1>3, SubsetInduction
<1>. QED
  BY <1>1, <1>4, FS_CardinalityType DEF Tally

LEMMA TallyWithout ==
    ASSUME NEW D, IsFiniteSet(D), NEW f, \A d \in D : f[d] \in Nat, NEW d \in D
    PROVE  /\ Tally(f, D \ {d}) \in Nat
           /\ Tally(f, D) = Tally(f, D \ {d}) + f[d]
<1>1. IsFiniteSet(D \ {d})
  BY FS_RemoveElement
<1>2. IsFiniteSet(Units(f, D \ {d})) /\ Tally(f, D \ {d}) \in Nat
  BY <1>1, UnitsFinite
<1>3. D = (D \ {d}) \cup {d}
  OBVIOUS
<1>4. Tally(f, (D \ {d}) \cup {d}) = Tally(f, D \ {d}) + f[d]
  BY <1>2, UnitsAdd
<1>. QED
  BY <1>2, <1>3, <1>4

LEMMA TallySame ==
    ASSUME NEW D, NEW f, NEW g, \A d \in D : f[d] = g[d]
    PROVE  Tally(f, D) = Tally(g, D)
BY DEF Tally, Units

(* Changing one term of a sum changes the sum by as much.                   *)
LEMMA TallyChange ==
    ASSUME NEW D, IsFiniteSet(D), NEW f, \A d \in D : f[d] \in Nat,
           NEW g, \A d \in D : g[d] \in Nat,
           NEW d \in D, \A e \in D \ {d} : g[e] = f[e]
    PROVE  /\ Tally(f, D) \in Nat /\ Tally(g, D) \in Nat
           /\ Tally(g, D) + f[d] = Tally(f, D) + g[d]
<1>1. /\ Tally(f, D \ {d}) \in Nat
      /\ Tally(f, D) = Tally(f, D \ {d}) + f[d]
  BY TallyWithout
<1>2. /\ Tally(g, D \ {d}) \in Nat
      /\ Tally(g, D) = Tally(g, D \ {d}) + g[d]
  BY TallyWithout
<1>3. Tally(f, D \ {d}) = Tally(g, D \ {d})
  BY TallySame
<1>. QED
  BY <1>1, <1>2, <1>3

LEMMA TallyLeq ==
    ASSUME NEW D, IsFiniteSet(D), NEW f, \A d \in D : f[d] \in Nat,
           NEW g, \A d \in D : g[d] \in Nat /\ f[d] <= g[d]
    PROVE  Tally(f, D) <= Tally(g, D)
<1>1. Units(f, D) \in SUBSET Units(g, D)
  BY DEF Units
<1>2. IsFiniteSet(Units(g, D))
  BY UnitsFinite
<1>. QED
  BY <1>1, <1>2, FS_Subset DEF Tally

(* The sum over a sequence does not depend on where it starts.              *)
LEMMA TallyShift ==
    ASSUME NEW k \in Nat, NEW f, NEW g, \A i \in 1..k : f[i] \in Nat,
           \A i \in 1..k : g[i + 1] = f[i]
    PROVE  Tally(g, 2..(k + 1)) = Tally(f, 1..k)
<1>1. PICK b : b = [e \in Units(f, 1..k) |-> <<e[1] + 1, e[2]>>]
  OBVIOUS
<1>2. \A e \in Units(f, 1..k) : e[1] \in 1..k /\ e[2] \in Nat /\ e = <<e[1], e[2]>>
                                /\ e[2] < f[e[1]]
  BY DEF Units
<1>3. \A e \in Units(g, 2..(k + 1)) : e[1] \in 2..(k + 1) /\ e[2] \in Nat
                                /\ e = <<e[1], e[2]>> /\ e[2] < g[e[1]]
  BY DEF Units
<1>4. b \in [Units(f, 1..k) -> Units(g, 2..(k + 1))]
  <2>. SUFFICES ASSUME NEW e \in Units(f, 1..k)
                PROVE  <<e[1] + 1, e[2]>> \in Units(g, 2..(k + 1))
    BY <1>1
  <2>1. e[1] + 1 \in 2..(k + 1) /\ e[2] \in Nat /\ e[2] < g[e[1] + 1]
    BY <1>2
  <2>. QED
    BY <2>1 DEF Units
<1>5. \A e, h \in Units(f, 1..k) : b[e] = b[h] => e = h
  <2>. SUFFICES ASSUME NEW e \in Units(f, 1..k), NEW h \in Units(f, 1..k), b[e] = b[h]
                PROVE  e = h
    OBVIOUS
  <2>1. e[1] + 1 = h[1] + 1 /\ e[2] = h[2]
    BY <1>1
  <2>. QED
    BY <1>2, <2>1
<1>6. \A t \in Units(g, 2..(k + 1)) : \E e \in Units(f, 1..k) : b[e] = t
  <2>. SUFFICES ASSUME NEW t \in Units(g, 2..(k + 1))
                PROVE  \E e \in Units(f, 1..k) : b[e] = t
    OBVIOUS
  <2>1. t[1] - 1 \in 1..k /\ t[2] \in Nat /\ (t[1] - 1) + 1 = t[1]
    BY <1>3
  <2>2. t[2] < f[t[1] - 1]
    BY <1>3, <2>1
  <2>3. <<t[1] - 1, t[2]>> \in Units(f, 1..k)
    BY <2>1, <2>2 DEF Units
  <2>4. b[<<t[1] - 1, t[2]>>] = <<t[1], t[2]>>
    BY <1>1, <2>1, <2>3
  <2>. QED
    BY <1>3, <2>3, <2>4
<1>7. ExistsBijection(Units(f, 1..k), Units(g, 2..(k + 1)))
  BY <1>4, <1>5, <1>6
  DEF ExistsBijection, Bijection, Injection, Surjection, IsInjective
<1>8. IsFiniteSet(1..k)
  BY FS_Interval
<1>9. IsFiniteSet(Units(f, 1..k))
  BY <1>8, UnitsFinite
<1>. QED
  BY <1>7, <1>9, FS_Bijection DEF Tally

(* The community modules' sum of a function is the number of its units.     *)
LEMMA SumIsUnits ==
    ASSUME NEW D, IsFiniteSet(D), NEW f \in [D -> Nat]
    PROVE  SumFunction(f) = Tally(f, D)
<1> DEFINE Sum(h) == [S \in SUBSET D |-> IF S = {} THEN 0 ELSE
                          f[CHOOSE d \in S : TRUE] + h[S \ {CHOOSE d \in S : TRUE}]]
<1>1. SumFunction(f) = (CHOOSE h : h = Sum(h))[D]
  BY DOMAIN f = D DEF SumFunction, SumFunctionOnSet, FoldFunctionOnSet, MapThenFoldSet
<1>2. PICK t : t = [S \in SUBSET D |-> Tally(f, S)]
  OBVIOUS
<1>3. \A S \in SUBSET D : S # {} =>
          Tally(f, S) = f[CHOOSE d \in S : TRUE] + Tally(f, S \ {CHOOSE d \in S : TRUE})
  <2>. SUFFICES ASSUME NEW S \in SUBSET D, S # {}
                PROVE  Tally(f, S) = f[CHOOSE d \in S : TRUE]
                                     + Tally(f, S \ {CHOOSE d \in S : TRUE})
    OBVIOUS
  <2>1. PICK c \in S : c = CHOOSE d \in S : TRUE
    OBVIOUS
  <2>2. IsFiniteSet(S) /\ \A d \in S : f[d] \in Nat
    BY FS_Subset
  <2>3. Tally(f, S \ {c}) \in Nat /\ Tally(f, S) = Tally(f, S \ {c}) + f[c]
    BY <2>2, TallyWithout
  <2>. QED
    BY <2>1, <2>2, <2>3
<1>4. t = Sum(t)
  BY <1>2, <1>3, TallyOfNone
<1>5. PICK h : h = (CHOOSE e : e = Sum(e)) /\ h = Sum(h)
  <2>1. \E e : e = Sum(e)
    BY <1>4
  <2>2. (CHOOSE e : e = Sum(e)) = Sum(CHOOSE e : e = Sum(e))
    <3> HIDE DEF Sum
    <3>. QED
      BY <2>1
  <2> HIDE DEF Sum
  <2>. QED
    BY <2>2
<1>6. h[D] = Tally(f, D)
  <2>1. PICK B : B = {S \in SUBSET D : h[S] = Tally(f, S)}
    OBVIOUS
  <2>2. h[{}] = 0
    BY <1>5
  <2>3. {} \in B
    BY <2>1, <2>2, TallyOfNone
  <2>4. ASSUME NEW S \in SUBSET D, S # {}, \A d \in S : S \ {d} \in B
        PROVE  S \in B
    <3>1. PICK c \in S : c = CHOOSE d \in S : TRUE
      BY <2>4
    <3>2. h[S] = f[c] + h[S \ {c}]
      BY <1>5, <2>4, <3>1
    <3>. QED
      BY <1>3, <2>1, <2>4, <3>1, <3>2
  <2>5. D \in B
    BY <2>3, <2>4, SubsetInduction
  <2>. QED
    BY <2>1, <2>5
<1>. QED
  BY <1>1, <1>5, <1>6

(* A common factor leaves the sum.                                          *)
LEMMA SumIsTally ==
    ASSUME NEW D, IsFiniteSet(D), NEW f \in [D -> Nat], NEW k \in Nat
    PROVE  Tally([d \in D |-> k * f[d]], D) = k * SumFunction(f)
<1>1. PICK g : g = [d \in D |-> k * f[d]]
  OBVIOUS
<1>2. Tally(g, D) = k * Tally(f, D)
  <2>1. PICK B : B = {S \in SUBSET D : Tally(g, S) = k * Tally(f, S)}
    OBVIOUS
  <2>2. {} \in B
    BY <2>1, TallyOfNone
  <2>3. ASSUME NEW S \in SUBSET D, S # {}, \A d \in S : S \ {d} \in B
        PROVE  S \in B
    <3>1. PICK c \in S : TRUE
      BY <2>3
    <3>2. IsFiniteSet(S)
      BY FS_Subset
    <3>3. /\ Tally(f, S \ {c}) \in Nat
          /\ Tally(f, S) = Tally(f, S \ {c}) + f[c]
      BY <3>2, TallyWithout
    <3>4. Tally(g, S) = Tally(g, S \ {c}) + g[c]
      BY <1>1, <3>2, TallyWithout
    <3>5. Tally(g, S \ {c}) = k * Tally(f, S \ {c})
      BY <2>1, <2>3
    <3>6. g[c] = k * f[c]
      BY <1>1
    <3>. QED
      BY <2>1, <3>3, <3>4, <3>5, <3>6
  <2>4. D \in B
    BY <2>2, <2>3, SubsetInduction
  <2>. QED
    BY <2>1, <2>4
<1>. QED
  BY <1>1, <1>2, SumIsUnits

LEMMA TimesType == \A x, y \in Nat : x * y \in Nat
OBVIOUS

LEMMA TimesOrder == \A x, y, z \in Nat : y <= z => x * y <= x * z
<1>. SUFFICES ASSUME NEW x \in Nat, NEW y \in Nat, NEW z \in Nat, y <= z
              PROVE  x * y <= x * z
  OBVIOUS
<1>1. PICK e \in Nat : z = y + e
  <2>1. z - y \in Nat /\ z = y + (z - y)
    OBVIOUS
  <2>. QED
    BY <2>1
<1>2. x * z = x * y + x * e
  BY <1>1
<1>3. x * e \in Nat /\ x * y \in Nat
  BY TimesType
<1>. QED
  BY <1>2, <1>3

LEMMA QuotientBounds ==
    ASSUME NEW d \in Nat \ {0}, NEW x \in Nat
    PROVE  /\ x \div d \in Nat
           /\ d * (x \div d) <= x
           /\ x < d * (x \div d + 1)
OBVIOUS

(* Rounding down bills a sum of reports no less than the reports one by     *)
(* one.                                                                     *)
LEMMA QuotientsAdd ==
    ASSUME NEW d \in Nat \ {0}, NEW x \in Nat, NEW y \in Nat
    PROVE  x \div d + y \div d <= (x + y) \div d
<1>1. PICK p \in Nat : p = x \div d /\ d * p <= x
  BY QuotientBounds
<1>2. PICK q \in Nat : q = y \div d /\ d * q <= y
  BY QuotientBounds
<1>3. PICK r \in Nat : r = (x + y) \div d /\ x + y < d * (r + 1)
  <2>1. x + y \in Nat
    OBVIOUS
  <2>. QED
    BY <2>1, QuotientBounds
<1>4. d * (p + q) = d * p + d * q
  OBVIOUS
<1>5. d * p \in Nat /\ d * q \in Nat /\ d * (r + 1) \in Nat /\ d * (p + q) \in Nat
  BY TimesType
<1>6. d * (p + q) < d * (r + 1)
  BY <1>1, <1>2, <1>3, <1>4, <1>5
<1>7. ~(r + 1 <= p + q)
  <2>1. d \in Nat /\ r + 1 \in Nat /\ p + q \in Nat
    OBVIOUS
  <2>2. r + 1 <= p + q => d * (r + 1) <= d * (p + q)
    BY <2>1, TimesOrder
  <2>. QED
    BY <1>5, <1>6, <2>2
<1>. QED
  BY <1>1, <1>2, <1>3, <1>7

(* Multiplying two reports apart bills no more than multiplying them at     *)
(* once.                                                                    *)
LEMMA BilledAdds ==
    ASSUME NEW n \in Nodes, NEW a \in Nat, NEW b \in Nat
    PROVE  Billed(n, a) + Billed(n, b) <= Billed(n, a + b)
<1>1. One \in Nat \ {0} /\ Multiplier[n] \in Nat
  BY UsageAssumption
<1>2. PICK m \in Nat : m = Multiplier[n]
  BY <1>1
<1>3. m * a \in Nat /\ m * b \in Nat /\ m * (a + b) = m * a + m * b
  BY <1>2
<1>4. (m * a) \div One + (m * b) \div One <= (m * a + m * b) \div One
  BY <1>1, <1>3, QuotientsAdd
<1>5. CASE m = 0
  BY <1>2, <1>5 DEF Billed
<1>6. CASE m # 0
  BY <1>2, <1>3, <1>4, <1>6 DEF Billed
<1>. QED
  BY <1>5, <1>6

LEMMA BilledOrder ==
    ASSUME NEW n \in Nodes, NEW a \in Nat, NEW b \in Nat, a <= b
    PROVE  Billed(n, a) <= Billed(n, b)
<1>1. b - a \in Nat /\ a + (b - a) = b
  OBVIOUS
<1>2. Billed(n, a) + Billed(n, b - a) <= Billed(n, b)
  BY <1>1, BilledAdds
<1>3. Billed(n, a) \in Nat /\ Billed(n, b) \in Nat /\ Billed(n, b - a) \in Nat
  BY <1>1, BilledType
<1>. QED
  BY <1>2, <1>3

LEMMA BilledNothing ==
    ASSUME NEW n \in Nodes
    PROVE  Billed(n, 0) = 0
<1>1. One \in Nat \ {0} /\ Multiplier[n] \in Nat
  BY UsageAssumption
<1>2. Multiplier[n] * 0 = 0 /\ 0 \div One = 0
  BY <1>1
<1>. QED
  BY <1>2 DEF Billed

-----------------------------------------------------------------------------
(* Billing.  BilledPerRun is not inductive: bytes that are still fetched or *)
(* queued will be billed.  With R runs granted to each job, what a job may  *)
(* yet add to a user's lifetime counter is its increment times the runs it  *)
(* has left, one less once it has written; what a report may yet add is its *)
(* bytes, billed in every run.  The invariant says that the counter and all *)
(* that is due stay within the bytes the nodes have answered for, billed R  *)
(* times. Each step keeps that: a byte moves from the answered ones to a    *)
(* report, to a job that waits, to a slot and to the counter, the quotient  *)
(* of a multiplied sum is never less than the sum of the quotients, and a   *)
(* job that stalls gives up the run it took.  A job tried again without     *)
(* counting a stall would break it.  R is 1 + MaxStalled in general, and 1  *)
(* while there is no mishap: then what is due also falls short of what was  *)
(* answered for by no more than the reports round away, and every byte is   *)
(* billed exactly once.                                                     *)

(* What a job that waits and a slot may yet bill u.                         *)
WaitDue(R, j, u) == j.inc[u] * (R - j.stalls)
JobDue(R, j, u) ==
    IF j = NoJob THEN 0
    ELSE j.inc[u] * (R - j.stalls - (IF j.written THEN 1 ELSE 0))

(* Their sums, of slots a, a queue q and reports r; and what the nodes have *)
(* answered for, of the bytes sent g and still counted c.                   *)
Running(R, a, u) == Tally([w \in Workers |-> JobDue(R, a[w], u)], Workers)
Queued(R, q, u) == Tally([i \in 1..Len(q) |-> WaitDue(R, q[i], u)], 1..Len(q))
Reported(R, r, u) == Tally([n \in Nodes |-> R * Billed(n, Unqueued(r[n], u))], Nodes)
Sent(R, g, c, u) == Tally([n \in Nodes |-> R * Billed(n, g[n][u] - c[n][u])], Nodes)

LEMMA WaitDueType ==
    ASSUME NEW R \in Nat \ {0}, NEW j \in UpdateJob, j.stalls < R, NEW u \in Users
    PROVE  WaitDue(R, j, u) \in Nat /\ WaitDue(R, j, u) = j.inc[u] * (R - j.stalls)
<1>1. j.inc[u] \in Nat /\ j.stalls \in Nat
  BY DEF UpdateJob, Bytes
<1>2. R - j.stalls \in Nat
  BY <1>1
<1>. QED
  BY <1>1, <1>2, TimesType DEF WaitDue

LEMMA JobDueType ==
    ASSUME NEW R \in Nat \ {0}, NEW j \in ActiveJob \cup {NoJob}, j # NoJob => j.stalls < R,
           NEW u \in Users
    PROVE  JobDue(R, j, u) \in Nat
<1>1. CASE j = NoJob
  BY <1>1 DEF JobDue
<1>2. CASE j # NoJob
  <2>1. j.inc[u] \in Nat /\ j.stalls \in Nat /\ j.written \in BOOLEAN
    BY <1>2 DEF ActiveJob, Bytes
  <2>2. PICK k \in Nat : k = R - j.stalls - (IF j.written THEN 1 ELSE 0)
    BY <1>2, <2>1
  <2>3. JobDue(R, j, u) = j.inc[u] * k
    BY <1>2, <2>2 DEF JobDue
  <2>. QED
    BY <2>1, <2>3, TimesType
<1>. QED
  BY <1>1, <1>2

LEMMA RunningChange ==
    ASSUME NEW R \in Nat \ {0}, NEW a \in [Workers -> ActiveJob \cup {NoJob}],
           NEW b \in [Workers -> ActiveJob \cup {NoJob}],
           NEW u \in Users, NEW w \in Workers,
           \A v \in Workers : JobDue(R, a[v], u) \in Nat,
           JobDue(R, b[w], u) \in Nat, \A v \in Workers \ {w} : b[v] = a[v]
    PROVE  /\ Running(R, a, u) \in Nat /\ Running(R, b, u) \in Nat
           /\ Running(R, b, u) + JobDue(R, a[w], u) = Running(R, a, u) + JobDue(R, b[w], u)
<1>1. PICK f : f = [v \in Workers |-> JobDue(R, a[v], u)]
  OBVIOUS
<1>2. PICK g : g = [v \in Workers |-> JobDue(R, b[v], u)]
  OBVIOUS
<1>3. IsFiniteSet(Workers)
  BY UsageAssumption
<1>4. /\ \A v \in Workers : f[v] \in Nat
      /\ \A v \in Workers : g[v] \in Nat
      /\ \A v \in Workers \ {w} : g[v] = f[v]
  <2>1. \A v \in Workers : f[v] \in Nat
    BY <1>1
  <2>2. \A v \in Workers \ {w} : g[v] = f[v]
    BY <1>1, <1>2
  <2>3. g[w] \in Nat
    BY <1>2
  <2>4. \A v \in Workers : v = w \/ v \in Workers \ {w}
    OBVIOUS
  <2>. QED
    BY <2>1, <2>2, <2>3, <2>4
<1>5. /\ Tally(f, Workers) \in Nat /\ Tally(g, Workers) \in Nat
      /\ Tally(g, Workers) + f[w] = Tally(f, Workers) + g[w]
  BY <1>3, <1>4, TallyChange
<1>6. Running(R, a, u) = Tally(f, Workers) /\ Running(R, b, u) = Tally(g, Workers)
  BY <1>1, <1>2 DEF Running
<1>7. f[w] = JobDue(R, a[w], u) /\ g[w] = JobDue(R, b[w], u)
  BY <1>1, <1>2
<1>. QED
  BY <1>5, <1>6, <1>7

LEMMA QueuedType ==
    ASSUME NEW R \in Nat \ {0},
           NEW q \in Seq(UpdateJob), \A i \in 1..Len(q) : q[i].stalls < R,
           NEW u \in Users
    PROVE  Queued(R, q, u) \in Nat
<1>1. PICK f : f = [i \in 1..Len(q) |-> WaitDue(R, q[i], u)]
  OBVIOUS
<1>2. \A i \in 1..Len(q) : f[i] \in Nat
  <2>1. \A i \in 1..Len(q) : q[i] \in UpdateJob
    OBVIOUS
  <2>. QED
    BY <1>1, <2>1, WaitDueType
<1>3. IsFiniteSet(1..Len(q))
  <2>1. 1 \in Int /\ Len(q) \in Int
    OBVIOUS
  <2>. QED
    BY <2>1, FS_Interval
<1>4. Tally(f, 1..Len(q)) \in Nat
  BY <1>2, <1>3, UnitsFinite
<1>. QED
  BY <1>1, <1>4 DEF Queued

LEMMA QueuedAppend ==
    ASSUME NEW R \in Nat \ {0},
           NEW q \in Seq(UpdateJob), \A i \in 1..Len(q) : q[i].stalls < R,
           NEW j \in UpdateJob, j.stalls < R, NEW u \in Users
    PROVE  Queued(R, Append(q, j), u) = Queued(R, q, u) + WaitDue(R, j, u)
<1>1. PICK k \in Nat : k = Len(q)
  OBVIOUS
<1>2. PICK r : r = Append(q, j)
  OBVIOUS
<1>3. /\ r \in Seq(UpdateJob) /\ Len(r) = k + 1 /\ r[k + 1] = j
      /\ \A i \in 1..k : r[i] = q[i]
  BY <1>1, <1>2
<1>4. PICK f : f = [i \in 1..k |-> WaitDue(R, q[i], u)]
  OBVIOUS
<1>5. PICK g : g = [i \in 1..(k + 1) |-> WaitDue(R, r[i], u)]
  OBVIOUS
<1>6. \A i \in 1..k : g[i] = f[i] /\ f[i] \in Nat
  <2>1. \A i \in 1..k : q[i] \in UpdateJob /\ i \in 1..(k + 1)
    BY <1>1
  <2>. QED
    BY <1>1, <1>3, <1>4, <1>5, <2>1, WaitDueType
<1>7. g[k + 1] = WaitDue(R, j, u) /\ g[k + 1] \in Nat
  <2>1. k + 1 \in 1..(k + 1)
    OBVIOUS
  <2>. QED
    BY <1>3, <1>5, <2>1, WaitDueType
<1>8. IsFiniteSet(1..k)
  <2>1. 1 \in Int /\ k \in Int
    OBVIOUS
  <2>. QED
    BY <2>1, FS_Interval
<1>9. IsFiniteSet(Units(g, 1..k)) /\ Tally(g, 1..k) = Tally(f, 1..k)
  <2>1. \A i \in 1..k : g[i] \in Nat /\ g[i] = f[i]
    BY <1>6
  <2>. QED
    BY <1>8, <2>1, UnitsFinite, TallySame
<1>10. 1..(k + 1) = (1..k) \cup {k + 1} /\ k + 1 \notin 1..k
  OBVIOUS
<1>11. Tally(g, (1..k) \cup {k + 1}) = Tally(g, 1..k) + g[k + 1]
  BY <1>7, <1>9, <1>10, UnitsAdd
<1>12. Queued(R, q, u) = Tally(f, 1..k) /\ Queued(R, r, u) = Tally(g, 1..(k + 1))
  BY <1>1, <1>3, <1>4, <1>5 DEF Queued
<1>. QED
  BY <1>2, <1>7, <1>9, <1>10, <1>11, <1>12

LEMMA QueuedHead ==
    ASSUME NEW R \in Nat \ {0},
           NEW q \in Seq(UpdateJob), \A i \in 1..Len(q) : q[i].stalls < R,
           q # <<>>, NEW u \in Users
    PROVE  /\ Queued(R, Tail(q), u) \in Nat
           /\ Queued(R, q, u) = Queued(R, Tail(q), u) + WaitDue(R, Head(q), u)
<1>1. PICK k \in Nat : Len(q) = k + 1
  <2>1. Len(q) - 1 \in Nat /\ Len(q) = (Len(q) - 1) + 1
    OBVIOUS
  <2>. QED
    BY <2>1
<1>2. PICK r : r = Tail(q)
  OBVIOUS
<1>3. /\ r \in Seq(UpdateJob) /\ Len(r) = k
      /\ \A i \in 1..k : r[i] = q[i + 1]
  <2>1. r \in Seq(UpdateJob) /\ Len(r) = Len(q) - 1
    BY <1>2
  <2>2. \A i \in 1..Len(r) : r[i] = q[i + 1]
    BY <1>2
  <2>3. Len(r) = k
    BY <1>1, <2>1
  <2>. QED
    BY <2>1, <2>2, <2>3
<1>4. PICK f : f = [i \in 1..k |-> WaitDue(R, r[i], u)]
  OBVIOUS
<1>5. PICK g : g = [i \in 1..(k + 1) |-> WaitDue(R, q[i], u)]
  OBVIOUS
<1>6. \A i \in 1..(k + 1) : g[i] \in Nat
  <2>1. \A i \in 1..(k + 1) : q[i] \in UpdateJob /\ q[i].stalls < R
    BY <1>1
  <2>. QED
    BY <1>5, <2>1, WaitDueType
<1>7. \A i \in 1..k : i + 1 \in 1..(k + 1) /\ g[i + 1] = f[i] /\ f[i] \in Nat
  <2>1. \A i \in 1..k : i + 1 \in 1..(k + 1)
    OBVIOUS
  <2>. QED
    BY <1>3, <1>4, <1>5, <1>6, <2>1
<1>8. Tally(g, 2..(k + 1)) = Tally(f, 1..k)
  BY <1>7, TallyShift
<1>9. IsFiniteSet(1..k) /\ IsFiniteSet(2..(k + 1))
  <2>1. 1 \in Int /\ 2 \in Int /\ k \in Int /\ k + 1 \in Int
    OBVIOUS
  <2>. QED
    BY <2>1, FS_Interval
<1>10. Tally(f, 1..k) \in Nat
  BY <1>7, <1>9, UnitsFinite
<1>11. IsFiniteSet(Units(g, 2..(k + 1)))
  <2>1. \A i \in 2..(k + 1) : g[i] \in Nat
    BY <1>6
  <2>. QED
    BY <1>9, <2>1, UnitsFinite
<1>12. 1..(k + 1) = (2..(k + 1)) \cup {1} /\ 1 \notin 2..(k + 1) /\ 1 \in 1..(k + 1)
  OBVIOUS
<1>13. Tally(g, (2..(k + 1)) \cup {1}) = Tally(g, 2..(k + 1)) + g[1]
  BY <1>6, <1>11, <1>12, UnitsAdd
<1>14. g[1] = WaitDue(R, Head(q), u)
  BY <1>1, <1>5, <1>12
<1>15. Queued(R, r, u) = Tally(f, 1..k) /\ Queued(R, q, u) = Tally(g, 1..(k + 1))
  BY <1>1, <1>3, <1>4, <1>5 DEF Queued
<1>. QED
  BY <1>2, <1>8, <1>10, <1>12, <1>13, <1>14, <1>15

LEMMA QueuedPrepend ==
    ASSUME NEW R \in Nat \ {0},
           NEW q \in Seq(UpdateJob), \A i \in 1..Len(q) : q[i].stalls < R,
           NEW j \in UpdateJob, j.stalls < R, NEW u \in Users
    PROVE  Queued(R, <<j>> \o q, u) = Queued(R, q, u) + WaitDue(R, j, u)
<1>1. PICK r : r = <<j>> \o q
  OBVIOUS
<1>2. /\ r \in Seq(UpdateJob) /\ r # <<>> /\ Head(r) = j /\ Tail(r) = q
      /\ Len(r) = Len(q) + 1
  BY <1>1
<1>3. \A i \in 1..Len(r) : r[i].stalls < R
  <2>. SUFFICES ASSUME NEW i \in 1..Len(r) PROVE r[i].stalls < R
    OBVIOUS
  <2>1. CASE i = 1
    BY <1>2, <2>1
  <2>2. CASE i # 1
    <3>1. i - 1 \in 1..Len(Tail(r)) /\ Tail(r)[i - 1] = r[(i - 1) + 1]
      BY <1>2, <2>2
    <3>2. (i - 1) + 1 = i
      OBVIOUS
    <3>. QED
      BY <1>2, <3>1, <3>2
  <2>. QED
    BY <2>1, <2>2
<1>4. Queued(R, r, u) = Queued(R, Tail(r), u) + WaitDue(R, Head(r), u)
  BY <1>2, <1>3, QueuedHead
<1>. QED
  BY <1>1, <1>2, <1>4

LEMMA UnqueuedType ==
    ASSUME NEW R \in Nat \ {0},
           NEW r \in [state : RecState, batch : Bytes, listed : SUBSET Users],
           NEW n \in Nodes, NEW u \in Users
    PROVE  /\ Unqueued(r, u) \in Nat
           /\ Billed(n, Unqueued(r, u)) \in Nat
           /\ R * Billed(n, Unqueued(r, u)) \in Nat
<1>1. Unqueued(r, u) \in Nat
  BY DEF Unqueued, Bytes
<1>2. Billed(n, Unqueued(r, u)) \in Nat
  BY <1>1, BilledType
<1>. QED
  BY <1>1, <1>2, TimesType

LEMMA ReportedChange ==
    ASSUME NEW R \in Nat \ {0},
           NEW r \in [Nodes -> [state : RecState, batch : Bytes, listed : SUBSET Users]],
           NEW s \in [Nodes -> [state : RecState, batch : Bytes, listed : SUBSET Users]],
           NEW u \in Users, NEW n \in Nodes, \A m \in Nodes \ {n} : s[m] = r[m]
    PROVE  /\ Reported(R, r, u) \in Nat /\ Reported(R, s, u) \in Nat
           /\ Reported(R, s, u) + R * Billed(n, Unqueued(r[n], u))
                = Reported(R, r, u) + R * Billed(n, Unqueued(s[n], u))
<1>1. PICK f : f = [m \in Nodes |-> R * Billed(m, Unqueued(r[m], u))]
  OBVIOUS
<1>2. PICK g : g = [m \in Nodes |-> R * Billed(m, Unqueued(s[m], u))]
  OBVIOUS
<1>3. IsFiniteSet(Nodes)
  BY UsageAssumption
<1>4. /\ \A m \in Nodes : f[m] \in Nat
      /\ \A m \in Nodes : g[m] \in Nat
  BY <1>1, <1>2, UnqueuedType
<1>5. \A m \in Nodes \ {n} : g[m] = f[m]
  BY <1>1, <1>2
<1>6. /\ Tally(f, Nodes) \in Nat /\ Tally(g, Nodes) \in Nat
      /\ Tally(g, Nodes) + f[n] = Tally(f, Nodes) + g[n]
  BY <1>3, <1>4, <1>5, TallyChange
<1>7. Reported(R, r, u) = Tally(f, Nodes) /\ Reported(R, s, u) = Tally(g, Nodes)
  BY <1>1, <1>2 DEF Reported
<1>8. /\ f[n] = R * Billed(n, Unqueued(r[n], u))
      /\ g[n] = R * Billed(n, Unqueued(s[n], u))
  BY <1>1, <1>2
<1>. QED
  BY <1>6, <1>7, <1>8

LEMMA SentType ==
    ASSUME NEW R \in Nat \ {0},
           NEW g \in [Nodes -> Bytes], NEW c \in [Nodes -> Bytes], NEW u \in Users,
           \A m \in Nodes : c[m][u] <= g[m][u]
    PROVE  /\ Sent(R, g, c, u) \in Nat
           /\ \A m \in Nodes : /\ g[m][u] - c[m][u] \in Nat
                               /\ R * Billed(m, g[m][u] - c[m][u]) \in Nat
<1>1. \A m \in Nodes : g[m][u] \in Nat /\ c[m][u] \in Nat
  BY DEF Bytes
<1>2. \A m \in Nodes : g[m][u] - c[m][u] \in Nat
  BY <1>1
<1>3. \A m \in Nodes : R * Billed(m, g[m][u] - c[m][u]) \in Nat
  BY <1>2, BilledType, TimesType
<1>4. PICK f : f = [m \in Nodes |-> R * Billed(m, g[m][u] - c[m][u])]
  OBVIOUS
<1>5. IsFiniteSet(Nodes) /\ \A m \in Nodes : f[m] \in Nat
  BY <1>3, <1>4, UsageAssumption
<1>6. Tally(f, Nodes) \in Nat
  BY <1>5, UnitsFinite
<1>. QED
  BY <1>2, <1>3, <1>4, <1>6 DEF Sent

(* A node that answers, or restarts, makes its bytes billable.              *)
LEMMA SentForgets ==
    ASSUME NEW R \in Nat \ {0},
           NEW g \in [Nodes -> Bytes], NEW c \in [Nodes -> Bytes], NEW u \in Users,
           \A m \in Nodes : c[m][u] <= g[m][u], NEW n \in Nodes
    PROVE  /\ Sent(R, g, c, u) \in Nat /\ Sent(R, g, [c EXCEPT ![n] = Zero], u) \in Nat
           /\ Sent(R, g, c, u) + R * Billed(n, c[n][u])
                <= Sent(R, g, [c EXCEPT ![n] = Zero], u)
           /\ Sent(R, g, [c EXCEPT ![n] = Zero], u) + R * Billed(n, g[n][u] - c[n][u])
                = Sent(R, g, c, u) + R * Billed(n, g[n][u])
<1>1. PICK e : e = [c EXCEPT ![n] = Zero]
  OBVIOUS
<1>2. \A m \in Nodes : g[m][u] \in Nat /\ c[m][u] \in Nat
  BY DEF Bytes
<1>3. /\ e \in [Nodes -> Bytes] /\ e[n][u] = 0
      /\ \A m \in Nodes \ {n} : e[m] = c[m]
  BY <1>1, ZeroType DEF Zero
<1>4. \A m \in Nodes : e[m][u] <= g[m][u]
  <2>1. \A m \in Nodes : m = n \/ m \in Nodes \ {n}
    OBVIOUS
  <2>. QED
    BY <1>2, <1>3, <2>1
<1>5. PICK f : f = [m \in Nodes |-> R * Billed(m, g[m][u] - c[m][u])]
  OBVIOUS
<1>6. PICK h : h = [m \in Nodes |-> R * Billed(m, g[m][u] - e[m][u])]
  OBVIOUS
<1>7. IsFiniteSet(Nodes)
  BY UsageAssumption
<1>8. /\ \A m \in Nodes : f[m] \in Nat
      /\ \A m \in Nodes : h[m] \in Nat
      /\ \A m \in Nodes \ {n} : h[m] = f[m]
  <2>1. \A m \in Nodes : f[m] \in Nat
    BY <1>5, SentType
  <2>2. \A m \in Nodes : h[m] \in Nat
    BY <1>3, <1>4, <1>6, SentType
  <2>3. \A m \in Nodes \ {n} : h[m] = f[m]
    BY <1>3, <1>5, <1>6
  <2>. QED
    BY <2>1, <2>2, <2>3
<1>9. /\ Tally(f, Nodes) \in Nat /\ Tally(h, Nodes) \in Nat
      /\ Tally(h, Nodes) + f[n] = Tally(f, Nodes) + h[n]
  <2>1. \A m \in Nodes : f[m] \in Nat
    BY <1>8
  <2>2. \A m \in Nodes : h[m] \in Nat
    BY <1>8
  <2>3. \A m \in Nodes \ {n} : h[m] = f[m]
    BY <1>8
  <2>4. Tally(f, Nodes \ {n}) \in Nat /\ Tally(f, Nodes) = Tally(f, Nodes \ {n}) + f[n]
    BY <1>7, <2>1, TallyWithout
  <2>5. Tally(h, Nodes \ {n}) \in Nat /\ Tally(h, Nodes) = Tally(h, Nodes \ {n}) + h[n]
    BY <1>7, <2>2, TallyWithout
  <2>6. Tally(h, Nodes \ {n}) = Tally(f, Nodes \ {n})
    BY <2>3, TallySame
  <2>7. f[n] \in Nat /\ h[n] \in Nat
    BY <2>1, <2>2
  <2>. QED
    BY <2>4, <2>5, <2>6, <2>7
<1>10. f[n] + R * Billed(n, c[n][u]) <= h[n]
  <2>1. PICK x \in Nat : x = g[n][u] - c[n][u] /\ x + c[n][u] = g[n][u]
    BY <1>2, SentType
  <2>2. PICK y \in Nat : y = c[n][u]
    BY <1>2
  <2>3. Billed(n, x) + Billed(n, y) <= Billed(n, x + y)
    BY BilledAdds
  <2>4. Billed(n, x) \in Nat /\ Billed(n, y) \in Nat /\ Billed(n, x + y) \in Nat
    BY BilledType
  <2>5. R * (Billed(n, x) + Billed(n, y)) <= R * Billed(n, x + y)
    <3>1. Billed(n, x) + Billed(n, y) \in Nat /\ R \in Nat
      BY <2>4
    <3>. QED
      BY <2>3, <2>4, <3>1, TimesOrder
  <2>6. R * (Billed(n, x) + Billed(n, y)) = R * Billed(n, x) + R * Billed(n, y)
    <3>1. \A p, q, r \in Nat : r * (p + q) = r * p + r * q
      OBVIOUS
    <3>. QED
      BY <2>4, <3>1
  <2>7. f[n] = R * Billed(n, x)
    BY <1>5, <2>1
  <2>8. h[n] = R * Billed(n, x + y)
    <3>1. g[n][u] - e[n][u] = x + y
      BY <1>2, <1>3, <2>1, <2>2
    <3>. QED
      BY <1>6, <3>1
  <2>. QED
    BY <2>2, <2>5, <2>6, <2>7, <2>8
<1>11. Sent(R, g, c, u) = Tally(f, Nodes) /\ Sent(R, g, e, u) = Tally(h, Nodes)
  BY <1>5, <1>6 DEF Sent
<1>12. f[n] \in Nat /\ h[n] \in Nat /\ R * Billed(n, c[n][u]) \in Nat
  BY <1>2, <1>8, BilledType, TimesType
<1>13. /\ f[n] = R * Billed(n, g[n][u] - c[n][u])
       /\ h[n] = R * Billed(n, g[n][u])
  <2>1. g[n][u] - e[n][u] = g[n][u]
    BY <1>2, <1>3
  <2>. QED
    BY <1>5, <1>6, <2>1
<1>14. Sent(R, g, c, u) + R * Billed(n, c[n][u]) <= Sent(R, g, e, u)
  BY <1>9, <1>10, <1>11, <1>12
<1>. QED
  BY <1>1, <1>9, <1>11, <1>13, <1>14

Bounded(R) ==
    /\ \A i \in 1..Len(updates) : updates[i].stalls < R
    /\ \A w \in Workers : active[w] # NoJob => active[w].stalls < R

CounterBelow == \A n \in Nodes, u \in Users : counter[n][u] <= generated[n][u]

Due(R, u) ==
    lifetime[u] + Running(R, active, u) + Queued(R, updates, u) + Reported(R, rec, u)
Answered(R, u) == Sent(R, generated, counter, u)

LEMMA DueTypes ==
    ASSUME NEW R \in Nat \ {0}, TypeOK, Bounded(R), NEW u \in Users
    PROVE  /\ lifetime[u] \in Nat /\ Running(R, active, u) \in Nat
           /\ Queued(R, updates, u) \in Nat /\ Reported(R, rec, u) \in Nat
           /\ \A w \in Workers : JobDue(R, active[w], u) \in Nat
<1>1. lifetime[u] \in Nat
  BY DEF TypeOK, Bytes
<1>2. \A w \in Workers : JobDue(R, active[w], u) \in Nat
  <2>1. \A w \in Workers : active[w] \in ActiveJob \cup {NoJob}
    BY DEF TypeOK
  <2>. QED
    BY <2>1, JobDueType DEF Bounded
<1>3. Running(R, active, u) \in Nat
  <2>1. PICK f : f = [w \in Workers |-> JobDue(R, active[w], u)]
    OBVIOUS
  <2>2. \A w \in Workers : f[w] \in Nat
    BY <1>2, <2>1
  <2>3. IsFiniteSet(Workers)
    BY UsageAssumption
  <2>4. Tally(f, Workers) \in Nat
    BY <2>2, <2>3, UnitsFinite
  <2>. QED
    BY <2>1, <2>4 DEF Running
<1>4. Queued(R, updates, u) \in Nat
  <2>1. updates \in Seq(UpdateJob)
    BY DEF TypeOK
  <2>. QED
    BY <2>1, QueuedType DEF Bounded
<1>5. Reported(R, rec, u) \in Nat
  <2>1. PICK f : f = [m \in Nodes |-> R * Billed(m, Unqueued(rec[m], u))]
    OBVIOUS
  <2>2. \A m \in Nodes : rec[m] \in [state : RecState, batch : Bytes, listed : SUBSET Users]
    BY DEF TypeOK
  <2>3. \A m \in Nodes : f[m] \in Nat
    BY <2>1, <2>2, UnqueuedType
  <2>4. IsFiniteSet(Nodes)
    BY UsageAssumption
  <2>5. Tally(f, Nodes) \in Nat
    BY <2>3, <2>4, UnitsFinite
  <2>. QED
    BY <2>1, <2>5 DEF Reported
<1>. QED
  BY <1>1, <1>2, <1>3, <1>4, <1>5

LEMMA AnsweredType ==
    ASSUME NEW R \in Nat \ {0}, TypeOK, CounterBelow, NEW u \in Users
    PROVE  Answered(R, u) \in Nat
<1>1. generated \in [Nodes -> Bytes] /\ counter \in [Nodes -> Bytes]
  BY DEF TypeOK
<1>2. \A m \in Nodes : counter[m][u] <= generated[m][u]
  BY DEF CounterBelow
<1>. QED
  BY <1>1, <1>2, SentType DEF Answered

LEMMA RecordShape ==
    ASSUME TypeOK, TypeOK', NEW u \in Users, NEW n \in Nodes
    PROVE  /\ rec \in [Nodes -> [state : RecState, batch : Bytes, listed : SUBSET Users]]
           /\ rec' \in [Nodes -> [state : RecState, batch : Bytes, listed : SUBSET Users]]
           /\ Unqueued(rec[n], u) \in Nat /\ Unqueued(rec'[n], u) \in Nat
<1>1. /\ rec \in [Nodes -> [state : RecState, batch : Bytes, listed : SUBSET Users]]
      /\ rec' \in [Nodes -> [state : RecState, batch : Bytes, listed : SUBSET Users]]
  BY DEF TypeOK
<1>2. rec[n].batch[u] \in Nat /\ rec'[n].batch[u] \in Nat
  BY <1>1 DEF Bytes
<1>. QED
  BY <1>1, <1>2 DEF Unqueued

(* A step that only moves the report of n on.                               *)
LEMMA ReportMoves ==
    ASSUME NEW R \in Nat \ {0}, TypeOK, TypeOK', Bounded(R), NEW u \in Users,
           NEW n \in Nodes, \A m \in Nodes \ {n} : rec'[m] = rec[m],
           lifetime' = lifetime, updates' = updates, active' = active,
           Unqueued(rec'[n], u) <= Unqueued(rec[n], u)
    PROVE  /\ Due(R, u)' <= Due(R, u)
           /\ Unqueued(rec'[n], u) = Unqueued(rec[n], u) => Due(R, u)' = Due(R, u)
<1>1. /\ rec \in [Nodes -> [state : RecState, batch : Bytes, listed : SUBSET Users]]
      /\ rec' \in [Nodes -> [state : RecState, batch : Bytes, listed : SUBSET Users]]
  BY RecordShape
<1>2. /\ Reported(R, rec, u) \in Nat /\ Reported(R, rec', u) \in Nat
      /\ Reported(R, rec', u) + R * Billed(n, Unqueued(rec[n], u))
            = Reported(R, rec, u) + R * Billed(n, Unqueued(rec'[n], u))
  BY <1>1, ReportedChange
<1>3. PICK x \in Nat : x = Unqueued(rec[n], u)
  BY RecordShape
<1>4. PICK y \in Nat : y = Unqueued(rec'[n], u)
  BY RecordShape
<1>5. /\ R * Billed(n, y) \in Nat /\ R * Billed(n, x) \in Nat
      /\ R * Billed(n, y) <= R * Billed(n, x)
  <2>1. Billed(n, y) <= Billed(n, x) /\ Billed(n, y) \in Nat /\ Billed(n, x) \in Nat
    BY <1>3, <1>4, BilledOrder, BilledType
  <2>. QED
    BY <2>1, TimesOrder, TimesType
<1>6. /\ Reported(R, rec', u) <= Reported(R, rec, u)
      /\ y = x => Reported(R, rec', u) = Reported(R, rec, u)
  BY <1>2, <1>3, <1>4, <1>5
<1>7. /\ lifetime[u] \in Nat /\ Running(R, active, u) \in Nat
      /\ Queued(R, updates, u) \in Nat
  BY DueTypes
<1>8. Due(R, u)' = lifetime[u] + Running(R, active, u) + Queued(R, updates, u)
                   + Reported(R, rec', u)
  BY DEF Due
<1>. QED
  BY <1>2, <1>3, <1>4, <1>6, <1>7, <1>8 DEF Due

LEMMA QueueMoves ==
    ASSUME NEW R \in Nat \ {0}, TypeOK, TypeOK', Bounded(R), NEW u \in Users,
           NEW n \in Nodes, QueueUpdates(n)
    PROVE  Due(R, u)' = Due(R, u)
<1>1. PICK chunk \in SUBSET rec[n].listed :
        /\ updates' = Append(updates,
              [inc |-> [v \in Users |-> IF v \in chunk THEN Billed(n, rec[n].batch[v]) ELSE 0],
               for |-> chunk, stalls |-> 0])
        /\ rec' = [rec EXCEPT ![n].listed = @ \ chunk]
  BY DEF QueueUpdates
<1>2. PICK j : j = [inc |-> [v \in Users |->
                                IF v \in chunk THEN Billed(n, rec[n].batch[v]) ELSE 0],
                    for |-> chunk, stalls |-> 0]
  OBVIOUS
<1>3. /\ rec \in [Nodes -> [state : RecState, batch : Bytes, listed : SUBSET Users]]
      /\ rec' \in [Nodes -> [state : RecState, batch : Bytes, listed : SUBSET Users]]
      /\ updates \in Seq(UpdateJob)
  BY RecordShape DEF TypeOK
<1>4. \A v \in Users : Billed(n, rec[n].batch[v]) \in Nat
  <2>1. \A v \in Users : rec[n].batch[v] \in Nat
    BY <1>3 DEF Bytes
  <2>. QED
    BY <2>1, BilledType
<1>5. j \in UpdateJob /\ j.stalls = 0 /\ j.stalls < R
  <2>1. [v \in Users |-> IF v \in chunk THEN Billed(n, rec[n].batch[v]) ELSE 0] \in Bytes
    BY <1>4 DEF Bytes
  <2>2. chunk \in SUBSET Users
    BY <1>3
  <2>. QED
    BY <1>2, <2>1, <2>2 DEF UpdateJob
<1>6. j.inc[u] = IF u \in chunk THEN Billed(n, rec[n].batch[u]) ELSE 0
  BY <1>2
<1>7. Queued(R, updates', u) = Queued(R, updates, u) + WaitDue(R, j, u)
  <2>1. \A i \in 1..Len(updates) : updates[i].stalls < R
    BY DEF Bounded
  <2>2. updates' = Append(updates, j)
    BY <1>1, <1>2
  <2>. QED
    BY <1>3, <1>5, <2>1, <2>2, QueuedAppend
<1>8. WaitDue(R, j, u) \in Nat /\ WaitDue(R, j, u) = R * j.inc[u]
  <2>1. WaitDue(R, j, u) \in Nat /\ WaitDue(R, j, u) = j.inc[u] * (R - j.stalls)
    BY <1>5, WaitDueType
  <2>2. j.inc[u] \in Nat
    BY <1>5 DEF UpdateJob, Bytes
  <2>3. j.inc[u] * (R - 0) = R * j.inc[u]
    BY <2>2
  <2>. QED
    BY <1>5, <2>1, <2>3
<1>9. rec[n].state = "cached" /\ rec'[n].state = "cached" /\ rec'[n].batch = rec[n].batch
      /\ rec'[n].listed = rec[n].listed \ chunk
  BY <1>1, <1>3 DEF QueueUpdates
<1>10. \A m \in Nodes \ {n} : rec'[m] = rec[m]
  BY <1>1, <1>3
<1>11. /\ Reported(R, rec, u) \in Nat /\ Reported(R, rec', u) \in Nat
       /\ Reported(R, rec', u) + R * Billed(n, Unqueued(rec[n], u))
            = Reported(R, rec, u) + R * Billed(n, Unqueued(rec'[n], u))
  BY <1>3, <1>10, ReportedChange
<1>12. /\ R * Billed(n, Unqueued(rec[n], u)) \in Nat
       /\ R * Billed(n, Unqueued(rec'[n], u)) \in Nat
  BY <1>3, UnqueuedType
<1>13. R * Billed(n, Unqueued(rec[n], u))
          = R * Billed(n, Unqueued(rec'[n], u)) + WaitDue(R, j, u)
  <2>1. R * 0 = 0 /\ Billed(n, 0) = 0
    BY BilledNothing
  <2>2. CASE u \in chunk
    <3>1. Unqueued(rec[n], u) = rec[n].batch[u] /\ Unqueued(rec'[n], u) = 0
      BY <1>1, <1>9, <2>2 DEF Unqueued
    <3>2. j.inc[u] = Billed(n, rec[n].batch[u])
      BY <1>6, <2>2
    <3>. QED
      BY <1>8, <1>12, <2>1, <3>1, <3>2
  <2>3. CASE u \notin chunk
    <3>1. Unqueued(rec[n], u) = Unqueued(rec'[n], u)
      BY <1>1, <1>9, <2>3 DEF Unqueued
    <3>2. j.inc[u] = 0
      BY <1>6, <2>3
    <3>. QED
      BY <1>8, <1>12, <2>1, <3>1, <3>2
  <2>. QED
    BY <2>2, <2>3
<1>14. lifetime' = lifetime /\ active' = active
  BY DEF QueueUpdates, userVars
<1>15. Due(R, u)' = lifetime[u] + Running(R, active, u) + Queued(R, updates', u)
                    + Reported(R, rec', u)
  BY <1>14 DEF Due
<1>16. /\ lifetime[u] \in Nat /\ Running(R, active, u) \in Nat
       /\ Queued(R, updates, u) \in Nat
  BY DueTypes
<1>17. Reported(R, rec, u) = Reported(R, rec', u) + WaitDue(R, j, u)
  BY <1>8, <1>11, <1>12, <1>13
<1>. QED
  BY <1>7, <1>8, <1>11, <1>15, <1>16, <1>17 DEF Due

LEMMA RecordMoves ==
    ASSUME NEW R \in Nat \ {0}, TypeOK, TypeOK', Bounded(R), NEW u \in Users,
           NEW n \in Nodes, RecordStep(n), ~FetchStats(n)
    PROVE  /\ Due(R, u)' <= Due(R, u)
           /\ mishaps' = mishaps => Due(R, u)' = Due(R, u)
<1>1. /\ rec \in [Nodes -> [state : RecState, batch : Bytes, listed : SUBSET Users]]
      /\ Unqueued(rec[n], u) \in Nat /\ Unqueued(rec'[n], u) \in Nat
  BY RecordShape
<1>2. CASE QueueRecord(n) \/ FetchFails(n)
  <2>1. /\ \A m \in Nodes \ {n} : rec'[m] = rec[m]
        /\ Unqueued(rec[n], u) = 0 /\ Unqueued(rec'[n], u) = 0
    BY <1>1, <1>2 DEF QueueRecord, FetchFails, Unqueued, IdleRec, EmptyRec
  <2>2. lifetime' = lifetime /\ updates' = updates /\ active' = active
    BY <1>2 DEF QueueRecord, FetchFails, userVars
  <2>. QED
    BY <2>1, <2>2, ReportMoves
<1>3. CASE CacheUsage(n)
  <2>1. \A m \in Nodes \ {n} : rec'[m] = rec[m]
    BY <1>1, <1>3 DEF CacheUsage
  <2>2. Unqueued(rec'[n], u) = Unqueued(rec[n], u)
    BY <1>1, <1>3 DEF CacheUsage, Unqueued
  <2>3. lifetime' = lifetime /\ updates' = updates /\ active' = active
    BY <1>3 DEF CacheUsage, userVars
  <2>. QED
    BY <1>1, <2>1, <2>2, <2>3, ReportMoves
<1>4. CASE QueueUpdates(n)
  <2>1. Due(R, u)' = Due(R, u)
    BY <1>4, QueueMoves
  <2>2. Due(R, u) \in Nat
    BY DueTypes DEF Due
  <2>. QED
    BY <2>1, <2>2
<1>5. CASE SchedulePush(n)
  <2>1. /\ \A m \in Nodes \ {n} : rec'[m] = rec[m]
        /\ Unqueued(rec[n], u) = 0 /\ Unqueued(rec'[n], u) = 0
    BY <1>1, <1>5 DEF SchedulePush, Unqueued, IdleRec, EmptyRec
  <2>2. lifetime' = lifetime /\ updates' = updates /\ active' = active
    BY <1>5 DEF SchedulePush, userVars
  <2>. QED
    BY <2>1, <2>2, ReportMoves
<1>6. CASE RecordFails(n) \/ CrashRecord(n)
  <2>1. /\ \A m \in Nodes \ {n} : rec'[m] = rec[m]
        /\ Unqueued(rec'[n], u) = 0
    BY <1>1, <1>6 DEF RecordFails, CrashRecord, Unqueued, IdleRec, EmptyRec
  <2>2. lifetime' = lifetime /\ updates' = updates /\ active' = active
    BY <1>6 DEF RecordFails, CrashRecord, userVars
  <2>3. mishaps' # mishaps
    BY <1>6, MishapIsSeen DEF RecordFails, CrashRecord
  <2>. QED
    BY <1>1, <2>1, <2>2, <2>3, ReportMoves
<1>. QED
  BY <1>2, <1>3, <1>4, <1>5, <1>6 DEF RecordStep

(* A step of a job: only its slot, the queue and the counter change.         *)
LEMMA JobMoves ==
    ASSUME NEW R \in Nat \ {0}, TypeOK, TypeOK', Bounded(R), Bounded(R)', NEW u \in Users,
           NEW w \in Workers, \A v \in Workers \ {w} : active'[v] = active[v], rec' = rec,
           lifetime'[u] + JobDue(R, active'[w], u) + Queued(R, updates', u)
                <= lifetime[u] + JobDue(R, active[w], u) + Queued(R, updates, u)
    PROVE  /\ Due(R, u)' <= Due(R, u)
           /\ lifetime'[u] + JobDue(R, active'[w], u) + Queued(R, updates', u)
                    = lifetime[u] + JobDue(R, active[w], u) + Queued(R, updates, u)
                => Due(R, u)' = Due(R, u)
<1>1. /\ active \in [Workers -> ActiveJob \cup {NoJob}]
      /\ active' \in [Workers -> ActiveJob \cup {NoJob}]
  BY DEF TypeOK
<1>2. /\ lifetime[u] \in Nat /\ Queued(R, updates, u) \in Nat /\ Reported(R, rec, u) \in Nat
      /\ \A v \in Workers : JobDue(R, active[v], u) \in Nat
  BY DueTypes
<1>3. lifetime'[u] \in Nat /\ Queued(R, updates', u) \in Nat
  <2>1. updates' \in Seq(UpdateJob) /\ lifetime'[u] \in Nat
    BY DEF TypeOK, Bytes
  <2>2. \A i \in 1..Len(updates') : updates'[i].stalls < R
    BY DEF Bounded
  <2>. QED
    BY <2>1, <2>2, QueuedType
<1>4. JobDue(R, active'[w], u) \in Nat
  <2>1. active'[w] \in ActiveJob \cup {NoJob}
    BY <1>1
  <2>2. active'[w] # NoJob => active'[w].stalls < R
    BY DEF Bounded
  <2>. QED
    BY <2>1, <2>2, JobDueType
<1>5. /\ Running(R, active, u) \in Nat /\ Running(R, active', u) \in Nat
      /\ Running(R, active', u) + JobDue(R, active[w], u)
            = Running(R, active, u) + JobDue(R, active'[w], u)
  BY <1>1, <1>2, <1>4, RunningChange
<1>6. Due(R, u)' = lifetime'[u] + Running(R, active', u) + Queued(R, updates', u)
                   + Reported(R, rec, u)
  BY DEF Due
<1>. QED
  BY <1>2, <1>3, <1>4, <1>5, <1>6 DEF Due

(* A job adds nothing to a user it does not name.                           *)
Names(j) == \A u \in Users : u \in j.for \/ j.inc[u] = 0
Named ==
    /\ \A i \in 1..Len(updates) : Names(updates[i])
    /\ \A w \in Workers : active[w] # NoJob => Names(active[w])

(* The steps of an updateUsersUsage job, its stall included.                *)
LEMMA UpdateMoves ==
    ASSUME NEW R \in Nat \ {0}, TypeOK, TypeOK', Bounded(R), Bounded(R)', NEW u \in Users,
           NEW w \in Workers, UpdateStep(w)
    PROVE  /\ Due(R, u)' <= Due(R, u)
           /\ mishaps' = mishaps /\ R = 1 /\ Named /\ alive = Users
                => Due(R, u)' = Due(R, u)
<1>1. /\ updates \in Seq(UpdateJob) /\ active \in [Workers -> ActiveJob \cup {NoJob}]
      /\ \A i \in 1..Len(updates) : updates[i].stalls < R
      /\ lifetime[u] \in Nat /\ lifetime \in Bytes
  BY DEF TypeOK, Bounded, Bytes
<1>2. /\ Queued(R, updates, u) \in Nat
      /\ \A v \in Workers : JobDue(R, active[v], u) \in Nat
  BY DueTypes
<1>3. JobDue(R, NoJob, u) = 0
  BY DEF JobDue
<1>4. CASE StartUpdate(w)
  <2>1. /\ active[w] = NoJob /\ updates # <<>> /\ updates' = Tail(updates)
        /\ active' = [active EXCEPT ![w] =
              [inc |-> Head(updates).inc, for |-> Head(updates).for,
               stalls |-> Head(updates).stalls, written |-> FALSE, first |-> {}]]
        /\ rec' = rec /\ lifetime' = lifetime
    BY <1>4 DEF StartUpdate, userVars
  <2>2. PICK j \in UpdateJob : j = Head(updates) /\ j.stalls < R
    <3>1. 1 \in 1..Len(updates) /\ Head(updates) = updates[1] /\ updates[1] \in UpdateJob
      BY <1>1, <2>1
    <3>. QED
      BY <1>1, <3>1
  <2>3. /\ Queued(R, Tail(updates), u) \in Nat
        /\ Queued(R, updates, u) = Queued(R, Tail(updates), u) + WaitDue(R, j, u)
    BY <1>1, <2>1, <2>2, QueuedHead
  <2>4. WaitDue(R, j, u) \in Nat /\ WaitDue(R, j, u) = j.inc[u] * (R - j.stalls)
    BY <2>2, WaitDueType
  <2>5. JobDue(R, active'[w], u) = WaitDue(R, j, u)
    <3>1. /\ active'[w].inc = j.inc /\ active'[w].stalls = j.stalls
          /\ active'[w].written = FALSE
      BY <1>1, <2>1, <2>2
    <3>2. R - j.stalls - 0 = R - j.stalls
      BY <2>2 DEF UpdateJob
    <3>3. active'[w] # NoJob
      <4>1. active'[w] = [inc |-> j.inc, for |-> j.for, stalls |-> j.stalls,
                          written |-> FALSE, first |-> {}]
        BY <1>1, <2>1, <2>2
      <4>2. active'[w] \in ActiveJob
        BY <2>2, <4>1 DEF ActiveJob, UpdateJob
      <4>. QED
        BY <4>2, NoJobAssumption
    <3>. QED
      BY <2>4, <3>1, <3>2, <3>3 DEF JobDue
  <2>6. lifetime'[u] + JobDue(R, active'[w], u) + Queued(R, updates', u)
            = lifetime[u] + JobDue(R, active[w], u) + Queued(R, updates, u)
    BY <1>1, <1>3, <2>1, <2>3, <2>4, <2>5
  <2>7. lifetime'[u] + JobDue(R, active'[w], u) + Queued(R, updates', u) \in Nat
    BY <1>1, <2>1, <2>3, <2>4, <2>5
  <2>8. \A v \in Workers \ {w} : active'[v] = active[v]
    BY <1>1, <2>1
  <2>9. lifetime'[u] + JobDue(R, active'[w], u) + Queued(R, updates', u)
            <= lifetime[u] + JobDue(R, active[w], u) + Queued(R, updates, u)
    BY <2>6, <2>7
  <2>. QED
    BY <2>1, <2>6, <2>8, <2>9, JobMoves
<1>5. CASE WriteUpdate(w)
  <2>1. PICK rows, first : /\ rows = active[w].for \cap alive
                           /\ lifetime' = Plus(lifetime, Only(active[w].inc, rows))
                           /\ active' = [active EXCEPT ![w].written = TRUE, ![w].first = first]
    BY <1>5 DEF WriteUpdate
  <2>2. /\ active[w] # NoJob /\ ~active[w].written /\ updates' = updates /\ rec' = rec
    BY <1>5 DEF WriteUpdate
  <2>3. /\ active[w] \in ActiveJob
        /\ active[w].inc[u] \in Nat /\ active[w].stalls \in Nat
        /\ active[w].stalls < R
    BY <1>1, <2>2 DEF ActiveJob, Bytes, Bounded
  <2>4. PICK i \in Nat : i = active[w].inc[u]
    BY <2>3
  <2>5. PICK k \in Nat : /\ k = R - active[w].stalls - 1
                         /\ R - active[w].stalls - 0 = k + 1
    BY <2>3
  <2>6. JobDue(R, active[w], u) = i * (k + 1)
    BY <2>2, <2>4, <2>5 DEF JobDue
  <2>7. /\ JobDue(R, active'[w], u) = 0 \/ JobDue(R, active'[w], u) = i * k
    <3>1. /\ active'[w].inc = active[w].inc /\ active'[w].stalls = active[w].stalls
          /\ active'[w].written = TRUE
      BY <1>1, <2>1, <2>3 DEF ActiveJob
    <3>. QED
      BY <2>4, <2>5, <3>1 DEF JobDue
  <2>8. PICK p \in Nat : p = i * k /\ i * (k + 1) = p + i
    <3>1. i * (k + 1) = i * k + i /\ i * k \in Nat
      BY TimesType
    <3>. QED
      BY <3>1
  <2>9. lifetime'[u] = lifetime[u] + (IF u \in rows THEN i ELSE 0)
    BY <2>1, <2>4 DEF Plus, Only
  <2>10. /\ JobDue(R, active[w], u) = p + i
         /\ JobDue(R, active'[w], u) = 0 \/ JobDue(R, active'[w], u) = p
    BY <2>6, <2>7, <2>8
  <2>11. lifetime'[u] + JobDue(R, active'[w], u) + Queued(R, updates', u)
            <= lifetime[u] + JobDue(R, active[w], u) + Queued(R, updates, u)
    BY <1>1, <1>2, <2>2, <2>9, <2>10
  <2>12. ASSUME R = 1, Named, alive = Users
         PROVE  lifetime'[u] + JobDue(R, active'[w], u) + Queued(R, updates', u)
                  = lifetime[u] + JobDue(R, active[w], u) + Queued(R, updates, u)
    <3>1. k = 0
      BY <2>3, <2>5, <2>12
    <3>2. p = 0
      BY <2>8, <3>1
    <3>3. u \in rows \/ i = 0
      BY <2>1, <2>2, <2>4, <2>12 DEF Named, Names
    <3>4. lifetime'[u] = lifetime[u] + i
      BY <1>1, <2>9, <3>3
    <3>. QED
      BY <1>1, <1>2, <2>2, <2>10, <3>2, <3>4
  <2>13. \A v \in Workers \ {w} : active'[v] = active[v]
    BY <1>1, <2>1
  <2>. QED
    BY <2>2, <2>11, <2>12, <2>13, JobMoves
<1>6. CASE FinishUpdate(w) \/ UpdateFails(w)
  <2>1. /\ active' = [active EXCEPT ![w] = NoJob] /\ updates' = updates
        /\ rec' = rec /\ lifetime' = lifetime /\ active[w] # NoJob
    BY <1>6 DEF FinishUpdate, UpdateFails, userVars
  <2>2. active'[w] = NoJob /\ \A v \in Workers \ {w} : active'[v] = active[v]
    BY <1>1, <2>1
  <2>3. lifetime'[u] + JobDue(R, active'[w], u) + Queued(R, updates', u)
            <= lifetime[u] + JobDue(R, active[w], u) + Queued(R, updates, u)
    BY <1>1, <1>2, <1>3, <2>1, <2>2
  <2>4. ASSUME R = 1, mishaps' = mishaps
        PROVE  lifetime'[u] + JobDue(R, active'[w], u) + Queued(R, updates', u)
                 = lifetime[u] + JobDue(R, active[w], u) + Queued(R, updates, u)
    <3>1. active[w].written
      BY <1>6, <2>4, MishapIsSeen DEF FinishUpdate, UpdateFails
    <3>2. active[w].stalls \in Nat /\ active[w].stalls < R /\ active[w].inc[u] \in Nat
      BY <1>1, <2>1 DEF ActiveJob, Bytes, Bounded
    <3>3. R - active[w].stalls - 1 = 0
      BY <2>4, <3>2
    <3>4. JobDue(R, active[w], u) = 0
      BY <2>1, <3>1, <3>2, <3>3 DEF JobDue
    <3>. QED
      BY <1>3, <2>1, <2>2, <3>4
  <2>. QED
    BY <2>1, <2>2, <2>3, <2>4, JobMoves
<1>7. CASE CrashUpdate(w)
  <2>1. /\ active[w] # NoJob /\ active' = [active EXCEPT ![w] = NoJob]
        /\ updates' = IF active[w].stalls < MaxStalled
                      THEN <<[inc |-> active[w].inc, for |-> active[w].for,
                              stalls |-> active[w].stalls + 1]>> \o updates
                      ELSE updates
        /\ rec' = rec /\ lifetime' = lifetime
    BY <1>7 DEF CrashUpdate, userVars
  <2>2. active'[w] = NoJob /\ \A v \in Workers \ {w} : active'[v] = active[v]
    BY <1>1, <2>1
  <2>3. /\ active[w].inc \in Bytes /\ active[w].for \in SUBSET Users
        /\ active[w].inc[u] \in Nat /\ active[w].stalls \in Nat
        /\ active[w].stalls < R
    BY <1>1, <2>1 DEF ActiveJob, Bytes, Bounded
  <2>4. mishaps' # mishaps
    BY <1>7, MishapIsSeen DEF CrashUpdate
  <2>5. CASE active[w].stalls < MaxStalled
    <3>1. PICK j : j = [inc |-> active[w].inc, for |-> active[w].for,
                        stalls |-> active[w].stalls + 1]
      OBVIOUS
    <3>2. j \in UpdateJob /\ j.stalls = active[w].stalls + 1 /\ j.inc = active[w].inc
      BY <2>3, <3>1 DEF UpdateJob
    <3>3. updates' = <<j>> \o updates
      BY <2>1, <2>5, <3>1
    <3>4. j.stalls < R
      <4>1. /\ \A i \in 1..Len(updates') : updates'[i].stalls < R
            /\ Len(updates') = Len(updates) + 1 /\ updates'[1] = j
        BY <1>1, <3>2, <3>3 DEF Bounded
      <4>2. 1 \in 1..Len(updates')
        BY <1>1, <4>1
      <4>. QED
        BY <4>1, <4>2
    <3>5. Queued(R, updates', u) = Queued(R, updates, u) + WaitDue(R, j, u)
      BY <1>1, <3>2, <3>3, <3>4, QueuedPrepend
    <3>6. PICK k \in Nat : k = R - j.stalls
      BY <2>3, <3>2, <3>4
    <3>7. PICK i \in Nat : i = active[w].inc[u]
      BY <2>3
    <3>8. PICK p \in Nat : p = i * k /\ i * (k + 1) = p + i
      <4>1. i * (k + 1) = i * k + i /\ i * k \in Nat
        BY TimesType
      <4>. QED
        BY <4>1
    <3>9. WaitDue(R, j, u) = p
      BY <3>2, <3>4, <3>6, <3>7, <3>8, WaitDueType
    <3>10. JobDue(R, active[w], u) = p \/ JobDue(R, active[w], u) = p + i
      <4>1. R - active[w].stalls - 1 = k /\ R - active[w].stalls - 0 = k + 1
        BY <2>3, <3>2, <3>6
      <4>. QED
        BY <2>1, <3>7, <3>8, <4>1 DEF JobDue
    <3>11. lifetime'[u] + JobDue(R, active'[w], u) + Queued(R, updates', u)
            <= lifetime[u] + JobDue(R, active[w], u) + Queued(R, updates, u)
      BY <1>1, <1>2, <1>3, <2>1, <2>2, <3>5, <3>9, <3>10
    <3>. QED
      BY <2>1, <2>2, <2>4, <3>11, JobMoves
  <2>6. CASE ~(active[w].stalls < MaxStalled)
    <3>1. updates' = updates
      BY <2>1, <2>6
    <3>2. lifetime'[u] + JobDue(R, active'[w], u) + Queued(R, updates', u)
            <= lifetime[u] + JobDue(R, active[w], u) + Queued(R, updates, u)
      BY <1>1, <1>2, <1>3, <2>1, <2>2, <3>1
    <3>. QED
      BY <2>1, <2>2, <2>4, <3>2, JobMoves
  <2>. QED
    BY <2>5, <2>6
<1>. QED
  BY <1>4, <1>5, <1>6, <1>7 DEF UpdateStep

LEMMA QuotientsSplit ==
    ASSUME NEW d \in Nat \ {0}, NEW x \in Nat, NEW y \in Nat
    PROVE  (x + y) \div d <= x \div d + y \div d + 1
<1>1. PICK p \in Nat : p = x \div d /\ x < d * (p + 1)
  BY QuotientBounds
<1>2. PICK q \in Nat : q = y \div d /\ y < d * (q + 1)
  BY QuotientBounds
<1>3. PICK r \in Nat : r = (x + y) \div d /\ d * r <= x + y
  <2>1. x + y \in Nat
    OBVIOUS
  <2>. QED
    BY <2>1, QuotientBounds
<1>4. d * (p + q + 2) = d * (p + 1) + d * (q + 1)
  OBVIOUS
<1>5. /\ d * (p + 1) \in Nat /\ d * (q + 1) \in Nat /\ d * r \in Nat
      /\ d * (p + q + 2) \in Nat
  BY TimesType
<1>6. d * r < d * (p + q + 2)
  BY <1>1, <1>2, <1>3, <1>4, <1>5
<1>7. ~(p + q + 2 <= r)
  <2>1. d \in Nat /\ p + q + 2 \in Nat
    OBVIOUS
  <2>2. p + q + 2 <= r => d * (p + q + 2) <= d * r
    BY <2>1, TimesOrder
  <2>. QED
    BY <1>5, <1>6, <2>2
<1>. QED
  BY <1>1, <1>2, <1>3, <1>7

LEMMA QuotientRest ==
    ASSUME NEW d \in Nat \ {0}, NEW x \in Nat
    PROVE  x = d * (x \div d) + (x % d)
OBVIOUS

LEMMA QuotientOfMultiple ==
    ASSUME NEW d \in Nat \ {0}, NEW k \in Nat
    PROVE  (d * k) \div d = k
<1>1. d * k \in Nat
  BY TimesType
<1>2. PICK q \in Nat : q = (d * k) \div d /\ d * q <= d * k /\ d * k < d * (q + 1)
  BY <1>1, QuotientBounds
<1>3. d * q \in Nat /\ d * (q + 1) \in Nat /\ d * (k + 1) \in Nat /\ d * (k + 1) = d * k + d
  BY TimesType
<1>4. ~(q + 1 <= k)
  <2>1. q + 1 <= k => d * (q + 1) <= d * k
    BY TimesOrder
  <2>. QED
    BY <1>1, <1>2, <1>3, <2>1
<1>5. ~(k + 1 <= q)
  <2>1. k + 1 <= q => d * (k + 1) <= d * q
    BY TimesOrder
  <2>. QED
    BY <1>1, <1>2, <1>3, <2>1
<1>. QED
  BY <1>2, <1>4, <1>5

(* Multiplying two reports apart loses less than one for each byte of the     *)
(* second, and nothing when the multiplier is whole.                        *)
LEMMA BilledSplits ==
    ASSUME NEW n \in Nodes, NEW a \in Nat, NEW b \in Nat
    PROVE  /\ Rounding(n, a) \in Nat /\ Rounding(n, a + b) \in Nat
           /\ Billed(n, a + b) + Rounding(n, a)
                <= Billed(n, a) + Billed(n, b) + Rounding(n, a + b)
<1>1. One \in Nat \ {0} /\ Multiplier[n] \in Nat
  BY UsageAssumption
<1>2. PICK m \in Nat : m = Multiplier[n]
  BY <1>1
<1>3. m * a \in Nat /\ m * b \in Nat /\ m * (a + b) = m * a + m * b
  BY <1>2
<1>4. Billed(n, a) \in Nat /\ Billed(n, b) \in Nat /\ Billed(n, a + b) \in Nat
  BY BilledType
<1>5. Rounding(n, a) \in Nat /\ Rounding(n, a + b) \in Nat
  BY DEF Rounding
<1>6. CASE m % One = 0
  <2>1. PICK k \in Nat : m = One * k
    <3>1. PICK k \in Nat : k = m \div One
      BY <1>1, QuotientBounds
    <3>2. m = One * k + (m % One)
      BY <1>1, <3>1, QuotientRest
    <3>3. One * k \in Nat
      BY <1>1, TimesType
    <3>. QED
      BY <1>6, <3>2, <3>3
  <2>2. \A c \in Nat : Billed(n, c) = k * c
    <3>. SUFFICES ASSUME NEW c \in Nat PROVE Billed(n, c) = k * c
      OBVIOUS
    <3>1. k * c \in Nat /\ m * c = One * (k * c)
      BY <1>1, <2>1, TimesType
    <3>2. (m * c) \div One = k * c
      BY <1>1, <3>1, QuotientOfMultiple
    <3>3. m = 0 => m * c = 0
      OBVIOUS
    <3>4. m = 0 => k * c = 0
      BY <1>1, <3>1, <3>2, <3>3
    <3>. QED
      BY <1>2, <3>2, <3>4 DEF Billed
  <2>3. k * (a + b) = k * a + k * b /\ a + b \in Nat
    OBVIOUS
  <2>4. Billed(n, a + b) = Billed(n, a) + Billed(n, b)
    BY <2>2, <2>3
  <2>5. Rounding(n, a) = 0 /\ Rounding(n, a + b) = 0
    BY <1>2, <1>6 DEF Rounding
  <2>. QED
    BY <1>4, <2>4, <2>5
<1>7. CASE m % One # 0
  <2>1. m # 0
    BY <1>1, <1>7
  <2>2. (m * a + m * b) \div One <= (m * a) \div One + (m * b) \div One + 1
    BY <1>1, <1>3, QuotientsSplit
  <2>3. Billed(n, a + b) <= Billed(n, a) + Billed(n, b) + 1
    BY <1>2, <1>3, <2>1, <2>2 DEF Billed
  <2>4. Rounding(n, a) = a /\ Rounding(n, a + b) = a + b
    BY <1>2, <1>7 DEF Rounding
  <2>5. CASE b = 0
    <3>1. a + b = a
      BY <2>5
    <3>. QED
      BY <1>4, <1>5, <3>1
  <2>6. CASE b # 0
    BY <1>4, <2>3, <2>4, <2>6
  <2>. QED
    BY <2>5, <2>6
<1>. QED
  BY <1>5, <1>6, <1>7

Rounded(u) == Tally([n \in Nodes |-> Rounding(n, generated[n][u] - counter[n][u])], Nodes)

LEMMA RoundedType ==
    ASSUME TypeOK, CounterBelow, NEW u \in Users
    PROVE  Rounded(u) \in Nat
<1>1. PICK f : f = [n \in Nodes |-> Rounding(n, generated[n][u] - counter[n][u])]
  OBVIOUS
<1>2. \A n \in Nodes : f[n] \in Nat
  <2>1. \A n \in Nodes : generated[n][u] \in Nat /\ counter[n][u] \in Nat
    BY DEF TypeOK, Bytes
  <2>2. \A n \in Nodes : generated[n][u] - counter[n][u] \in Nat
    BY <2>1 DEF CounterBelow
  <2>. QED
    BY <1>1, <2>2 DEF Rounding
<1>3. Tally(f, Nodes) \in Nat
  BY <1>2, UnitsFinite, UsageAssumption
<1>. QED
  BY <1>1, <1>3 DEF Rounded

(* The node answers and forgets: what it rounds away grows by its report.    *)
LEMMA RoundedForgets ==
    ASSUME TypeOK, CounterBelow, NEW u \in Users, NEW n \in Nodes,
           generated' = generated, counter' = [counter EXCEPT ![n] = Zero]
    PROVE  /\ Rounded(u) \in Nat /\ Rounded(u)' \in Nat
           /\ Rounded(u)' + Rounding(n, generated[n][u] - counter[n][u])
                = Rounded(u) + Rounding(n, generated[n][u])
<1>1. PICK f : f = [m \in Nodes |-> Rounding(m, generated[m][u] - counter[m][u])]
  OBVIOUS
<1>2. PICK h : h = [m \in Nodes |-> Rounding(m, generated'[m][u] - counter'[m][u])]
  OBVIOUS
<1>3. /\ generated \in [Nodes -> Bytes] /\ counter \in [Nodes -> Bytes]
      /\ \A m \in Nodes : generated[m][u] \in Nat /\ counter[m][u] \in Nat
      /\ \A m \in Nodes : counter[m][u] <= generated[m][u]
  BY DEF TypeOK, Bytes, CounterBelow
<1>4. \A m \in Nodes : generated[m][u] - counter[m][u] \in Nat
  BY <1>3
<1>5. counter'[n][u] = 0 /\ \A m \in Nodes \ {n} : counter'[m] = counter[m]
  BY <1>3 DEF Zero
<1>6. generated'[n][u] - counter'[n][u] = generated[n][u]
  BY <1>3, <1>5
<1>7. \A m \in Nodes : f[m] \in Nat
  BY <1>1, <1>4 DEF Rounding
<1>8. \A m \in Nodes \ {n} : h[m] = f[m]
  BY <1>1, <1>2, <1>5
<1>9. h[n] = Rounding(n, generated[n][u]) /\ h[n] \in Nat
  BY <1>2, <1>3, <1>6 DEF Rounding
<1>10. \A m \in Nodes : h[m] \in Nat
  <2>1. \A m \in Nodes : m = n \/ m \in Nodes \ {n}
    OBVIOUS
  <2>. QED
    BY <1>7, <1>8, <1>9, <2>1
<1>11. /\ Tally(f, Nodes) \in Nat /\ Tally(h, Nodes) \in Nat
       /\ Tally(h, Nodes) + f[n] = Tally(f, Nodes) + h[n]
  BY <1>7, <1>8, <1>10, TallyChange, UsageAssumption
<1>12. Rounded(u) = Tally(f, Nodes) /\ Rounded(u)' = Tally(h, Nodes)
  BY <1>1, <1>2 DEF Rounded
<1>13. f[n] = Rounding(n, generated[n][u] - counter[n][u])
  BY <1>1
<1>. QED
  BY <1>9, <1>11, <1>12, <1>13

(* The report of a node becomes what is due, and is answered for.           *)
LEMMA FetchMoves ==
    ASSUME NEW R \in Nat \ {0}, TypeOK, TypeOK', Bounded(R), CounterBelow,
           NEW u \in Users, NEW n \in Nodes, FetchStats(n)
    PROVE  \E y \in Nat :
              /\ y <= counter[n][u] /\ (IgnoreBelow <= 1 => y = counter[n][u])
              /\ R * Billed(n, y) \in Nat
              /\ Due(R, u)' = Due(R, u) + R * Billed(n, y)
<1>1. PICK listed \in SUBSET Users :
        /\ {v \in Users : counter[n][v] > 0} \subseteq listed
        /\ LET counted == {v \in listed : counter[n][v] >= IgnoreBelow}
           IN rec' = [rec EXCEPT ![n] =
                     IF listed = {} THEN IdleRec
                     ELSE [state |-> "fetched", batch |-> Only(counter[n], counted),
                           listed |-> counted]]
  BY DEF FetchStats
<1>2. /\ rec \in [Nodes -> [state : RecState, batch : Bytes, listed : SUBSET Users]]
      /\ rec' \in [Nodes -> [state : RecState, batch : Bytes, listed : SUBSET Users]]
      /\ counter \in [Nodes -> Bytes] /\ IgnoreBelow \in Nat
  BY RecordShape, UsageAssumption DEF TypeOK
<1>3. \A m \in Nodes \ {n} : rec'[m] = rec[m]
  BY <1>1, <1>2
<1>4. Unqueued(rec[n], u) = 0
  BY DEF FetchStats, Unqueued
<1>5. PICK x \in Nat : x = counter[n][u]
  BY <1>2 DEF Bytes
<1>6. PICK y \in Nat : y = Unqueued(rec'[n], u)
  BY RecordShape
<1>7. y <= x /\ (IgnoreBelow <= 1 => y = x)
  <2>1. CASE listed = {}
    <3>1. rec'[n] = IdleRec
      BY <1>1, <1>2, <2>1
    <3>2. y = 0
      BY <1>6, <3>1 DEF Unqueued, IdleRec, EmptyRec
    <3>3. x = 0
      BY <1>1, <1>5, <2>1
    <3>. QED
      BY <3>2, <3>3
  <2>2. CASE listed # {}
    <3>1. PICK counted : counted = {v \in listed : counter[n][v] >= IgnoreBelow}
      OBVIOUS
    <3>2. rec'[n] = [state |-> "fetched", batch |-> Only(counter[n], counted),
                     listed |-> counted]
      BY <1>1, <1>2, <2>2, <3>1
    <3>3. y = IF u \in counted THEN x ELSE 0
      BY <1>5, <1>6, <3>2 DEF Unqueued, Only
    <3>4. x >= IgnoreBelow /\ x > 0 => u \in counted
      BY <1>1, <1>5, <3>1
    <3>5. IgnoreBelow <= 1 => x = 0 \/ (x >= IgnoreBelow /\ x > 0)
      BY <1>2, <1>5
    <3>. QED
      BY <3>3, <3>4, <3>5
  <2>. QED
    BY <2>1, <2>2
<1>8. /\ Reported(R, rec, u) \in Nat /\ Reported(R, rec', u) \in Nat
      /\ Reported(R, rec', u) + R * Billed(n, 0) = Reported(R, rec, u) + R * Billed(n, y)
  BY <1>2, <1>3, <1>4, <1>6, ReportedChange
<1>9. R * Billed(n, 0) = 0 /\ R * Billed(n, y) \in Nat
  <2>1. Billed(n, y) \in Nat /\ Billed(n, 0) = 0
    BY BilledNothing, BilledType
  <2>2. R * 0 = 0
    OBVIOUS
  <2>. QED
    BY <2>1, <2>2, TimesType
<1>10. lifetime' = lifetime /\ updates' = updates /\ active' = active
  BY DEF FetchStats, userVars
<1>11. Due(R, u)' = lifetime[u] + Running(R, active, u) + Queued(R, updates, u)
                    + Reported(R, rec', u)
  BY <1>10 DEF Due
<1>12. /\ lifetime[u] \in Nat /\ Running(R, active, u) \in Nat
       /\ Queued(R, updates, u) \in Nat
  BY DueTypes
<1>13. Reported(R, rec', u) = Reported(R, rec, u) + R * Billed(n, y)
  BY <1>8, <1>9
<1>14. Due(R, u)' = Due(R, u) + R * Billed(n, y)
  BY <1>8, <1>9, <1>11, <1>12, <1>13 DEF Due
<1>. QED
  BY <1>5, <1>7, <1>9, <1>14

(* A node that forgets has answered for at least what it held.               *)
LEMMA AnsweredForgets ==
    ASSUME NEW R \in Nat \ {0}, TypeOK, CounterBelow, NEW u \in Users, NEW n \in Nodes,
           generated' = generated, counter' = [counter EXCEPT ![n] = Zero]
    PROVE  /\ Answered(R, u) \in Nat /\ Answered(R, u)' \in Nat
           /\ R * Billed(n, counter[n][u]) \in Nat
           /\ Answered(R, u) + R * Billed(n, counter[n][u]) <= Answered(R, u)'
           /\ Answered(R, u)' + R * Billed(n, generated[n][u] - counter[n][u])
                = Answered(R, u) + R * Billed(n, generated[n][u])
<1>1. generated \in [Nodes -> Bytes] /\ counter \in [Nodes -> Bytes]
  BY DEF TypeOK
<1>2. \A m \in Nodes : counter[m][u] <= generated[m][u]
  BY DEF CounterBelow
<1>3. PICK e : e = [counter EXCEPT ![n] = Zero]
  OBVIOUS
<1>4. /\ Sent(R, generated, counter, u) \in Nat /\ Sent(R, generated, e, u) \in Nat
      /\ Sent(R, generated, counter, u) + R * Billed(n, counter[n][u])
           <= Sent(R, generated, e, u)
      /\ Sent(R, generated, e, u) + R * Billed(n, generated[n][u] - counter[n][u])
           = Sent(R, generated, counter, u) + R * Billed(n, generated[n][u])
  BY <1>1, <1>2, <1>3, SentForgets
<1>5. R * Billed(n, counter[n][u]) \in Nat
  <2>1. counter[n][u] \in Nat
    BY <1>1 DEF Bytes
  <2>. QED
    BY <2>1, BilledType, TimesType
<1>6. Answered(R, u) = Sent(R, generated, counter, u)
  BY DEF Answered
<1>7. Answered(R, u)' = Sent(R, generated, e, u)
  BY <1>3 DEF Answered
<1>. QED
  BY <1>4, <1>5, <1>6, <1>7

(* Bytes a node has not answered for change nothing.                         *)
LEMMA AnsweredSame ==
    ASSUME NEW R \in Nat \ {0}, TypeOK, CounterBelow, NEW u \in Users,
           \A n \in Nodes : generated'[n][u] - counter'[n][u]
                                = generated[n][u] - counter[n][u]
    PROVE  Answered(R, u)' = Answered(R, u) /\ Rounded(u)' = Rounded(u)
<1>1. [n \in Nodes |-> R * Billed(n, generated'[n][u] - counter'[n][u])]
        = [n \in Nodes |-> R * Billed(n, generated[n][u] - counter[n][u])]
  OBVIOUS
<1>2. [n \in Nodes |-> Rounding(n, generated'[n][u] - counter'[n][u])]
        = [n \in Nodes |-> Rounding(n, generated[n][u] - counter[n][u])]
  OBVIOUS
<1>. QED
  BY <1>1, <1>2 DEF Answered, Sent, Rounded

(* What a job keeps while it waits and runs: it may still run, and it bills  *)
(* only the users it is for.                                                *)
Fit(R, j) == j.stalls < R /\ Names(j)
AllFit(R) ==
    /\ \A i \in 1..Len(updates) : Fit(R, updates[i])
    /\ \A w \in Workers : active[w] # NoJob => Fit(R, active[w])

LEMMA AllFitIs == \A R : AllFit(R) <=> Bounded(R) /\ Named
BY DEF AllFit, Fit, Bounded, Named

LEMMA FitMoves ==
    ASSUME NEW R \in Nat \ {0}, NEW i, NEW j, i.inc = j.inc, i.for = j.for,
           i.stalls = j.stalls, Fit(R, j)
    PROVE  Fit(R, i)
BY DEF Fit, Names

(* Every run of a job counts a stall, so no job outlives its R runs.        *)
LEMMA FitStep ==
    ASSUME NEW R \in Nat \ {0}, TypeOK, AllFit(R), [Next]_vars,
           R = 1 + MaxStalled \/ mishaps' = mishaps
    PROVE  AllFit(R)'
<1>1. /\ updates \in Seq(UpdateJob) /\ active \in [Workers -> ActiveJob \cup {NoJob}]
      /\ \A i \in 1..Len(updates) : Fit(R, updates[i])
      /\ \A w \in Workers : active[w] # NoJob => Fit(R, active[w])
  BY DEF TypeOK, AllFit
<1>2. CASE updates' = updates /\ active' = active
  BY <1>2 DEF AllFit
<1>3. ASSUME NEW n \in Nodes, QueueUpdates(n) PROVE AllFit(R)'
  <2>1. PICK chunk \in SUBSET rec[n].listed : updates' = Append(updates,
              [inc |-> [v \in Users |-> IF v \in chunk THEN Billed(n, rec[n].batch[v]) ELSE 0],
               for |-> chunk, stalls |-> 0])
    BY <1>3 DEF QueueUpdates
  <2>2. PICK j : j = [inc |-> [v \in Users |->
                                  IF v \in chunk THEN Billed(n, rec[n].batch[v]) ELSE 0],
                      for |-> chunk, stalls |-> 0]
    OBVIOUS
  <2>3. Fit(R, j)
    <3>1. j.stalls < R
      BY <2>2
    <3>2. \A v \in Users : v \in j.for \/ j.inc[v] = 0
      BY <2>2
    <3>. QED
      BY <3>1, <3>2 DEF Fit, Names
  <2>4. updates' = Append(updates, j) /\ active' = active
    BY <1>3, <2>1, <2>2 DEF QueueUpdates
  <2>5. ASSUME NEW i \in 1..Len(updates') PROVE Fit(R, updates'[i])
    <3>1. (i \in 1..Len(updates) /\ updates'[i] = updates[i]) \/ updates'[i] = j
      BY <1>1, <2>4
    <3>. QED
      BY <1>1, <2>3, <3>1
  <2>. QED
    BY <1>1, <2>4, <2>5 DEF AllFit
<1>4. ASSUME NEW w \in Workers, StartUpdate(w) PROVE AllFit(R)'
  <2>1. /\ updates # <<>> /\ updates' = Tail(updates)
        /\ active' = [active EXCEPT ![w] =
              [inc |-> Head(updates).inc, for |-> Head(updates).for,
               stalls |-> Head(updates).stalls, written |-> FALSE, first |-> {}]]
    BY <1>4 DEF StartUpdate
  <2>2. Fit(R, Head(updates))
    <3>1. 1 \in 1..Len(updates) /\ Head(updates) = updates[1]
      BY <1>1, <2>1
    <3>. QED
      BY <1>1, <3>1
  <2>3. ASSUME NEW i \in 1..Len(updates') PROVE Fit(R, updates'[i])
    <3>1. i + 1 \in 1..Len(updates) /\ updates'[i] = updates[i + 1]
      BY <1>1, <2>1
    <3>. QED
      BY <1>1, <3>1
  <2>4. Fit(R, active'[w])
    <3>1. /\ active'[w].inc = Head(updates).inc /\ active'[w].for = Head(updates).for
          /\ active'[w].stalls = Head(updates).stalls
      BY <1>1, <2>1
    <3>. QED
      BY <2>2, <3>1, FitMoves
  <2>5. \A v \in Workers : v = w \/ active'[v] = active[v]
    BY <1>1, <2>1
  <2>. QED
    BY <1>1, <2>3, <2>4, <2>5 DEF AllFit
<1>5. ASSUME NEW w \in Workers, WriteUpdate(w) PROVE AllFit(R)'
  <2>1. active[w] \in ActiveJob /\ active[w] # NoJob
    BY <1>1, <1>5 DEF WriteUpdate
  <2>2. /\ active'[w].inc = active[w].inc /\ active'[w].for = active[w].for
        /\ active'[w].stalls = active[w].stalls
    BY <1>1, <1>5, <2>1 DEF WriteUpdate, ActiveJob
  <2>3. Fit(R, active'[w])
    BY <1>1, <2>1, <2>2, FitMoves
  <2>4. \A v \in Workers : v = w \/ active'[v] = active[v]
    BY <1>1, <1>5 DEF WriteUpdate
  <2>5. updates' = updates
    BY <1>5 DEF WriteUpdate
  <2>. QED
    BY <1>1, <2>3, <2>4, <2>5 DEF AllFit
<1>6. ASSUME NEW w \in Workers, FinishUpdate(w) \/ UpdateFails(w) PROVE AllFit(R)'
  <2>1. updates' = updates /\ active' = [active EXCEPT ![w] = NoJob]
    BY <1>6 DEF FinishUpdate, UpdateFails
  <2>2. \A v \in Workers : active'[v] # NoJob => active'[v] = active[v]
    BY <1>1, <2>1
  <2>. QED
    BY <1>1, <2>1, <2>2 DEF AllFit
<1>7. ASSUME NEW w \in Workers, CrashUpdate(w) PROVE AllFit(R)'
  <2>1. /\ active' = [active EXCEPT ![w] = NoJob]
        /\ updates' = IF active[w].stalls < MaxStalled
                      THEN <<[inc |-> active[w].inc, for |-> active[w].for,
                              stalls |-> active[w].stalls + 1]>> \o updates
                      ELSE updates
    BY <1>7 DEF CrashUpdate
  <2>2. active[w] \in ActiveJob /\ active[w].stalls \in Nat /\ Fit(R, active[w])
    BY <1>1, <1>7 DEF CrashUpdate, ActiveJob
  <2>3. \A v \in Workers : active'[v] # NoJob => active'[v] = active[v]
    BY <1>1, <2>1
  <2>4. R = 1 + MaxStalled /\ MaxStalled \in Nat
    BY <1>7, MishapIsSeen, UsageAssumption DEF CrashUpdate
  <2>5. CASE active[w].stalls < MaxStalled
    <3>1. PICK j : j = [inc |-> active[w].inc, for |-> active[w].for,
                        stalls |-> active[w].stalls + 1]
      OBVIOUS
    <3>2. updates' = <<j>> \o updates
      BY <2>1, <2>5, <3>1
    <3>3. Fit(R, j)
      <4>1. j.stalls < R
        BY <2>2, <2>4, <2>5, <3>1
      <4>2. \A v \in Users : v \in j.for \/ j.inc[v] = 0
        BY <2>2, <3>1 DEF Fit, Names
      <4>. QED
        BY <4>1, <4>2 DEF Fit, Names
    <3>4. ASSUME NEW i \in 1..Len(updates') PROVE Fit(R, updates'[i])
      <4>1. Len(updates') = Len(updates) + 1 /\ Len(updates) \in Nat
        BY <1>1, <3>2
      <4>2. updates'[i] = IF i <= 1 THEN <<j>>[i] ELSE updates[i - 1]
        BY <1>1, <3>2, <4>1
      <4>3. i \in 1..(Len(updates) + 1)
        BY <4>1
      <4>4. i = 1 \/ (i - 1 \in 1..Len(updates) /\ ~(i <= 1))
        BY <4>1, <4>3
      <4>5. updates'[i] = j \/ (i - 1 \in 1..Len(updates) /\ updates'[i] = updates[i - 1])
        BY <4>2, <4>4
      <4>. QED
        BY <1>1, <3>3, <4>5
    <3>. QED
      BY <1>1, <2>3, <3>4 DEF AllFit
  <2>6. CASE ~(active[w].stalls < MaxStalled)
    <3>1. updates' = updates
      BY <2>1, <2>6
    <3>. QED
      BY <1>1, <2>3, <3>1 DEF AllFit
  <2>. QED
    BY <2>5, <2>6
<1>8. ASSUME NEW n \in Nodes, RecordStep(n), ~QueueUpdates(n)
      PROVE  updates' = updates /\ active' = active
  BY <1>8 DEF RecordStep, QueueRecord, FetchStats, FetchFails, CacheUsage,
              SchedulePush, RecordFails, CrashRecord
<1>9. ASSUME NEW n \in Nodes, PushStep(n) PROVE updates' = updates /\ active' = active
  BY <1>9 DEF PushStep, StartPush, SkipPush, RenameHash, UpsertBatch, FinishPush,
              PushFails, CrashPush, ExpireHash
<1>10. ASSUME NEW n \in Nodes, RestartXray(n) PROVE updates' = updates /\ active' = active
  BY <1>10 DEF RestartXray
<1>11. ASSUME NEW n \in Nodes, NEW u \in Users, Transfer(n, u)
       PROVE  updates' = updates /\ active' = active
  BY <1>11 DEF Transfer
<1>12. ASSUME NEW u \in Users, ResetTraffic(u) \/ DeleteUser(u)
       PROVE  updates' = updates /\ active' = active
  BY <1>12 DEF ResetTraffic, DeleteUser
<1>13. CASE TruncateHistory
  BY <1>2, <1>13 DEF TruncateHistory
<1>14. CASE UNCHANGED vars
  BY <1>2, <1>14 DEF vars
<1>. QED
  BY <1>2, <1>3, <1>4, <1>5, <1>6, <1>7, <1>8, <1>9, <1>10, <1>11, <1>12, <1>13, <1>14
  DEF Next, UpdateStep

(* Bytes that are counted and sent at once are not answered for yet.         *)
LEMMA TransferAnswers ==
    ASSUME NEW R \in Nat \ {0}, TypeOK, CounterBelow, NEW u \in Users,
           NEW n \in Nodes, NEW v \in Users, Transfer(n, v)
    PROVE  Answered(R, u)' = Answered(R, u) /\ Rounded(u)' = Rounded(u)
<1>1. /\ generated \in [Nodes -> Bytes] /\ counter \in [Nodes -> Bytes]
      /\ generated' = [generated EXCEPT ![n][v] = @ + 1]
      /\ counter' = [counter EXCEPT ![n][v] = @ + 1]
  BY DEF Transfer, TypeOK
<1>2. ASSUME NEW m \in Nodes
      PROVE  generated'[m][u] - counter'[m][u] = generated[m][u] - counter[m][u]
  <2>1. generated[m] \in [Users -> Nat] /\ counter[m] \in [Users -> Nat]
    BY <1>1 DEF Bytes
  <2>2. generated[m][u] \in Nat /\ counter[m][u] \in Nat
    BY <2>1
  <2>3. CASE m = n /\ u = v
    <3>1. generated'[m][u] = generated[m][u] + 1 /\ counter'[m][u] = counter[m][u] + 1
      BY <1>1, <2>1, <2>3
    <3>. QED
      BY <2>2, <3>1
  <2>4. CASE ~(m = n /\ u = v)
    <3>1. generated'[m][u] = generated[m][u] /\ counter'[m][u] = counter[m][u]
      BY <1>1, <2>1, <2>4
    <3>. QED
      BY <3>1
  <2>. QED
    BY <2>3, <2>4
<1>. QED
  BY <1>2, AnsweredSame

(* What the nodes have answered for never shrinks, and grows only with a      *)
(* report or a mishap.                                                      *)
LEMMA AnswersStep ==
    ASSUME NEW R \in Nat \ {0}, TypeOK, CounterBelow, NEW u \in Users, [Next]_vars,
           \A n \in Nodes : ~FetchStats(n)
    PROVE  /\ Answered(R, u)' \in Nat /\ Answered(R, u)' >= Answered(R, u)
           /\ mishaps' = mishaps
                => Answered(R, u)' = Answered(R, u) /\ Rounded(u)' = Rounded(u)
<1> DEFINE Same == Answered(R, u)' = Answered(R, u) /\ Rounded(u)' = Rounded(u)
<1>1. Answered(R, u) \in Nat
  BY AnsweredType
<1>2. (generated' = generated /\ counter' = counter) => Same
  BY AnsweredSame
<1>3. ASSUME NEW n \in Nodes, generated' = generated,
             counter' = [counter EXCEPT ![n] = Zero]
      PROVE  Answered(R, u)' \in Nat /\ Answered(R, u)' >= Answered(R, u)
  <2>1. /\ Answered(R, u)' \in Nat /\ R * Billed(n, counter[n][u]) \in Nat
        /\ Answered(R, u) + R * Billed(n, counter[n][u]) <= Answered(R, u)'
    BY <1>3, AnsweredForgets
  <2>. QED
    BY <1>1, <2>1
<1>4. ASSUME NEW n \in Nodes, RecordStep(n), ~FetchFails(n)
      PROVE  generated' = generated /\ counter' = counter
  BY <1>4 DEF RecordStep, QueueRecord, CacheUsage, QueueUpdates, SchedulePush, RecordFails,
              CrashRecord, nodeVars
<1>5. ASSUME NEW n \in Nodes, FetchFails(n)
      PROVE  /\ generated' = generated
             /\ \/ counter' = counter
                \/ mishaps' # mishaps /\ counter' = [counter EXCEPT ![n] = Zero]
  BY <1>5, MishapIsSeen DEF FetchFails
<1>6. ASSUME NEW n \in Nodes, PushStep(n) PROVE generated' = generated /\ counter' = counter
  BY <1>6 DEF PushStep, StartPush, SkipPush, RenameHash, UpsertBatch, FinishPush,
              PushFails, CrashPush, ExpireHash, nodeVars
<1>7. ASSUME NEW n \in Nodes, RestartXray(n)
      PROVE  /\ generated' = generated /\ mishaps' # mishaps
             /\ counter' = [counter EXCEPT ![n] = Zero]
  BY <1>7, MishapIsSeen DEF RestartXray
<1>8. ASSUME NEW w \in Workers, UpdateStep(w)
      PROVE  generated' = generated /\ counter' = counter
  BY <1>8 DEF UpdateStep, StartUpdate, WriteUpdate, FinishUpdate, UpdateFails, CrashUpdate,
              nodeVars
<1>9. ASSUME NEW v \in Users, ResetTraffic(v) \/ DeleteUser(v)
      PROVE  generated' = generated /\ counter' = counter
  BY <1>9 DEF ResetTraffic, DeleteUser, nodeVars
<1>10. (TruncateHistory \/ UNCHANGED vars) => generated' = generated /\ counter' = counter
  BY DEF TruncateHistory, vars, nodeVars
<1>11. ASSUME NEW n \in Nodes, NEW v \in Users, Transfer(n, v) PROVE Same
  BY <1>11, TransferAnswers
<1>12. Same => Answered(R, u)' \in Nat /\ Answered(R, u)' >= Answered(R, u)
  BY <1>1
<1>13. \/ Same
       \/ \E n \in Nodes : /\ generated' = generated /\ mishaps' # mishaps
                           /\ counter' = [counter EXCEPT ![n] = Zero]
  <2> HIDE DEF Same
  <2>. QED
    BY <1>2, <1>4, <1>5, <1>6, <1>7, <1>8, <1>9, <1>10, <1>11 DEF Next
<1>. QED
  BY <1>3, <1>12, <1>13

(* What is due grows with no other step than a report, and shrinks only with *)
(* a mishap.                                                                *)
LEMMA DueStep ==
    ASSUME NEW R \in Nat \ {0}, TypeOK, TypeOK', Bounded(R), Bounded(R)', NEW u \in Users,
           [Next]_vars, \A n \in Nodes : ~FetchStats(n)
    PROVE  /\ Due(R, u)' <= Due(R, u)
           /\ mishaps' = mishaps /\ R = 1 /\ Named /\ alive = Users
                => Due(R, u)' = Due(R, u)
<1>1. /\ lifetime[u] \in Nat /\ Running(R, active, u) \in Nat
      /\ Queued(R, updates, u) \in Nat /\ Reported(R, rec, u) \in Nat
      /\ lifetime \in [Users -> Nat]
  BY DueTypes DEF TypeOK, Bytes
<1>2. ASSUME rec' = rec, updates' = updates, active' = active, lifetime'[u] <= lifetime[u],
             lifetime'[u] \in Nat
      PROVE  /\ Due(R, u)' <= Due(R, u)
             /\ lifetime'[u] = lifetime[u] => Due(R, u)' = Due(R, u)
  <2>1. Due(R, u)' = lifetime'[u] + Running(R, active, u) + Queued(R, updates, u)
                     + Reported(R, rec, u)
    BY <1>2 DEF Due
  <2>. QED
    BY <1>1, <1>2, <2>1 DEF Due
<1>3. ASSUME rec' = rec, updates' = updates, active' = active, lifetime' = lifetime
      PROVE  Due(R, u)' <= Due(R, u) /\ Due(R, u)' = Due(R, u)
  BY <1>1, <1>2, <1>3
<1>4. ASSUME NEW n \in Nodes, RecordStep(n)
      PROVE  /\ Due(R, u)' <= Due(R, u)
             /\ mishaps' = mishaps => Due(R, u)' = Due(R, u)
  BY <1>4, RecordMoves
<1>5. ASSUME NEW n \in Nodes, PushStep(n) \/ RestartXray(n)
      PROVE  Due(R, u)' <= Due(R, u) /\ Due(R, u)' = Due(R, u)
  <2>1. rec' = rec /\ updates' = updates /\ active' = active /\ lifetime' = lifetime
    BY <1>5 DEF PushStep, StartPush, SkipPush, RenameHash, UpsertBatch, FinishPush,
                PushFails, CrashPush, ExpireHash, RestartXray, userVars
  <2>. QED
    BY <1>3, <2>1
<1>6. ASSUME NEW n \in Nodes, NEW v \in Users, Transfer(n, v)
      PROVE  Due(R, u)' <= Due(R, u) /\ Due(R, u)' = Due(R, u)
  <2>1. rec' = rec /\ updates' = updates /\ active' = active /\ lifetime' = lifetime
    BY <1>6 DEF Transfer, userVars
  <2>. QED
    BY <1>3, <2>1
<1>7. ASSUME NEW w \in Workers, UpdateStep(w)
      PROVE  /\ Due(R, u)' <= Due(R, u)
             /\ mishaps' = mishaps /\ R = 1 /\ Named /\ alive = Users
                  => Due(R, u)' = Due(R, u)
  BY <1>7, UpdateMoves
<1>8. ASSUME NEW v \in Users, ResetTraffic(v)
      PROVE  Due(R, u)' <= Due(R, u) /\ Due(R, u)' = Due(R, u)
  <2>1. rec' = rec /\ updates' = updates /\ active' = active /\ lifetime' = lifetime
    BY <1>8 DEF ResetTraffic
  <2>. QED
    BY <1>3, <2>1
<1>9. ASSUME NEW v \in Users, DeleteUser(v)
      PROVE  Due(R, u)' <= Due(R, u) /\ mishaps' # mishaps
  <2>1. rec' = rec /\ updates' = updates /\ active' = active /\ mishaps' # mishaps
    BY <1>9, MishapIsSeen DEF DeleteUser
  <2>2. lifetime'[u] <= lifetime[u] /\ lifetime'[u] \in Nat
    BY <1>1, <1>9 DEF DeleteUser
  <2>. QED
    BY <1>2, <2>1, <2>2
<1>10. CASE TruncateHistory \/ UNCHANGED vars
  <2>1. rec' = rec /\ updates' = updates /\ active' = active /\ lifetime' = lifetime
    BY <1>10 DEF TruncateHistory, vars, userVars
  <2>. QED
    BY <1>3, <2>1
<1>. QED
  BY <1>4, <1>5, <1>6, <1>7, <1>8, <1>9, <1>10 DEF Next

LEMMA CounterIsBelow == TypeOK /\ CountedAtMostOnce => CounterBelow
<1>. SUFFICES ASSUME TypeOK, CountedAtMostOnce, NEW n \in Nodes, NEW u \in Users
              PROVE  counter[n][u] <= generated[n][u]
  BY DEF CounterBelow
<1>1. Accounted(n, u) <= generated[n][u]
  BY DEF CountedAtMostOnce
<1>. QED
  BY <1>1, PartTypes DEF Accounted

(* What is due to a user, every run of its jobs counted, is within what the   *)
(* nodes have answered for.                                                 *)
BillInv(R) == AllFit(R) /\ \A u \in Users : Due(R, u) <= Answered(R, u)

LEMMA DueType ==
    ASSUME NEW R \in Nat \ {0}, TypeOK, AllFit(R), NEW u \in Users
    PROVE  Due(R, u) \in Nat
BY AllFitIs, DueTypes DEF Due

LEMMA DueTypeNext ==
    ASSUME NEW R \in Nat \ {0}, TypeOK', Bounded(R)', NEW u \in Users
    PROVE  Due(R, u)' \in Nat
<1>1. /\ lifetime'[u] \in Nat /\ updates' \in Seq(UpdateJob)
      /\ rec' \in [Nodes -> [state : RecState, batch : Bytes, listed : SUBSET Users]]
      /\ \A w \in Workers : active'[w] \in ActiveJob \cup {NoJob}
      /\ \A i \in 1..Len(updates') : updates'[i].stalls < R
      /\ \A w \in Workers : active'[w] # NoJob => active'[w].stalls < R
  BY DEF TypeOK, Bytes, Bounded
<1>2. Running(R, active', u) \in Nat
  <2>1. PICK f : f = [w \in Workers |-> JobDue(R, active'[w], u)]
    OBVIOUS
  <2>2. \A w \in Workers : f[w] \in Nat
    BY <1>1, <2>1, JobDueType
  <2>3. Tally(f, Workers) \in Nat
    BY <2>2, UnitsFinite, UsageAssumption
  <2>. QED
    BY <2>1, <2>3 DEF Running
<1>3. Queued(R, updates', u) \in Nat
  BY <1>1, QueuedType
<1>4. Reported(R, rec', u) \in Nat
  <2>1. PICK f : f = [n \in Nodes |-> R * Billed(n, Unqueued(rec'[n], u))]
    OBVIOUS
  <2>2. \A n \in Nodes : f[n] \in Nat
    BY <1>1, <2>1, UnqueuedType
  <2>3. Tally(f, Nodes) \in Nat
    BY <2>2, UnitsFinite, UsageAssumption
  <2>. QED
    BY <2>1, <2>3 DEF Reported
<1>5. Due(R, u)' = lifetime'[u] + Running(R, active', u) + Queued(R, updates', u)
                   + Reported(R, rec', u)
  BY DEF Due
<1>. QED
  BY <1>1, <1>2, <1>3, <1>4, <1>5

LEMMA BillStep ==
    ASSUME NEW R \in Nat \ {0}, TypeOK, TypeOK', CounterBelow, BillInv(R), [Next]_vars,
           R = 1 + MaxStalled \/ mishaps' = mishaps
    PROVE  BillInv(R)'
<1>1. Bounded(R) /\ Bounded(R)' /\ Named /\ AllFit(R) /\ AllFit(R)'
  <2>1. AllFit(R) /\ AllFit(R)'
    BY FitStep DEF BillInv
  <2>2. Bounded(R)' /\ Named'
    BY <2>1 DEF AllFit, Fit, Bounded, Named
  <2>. QED
    BY <2>1, <2>2, AllFitIs
<1>. SUFFICES ASSUME NEW u \in Users PROVE Due(R, u)' <= Answered(R, u)'
  BY <1>1 DEF BillInv
<1>2. /\ Due(R, u) <= Answered(R, u)
      /\ Due(R, u) \in Nat /\ Answered(R, u) \in Nat
  BY <1>1, DueType, AnsweredType DEF BillInv
<1>3. CASE \A n \in Nodes : ~FetchStats(n)
  <2>1. Due(R, u)' <= Due(R, u)
    BY <1>1, <1>3, DueStep
  <2>2. Answered(R, u)' \in Nat /\ Answered(R, u)' >= Answered(R, u)
    BY <1>3, AnswersStep
  <2>3. Due(R, u)' \in Nat
    BY <1>1, DueTypeNext
  <2>. QED
    BY <1>2, <2>1, <2>2, <2>3
<1>4. CASE \E n \in Nodes : FetchStats(n)
  <2>1. PICK n \in Nodes : FetchStats(n)
    BY <1>4
  <2>2. PICK y \in Nat : /\ y <= counter[n][u] /\ R * Billed(n, y) \in Nat
                         /\ Due(R, u)' = Due(R, u) + R * Billed(n, y)
    BY <1>1, <2>1, FetchMoves
  <2>3. generated' = generated /\ counter' = [counter EXCEPT ![n] = Zero]
    BY <2>1 DEF FetchStats
  <2>4. /\ Answered(R, u)' \in Nat /\ R * Billed(n, counter[n][u]) \in Nat
        /\ Answered(R, u) + R * Billed(n, counter[n][u]) <= Answered(R, u)'
    BY <2>3, AnsweredForgets
  <2>5. R * Billed(n, y) <= R * Billed(n, counter[n][u])
    <3>1. counter[n][u] \in Nat
      BY DEF TypeOK, Bytes
    <3>2. /\ Billed(n, y) <= Billed(n, counter[n][u])
          /\ Billed(n, y) \in Nat /\ Billed(n, counter[n][u]) \in Nat
      BY <2>2, <3>1, BilledOrder, BilledType
    <3>. QED
      BY <3>2, TimesOrder
  <2>. QED
    BY <1>2, <2>2, <2>4, <2>5
<1>. QED
  BY <1>3, <1>4

LEMMA NothingAtFirst ==
    ASSUME NEW R \in Nat \ {0}, Init, NEW u \in Users
    PROVE  /\ Due(R, u) = 0 /\ AllFit(R) /\ CounterBelow /\ TypeOK
           /\ Answered(R, u) = 0 /\ Rounded(u) = 0
<1>1. TypeOK
  BY InitType
<1>2. CounterBelow /\ AllFit(R)
  BY DEF Init, CounterBelow, Zero, AllFit
<1>3. /\ \A w \in Workers : JobDue(R, active[w], u) = 0
      /\ \A n \in Nodes : Unqueued(rec[n], u) = 0
      /\ \A n \in Nodes : generated[n][u] = 0 /\ counter[n][u] = 0
      /\ lifetime[u] = 0 /\ Len(updates) = 0
  BY DEF Init, JobDue, Unqueued, IdleRec, EmptyRec, Zero
<1>4. \A f, D : (\A d \in D : f[d] = 0) => Tally(f, D) = 0
  <2>. SUFFICES ASSUME NEW f, NEW D, \A d \in D : f[d] = 0 PROVE Tally(f, D) = 0
    OBVIOUS
  <2>1. Units(f, D) = {}
    BY DEF Units
  <2>. QED
    BY <2>1, FS_EmptySet DEF Tally
<1>5. Running(R, active, u) = 0
  <2>1. PICK f : f = [w \in Workers |-> JobDue(R, active[w], u)]
    OBVIOUS
  <2>2. \A w \in Workers : f[w] = 0
    BY <1>3, <2>1
  <2>. QED
    BY <1>4, <2>1, <2>2 DEF Running
<1>6. Queued(R, updates, u) = 0
  <2>1. 1..Len(updates) = {}
    BY <1>3
  <2>. QED
    BY <2>1, TallyOfNone DEF Queued
<1>7. \A n \in Nodes : R * Billed(n, 0) = 0 /\ Rounding(n, 0) = 0
  <2>1. R * 0 = 0
    OBVIOUS
  <2>. QED
    BY <2>1, BilledNothing DEF Rounding
<1>8. Reported(R, rec, u) = 0
  <2>1. PICK f : f = [n \in Nodes |-> R * Billed(n, Unqueued(rec[n], u))]
    OBVIOUS
  <2>2. \A n \in Nodes : f[n] = 0
    BY <1>3, <1>7, <2>1
  <2>. QED
    BY <1>4, <2>1, <2>2 DEF Reported
<1>9. \A n \in Nodes : generated[n][u] - counter[n][u] = 0
  BY <1>3
<1>10. Answered(R, u) = 0
  <2>1. PICK f : f = [n \in Nodes |-> R * Billed(n, generated[n][u] - counter[n][u])]
    OBVIOUS
  <2>2. \A n \in Nodes : f[n] = 0
    BY <1>7, <1>9, <2>1
  <2>. QED
    BY <1>4, <2>1, <2>2 DEF Answered, Sent
<1>11. Rounded(u) = 0
  <2>1. PICK f : f = [n \in Nodes |-> Rounding(n, generated[n][u] - counter[n][u])]
    OBVIOUS
  <2>2. \A n \in Nodes : f[n] = 0
    BY <1>7, <1>9, <2>1
  <2>. QED
    BY <1>4, <2>1, <2>2 DEF Rounded
<1>12. Due(R, u) = 0
  BY <1>3, <1>5, <1>6, <1>8 DEF Due
<1>. QED
  BY <1>1, <1>2, <1>10, <1>11, <1>12

LEMMA BillInit ==
    ASSUME NEW R \in Nat \ {0}, Init
    PROVE  BillInv(R)
<1>1. AllFit(R)
  BY DEF Init, AllFit
<1>. QED
  BY <1>1, NothingAtFirst DEF BillInv

LEMMA BillEnough ==
    ASSUME NEW R \in Nat \ {0}, R = 1 + MaxStalled, TypeOK, CounterBelow, BillInv(R)
    PROVE  BilledPerRun
<1>. SUFFICES ASSUME NEW u \in Users
              PROVE  lifetime[u] <= (1 + MaxStalled)
                       * SumFunction([n \in Nodes |-> Billed(n, generated[n][u])])
  BY DEF BilledPerRun
<1>1. /\ generated \in [Nodes -> Bytes] /\ counter \in [Nodes -> Bytes]
      /\ \A m \in Nodes : counter[m][u] <= generated[m][u]
      /\ \A m \in Nodes : generated[m][u] \in Nat /\ counter[m][u] \in Nat
  BY DEF TypeOK, CounterBelow, Bytes
<1>2. PICK f : f = [n \in Nodes |-> Billed(n, generated[n][u])]
  OBVIOUS
<1>3. f \in [Nodes -> Nat] /\ IsFiniteSet(Nodes)
  BY <1>1, <1>2, BilledType, UsageAssumption
<1>4. PICK g : g = [n \in Nodes |-> R * f[n]]
  OBVIOUS
<1>5. Tally(g, Nodes) = R * SumFunction(f)
  BY <1>3, <1>4, SumIsTally
<1>6. PICK h : h = [n \in Nodes |-> R * Billed(n, generated[n][u] - counter[n][u])]
  OBVIOUS
<1>7. \A n \in Nodes : h[n] \in Nat /\ g[n] \in Nat /\ h[n] <= g[n]
  <2>. SUFFICES ASSUME NEW n \in Nodes
                PROVE  h[n] \in Nat /\ g[n] \in Nat /\ h[n] <= g[n]
    OBVIOUS
  <2>1. PICK x \in Nat : x = generated[n][u] - counter[n][u] /\ x <= generated[n][u]
    BY <1>1
  <2>2. PICK y \in Nat : y = generated[n][u]
    BY <1>1
  <2>3. Billed(n, x) \in Nat /\ Billed(n, y) \in Nat /\ Billed(n, x) <= Billed(n, y)
    BY <2>1, <2>2, BilledOrder, BilledType
  <2>4. h[n] = R * Billed(n, x) /\ g[n] = R * Billed(n, y)
    BY <1>2, <1>4, <1>6, <2>1, <2>2
  <2>. QED
    BY <2>3, <2>4, TimesOrder, TimesType
<1>8. Tally(h, Nodes) <= Tally(g, Nodes)
  BY <1>3, <1>7, TallyLeq
<1>9. Answered(R, u) = Tally(h, Nodes)
  BY <1>6 DEF Answered, Sent
<1>10. lifetime[u] <= Answered(R, u) /\ lifetime[u] \in Nat
  <2>1. /\ lifetime[u] \in Nat /\ Running(R, active, u) \in Nat
        /\ Queued(R, updates, u) \in Nat /\ Reported(R, rec, u) \in Nat
    BY AllFitIs, DueTypes DEF BillInv
  <2>2. Due(R, u) <= Answered(R, u) /\ Answered(R, u) \in Nat
    BY AnsweredType DEF BillInv
  <2>. QED
    BY <2>1, <2>2 DEF Due
<1>11. Tally(h, Nodes) \in Nat /\ Tally(g, Nodes) \in Nat
  BY <1>3, <1>7, UnitsFinite
<1>. QED
  BY <1>2, <1>5, <1>8, <1>9, <1>10, <1>11

(* However often jobs stall and run again, and however reports of a user    *)
(* are split, delayed or lost, its lifetime traffic stays within 1 +        *)
(* MaxStalled times the multiplied bytes of all the nodes.                  *)
THEOREM BilledOncePerRun == Spec => []BilledPerRun
<1> DEFINE R == 1 + MaxStalled
<1>1. R \in Nat \ {0}
  BY UsageAssumption
<1>2. Init => BillInv(R)
  BY <1>1, BillInit
<1>3. TypeOK /\ TypeOK' /\ CountedAtMostOnce /\ BillInv(R) /\ [Next]_vars => BillInv(R)'
  BY <1>1, BillStep, CounterIsBelow
<1>4. TypeOK /\ CountedAtMostOnce /\ BillInv(R) => BilledPerRun
  BY <1>1, BillEnough, CounterIsBelow
<1> HIDE DEF R
<1>. QED
  BY <1>2, <1>3, <1>4, TypeCorrect, CountedOnce, PTL DEF Spec

(* With no mishap so far, what is due is what was answered for, but for what  *)
(* is rounded away.                                                         *)
MatchInv ==
    mishaps = 0 /\ IgnoreBelow <= 1 =>
        /\ BillInv(1)
        /\ \A u \in Users : Answered(1, u) <= Due(1, u) + Rounded(u)

LEMMA MishapsStay ==
    ASSUME TypeOK, [Next]_vars, mishaps' = 0
    PROVE  mishaps = 0 /\ mishaps' = mishaps
<1>1. StepShape => mishaps' = mishaps
  BY DEF StepShape, TypeOK
<1>2. ASSUME NEW n \in Nodes, NEW u \in Users, Transfer(n, u) PROVE mishaps' = mishaps
  BY <1>2 DEF Transfer
<1>. QED
  BY <1>1, <1>2, StepShapes

LEMMA MatchFetch ==
    ASSUME TypeOK, TypeOK', CounterBelow, AllFit(1), IgnoreBelow <= 1, NEW u \in Users,
           NEW n \in Nodes, FetchStats(n), Answered(1, u) <= Due(1, u) + Rounded(u)
    PROVE  Answered(1, u)' <= Due(1, u)' + Rounded(u)'
<1>1. 1 \in Nat \ {0} /\ Bounded(1)
  BY AllFitIs
<1>2. PICK c \in Nat : c = counter[n][u]
  BY DEF TypeOK, Bytes
<1>3. PICK x \in Nat : x = generated[n][u] - counter[n][u] /\ generated[n][u] = x + c
  <2>1. generated[n][u] \in Nat /\ counter[n][u] <= generated[n][u]
    BY DEF TypeOK, Bytes, CounterBelow
  <2>. QED
    BY <1>2, <2>1
<1>4. generated' = generated /\ counter' = [counter EXCEPT ![n] = Zero]
  BY DEF FetchStats
<1>5. Due(1, u)' = Due(1, u) + 1 * Billed(n, c)
  BY <1>1, <1>2, FetchMoves
<1>6. /\ Answered(1, u) \in Nat /\ Answered(1, u)' \in Nat
      /\ Answered(1, u)' + 1 * Billed(n, x) = Answered(1, u) + 1 * Billed(n, x + c)
  BY <1>1, <1>3, <1>4, AnsweredForgets
<1>7. /\ Rounded(u) \in Nat /\ Rounded(u)' \in Nat
      /\ Rounded(u)' + Rounding(n, x) = Rounded(u) + Rounding(n, x + c)
  BY <1>3, <1>4, RoundedForgets
<1>8. /\ Rounding(n, x) \in Nat /\ Rounding(n, x + c) \in Nat
      /\ Billed(n, x + c) + Rounding(n, x)
            <= Billed(n, x) + Billed(n, c) + Rounding(n, x + c)
  BY BilledSplits
<1>9. Billed(n, x) \in Nat /\ Billed(n, c) \in Nat /\ Billed(n, x + c) \in Nat
  BY BilledType
<1>10. Due(1, u) \in Nat
  BY <1>1, DueType
<1>11. \A b \in Nat : 1 * b = b
  OBVIOUS
<1>12. Answered(1, u)' + Billed(n, x) = Answered(1, u) + Billed(n, x + c)
  BY <1>6, <1>9, <1>11
<1>13. Due(1, u)' = Due(1, u) + Billed(n, c)
  BY <1>5, <1>9, <1>11
<1>. QED
  BY <1>6, <1>7, <1>8, <1>9, <1>10, <1>12, <1>13

LEMMA MatchStep ==
    TypeOK /\ TypeOK' /\ CounterBelow /\ AliveInv /\ MatchInv /\ [Next]_vars => MatchInv'
<1>. SUFFICES ASSUME TypeOK, TypeOK', CounterBelow, AliveInv, MatchInv, [Next]_vars,
                     mishaps' = 0, IgnoreBelow <= 1
              PROVE  /\ BillInv(1)'
                     /\ \A u \in Users : Answered(1, u)' <= Due(1, u)' + Rounded(u)'
  BY DEF MatchInv
<1>1. mishaps = 0 /\ mishaps' = mishaps /\ alive = Users
  BY MishapsStay DEF AliveInv
<1>2. /\ BillInv(1) /\ AllFit(1)
      /\ \A u \in Users : Answered(1, u) <= Due(1, u) + Rounded(u)
  BY <1>1 DEF MatchInv, BillInv
<1>3. BillInv(1)' /\ AllFit(1)'
  <2>1. BillInv(1)'
    BY <1>1, <1>2, BillStep
  <2>. QED
    BY <2>1 DEF BillInv
<1>4. Bounded(1) /\ Named /\ Bounded(1)'
  BY <1>2, <1>3, AllFitIs DEF AllFit, Fit, Bounded
<1>5. ASSUME NEW u \in Users PROVE Answered(1, u)' <= Due(1, u)' + Rounded(u)'
  <2>1. CASE \E n \in Nodes : FetchStats(n)
    BY <1>2, <2>1, MatchFetch
  <2>2. CASE \A n \in Nodes : ~FetchStats(n)
    <3>1. Answered(1, u)' = Answered(1, u) /\ Rounded(u)' = Rounded(u)
      BY <1>1, <2>2, AnswersStep
    <3>2. Due(1, u)' = Due(1, u)
      BY <1>1, <1>4, <2>2, DueStep
    <3>. QED
      BY <1>2, <3>1, <3>2
  <2>. QED
    BY <2>1, <2>2
<1>. QED
  BY <1>3, <1>5

LEMMA MatchInit == Init => MatchInv
<1>. SUFFICES ASSUME Init PROVE MatchInv
  OBVIOUS
<1>1. BillInv(1)
  BY BillInit
<1>2. \A u \in Users : Answered(1, u) <= Due(1, u) + Rounded(u)
  BY NothingAtFirst
<1>. QED
  BY <1>1, <1>2 DEF MatchInv

(* While no job has stalled, what is due is what is billed and unbilled.    *)
LEMMA UnbilledIsDue ==
    ASSUME TypeOK, AllFit(1), NEW u \in Users
    PROVE  lifetime[u] + Unbilled(u) = Due(1, u)
<1>1. /\ lifetime[u] \in Nat /\ Running(1, active, u) \in Nat
      /\ Queued(1, updates, u) \in Nat /\ Reported(1, rec, u) \in Nat
  BY AllFitIs, DueTypes
<1>2. /\ updates \in Seq(UpdateJob) /\ active \in [Workers -> ActiveJob \cup {NoJob}]
      /\ \A i \in 1..Len(updates) : updates[i].stalls < 1
      /\ \A w \in Workers : active[w] # NoJob => active[w].stalls < 1
      /\ rec \in [Nodes -> [state : RecState, batch : Bytes, listed : SUBSET Users]]
  BY AllFitIs DEF TypeOK, Bounded
<1>3. SumFunction([n \in Nodes |-> Billed(n, Unqueued(rec[n], u))]) = Reported(1, rec, u)
  <2>1. PICK f : f = [n \in Nodes |-> Billed(n, Unqueued(rec[n], u))]
    OBVIOUS
  <2>2. PICK g : g = [n \in Nodes |-> 1 * Billed(n, Unqueued(rec[n], u))]
    OBVIOUS
  <2>3. \A n \in Nodes : f[n] \in Nat /\ g[n] = f[n]
    <3>1. \A n \in Nodes : Billed(n, Unqueued(rec[n], u)) \in Nat
      BY <1>2, UnqueuedType, 1 \in Nat \ {0}
    <3>. QED
      BY <2>1, <2>2, <3>1
  <2>4. f \in [Nodes -> Nat] /\ IsFiniteSet(Nodes)
    BY <2>1, <2>3, UsageAssumption
  <2>5. SumFunction(f) = Tally(f, Nodes)
    BY <2>4, SumIsUnits
  <2>6. Tally(g, Nodes) = Tally(f, Nodes)
    BY <2>3, TallySame
  <2>. QED
    BY <2>1, <2>2, <2>5, <2>6 DEF Reported
<1>4. SumFunction([i \in DOMAIN updates |-> updates[i].inc[u]]) = Queued(1, updates, u)
  <2>1. PICK D : D = 1..Len(updates) /\ D = DOMAIN updates
    BY <1>2
  <2>2. PICK f : f = [i \in D |-> updates[i].inc[u]]
    OBVIOUS
  <2>3. PICK g : g = [i \in D |-> WaitDue(1, updates[i], u)]
    OBVIOUS
  <2>4. \A i \in D : f[i] \in Nat /\ g[i] = f[i]
    <3>. SUFFICES ASSUME NEW i \in D PROVE f[i] \in Nat /\ g[i] = f[i]
      OBVIOUS
    <3>1. updates[i] \in UpdateJob /\ updates[i].stalls < 1
      BY <1>2, <2>1
    <3>2. updates[i].inc[u] \in Nat /\ updates[i].stalls = 0
      BY <3>1 DEF UpdateJob, Bytes
    <3>3. updates[i].inc[u] * (1 - 0) = updates[i].inc[u]
      BY <3>2
    <3>. QED
      BY <2>2, <2>3, <3>2, <3>3 DEF WaitDue
  <2>5. IsFiniteSet(D)
    <3>1. 1 \in Int /\ Len(updates) \in Int
      BY <1>2
    <3>. QED
      BY <2>1, <3>1, FS_Interval
  <2>6. SumFunction(f) = Tally(f, D)
    BY <2>2, <2>4, <2>5, SumIsUnits
  <2>7. Tally(g, D) = Tally(f, D)
    BY <2>4, TallySame
  <2>. QED
    BY <2>1, <2>2, <2>3, <2>6, <2>7 DEF Queued
<1>5. SumFunction([w \in Workers |->
            IF active[w] = NoJob \/ active[w].written THEN 0 ELSE active[w].inc[u]])
        = Running(1, active, u)
  <2>1. PICK f : f = [w \in Workers |->
            IF active[w] = NoJob \/ active[w].written THEN 0 ELSE active[w].inc[u]]
    OBVIOUS
  <2>2. PICK g : g = [w \in Workers |-> JobDue(1, active[w], u)]
    OBVIOUS
  <2>3. \A w \in Workers : f[w] \in Nat /\ g[w] = f[w]
    <3>. SUFFICES ASSUME NEW w \in Workers PROVE f[w] \in Nat /\ g[w] = f[w]
      OBVIOUS
    <3>1. CASE active[w] = NoJob
      BY <2>1, <2>2, <3>1 DEF JobDue
    <3>2. CASE active[w] # NoJob
      <4>1. /\ active[w].inc[u] \in Nat /\ active[w].stalls = 0
            /\ active[w].written \in BOOLEAN
        BY <1>2, <3>2 DEF ActiveJob, Bytes
      <4>2. /\ active[w].inc[u] * (1 - 0 - 0) = active[w].inc[u]
            /\ active[w].inc[u] * (1 - 0 - 1) = 0
        BY <4>1
      <4>3. g[w] = active[w].inc[u] * (1 - 0 - (IF active[w].written THEN 1 ELSE 0))
        BY <2>2, <3>2, <4>1 DEF JobDue
      <4>4. f[w] = IF active[w].written THEN 0 ELSE active[w].inc[u]
        BY <2>1, <3>2
      <4>. QED
        BY <4>1, <4>2, <4>3, <4>4
    <3>. QED
      BY <3>1, <3>2
  <2>4. f \in [Workers -> Nat] /\ IsFiniteSet(Workers)
    BY <2>1, <2>3, UsageAssumption
  <2>5. SumFunction(f) = Tally(f, Workers)
    BY <2>4, SumIsUnits
  <2>6. Tally(g, Workers) = Tally(f, Workers)
    BY <2>3, TallySame
  <2>. QED
    BY <2>1, <2>2, <2>5, <2>6 DEF Running
<1>. QED
  BY <1>1, <1>3, <1>4, <1>5 DEF Unbilled, Due

LEMMA MatchEnough ==
    ASSUME TypeOK, CounterBelow, MatchInv, mishaps = 0, IgnoreBelow <= 1, NEW u \in Users
    PROVE  BilledInFull(u)
<1>1. /\ AllFit(1) /\ Due(1, u) <= Answered(1, u)
      /\ Answered(1, u) <= Due(1, u) + Rounded(u)
  BY DEF MatchInv, BillInv
<1>2. PICK a : a = [n \in Nodes |-> generated[n][u] - counter[n][u]]
  OBVIOUS
<1>3. \A n \in Nodes : a[n] \in Nat
  <2>1. \A n \in Nodes : /\ generated[n][u] \in Nat /\ counter[n][u] \in Nat
                         /\ counter[n][u] <= generated[n][u]
    BY DEF TypeOK, Bytes, CounterBelow
  <2>. QED
    BY <1>2, <2>1
<1>4. SumFunction([n \in Nodes |-> Billed(n, a[n])]) = Answered(1, u)
  <2>1. PICK f : f = [n \in Nodes |-> Billed(n, a[n])]
    OBVIOUS
  <2>2. PICK g : g = [n \in Nodes |-> 1 * Billed(n, generated[n][u] - counter[n][u])]
    OBVIOUS
  <2>3. \A n \in Nodes : f[n] \in Nat /\ g[n] = f[n]
    <3>1. \A n \in Nodes : Billed(n, a[n]) \in Nat
      BY <1>3, BilledType
    <3>2. \A n \in Nodes : g[n] = 1 * Billed(n, a[n])
      BY <1>2, <2>2
    <3>. QED
      BY <2>1, <3>1, <3>2
  <2>4. f \in [Nodes -> Nat] /\ IsFiniteSet(Nodes)
    BY <2>1, <2>3, UsageAssumption
  <2>5. SumFunction(f) = Tally(f, Nodes)
    BY <2>4, SumIsUnits
  <2>6. Tally(g, Nodes) = Tally(f, Nodes)
    BY <2>3, TallySame
  <2>. QED
    BY <2>1, <2>2, <2>5, <2>6 DEF Answered, Sent
<1>5. SumFunction([n \in Nodes |-> Rounding(n, a[n])]) = Rounded(u)
  <2>1. PICK f : f = [n \in Nodes |-> Rounding(n, a[n])]
    OBVIOUS
  <2>2. PICK g : g = [n \in Nodes |-> Rounding(n, generated[n][u] - counter[n][u])]
    OBVIOUS
  <2>3. \A n \in Nodes : f[n] \in Nat /\ g[n] = f[n]
    BY <1>2, <1>3, <2>1, <2>2 DEF Rounding
  <2>4. f \in [Nodes -> Nat] /\ IsFiniteSet(Nodes)
    BY <2>1, <2>3, UsageAssumption
  <2>5. SumFunction(f) = Tally(f, Nodes)
    BY <2>4, SumIsUnits
  <2>6. Tally(g, Nodes) = Tally(f, Nodes)
    BY <2>3, TallySame
  <2>. QED
    BY <2>1, <2>2, <2>5, <2>6 DEF Rounded
<1>6. lifetime[u] + Unbilled(u) = Due(1, u)
  BY <1>1, UnbilledIsDue
<1>. QED
  BY <1>1, <1>2, <1>4, <1>5, <1>6 DEF BilledInFull

(* Without a mishap every byte is in exactly one place of the pipeline and  *)
(* is billed exactly once, but for what each report rounds away: bytes and  *)
(* bills are only lost through a mishap or below IgnoreBelow.               *)
THEOREM Lossless == Spec => []LosslessWithoutMishap
<1>1. TypeOK /\ TypeOK' /\ CountedAtMostOnce /\ AliveInv /\ MatchInv /\ [Next]_vars
        => MatchInv'
  BY MatchStep, CounterIsBelow
<1>2. TypeOK /\ CountedAtMostOnce /\ BalanceInv /\ MatchInv => LosslessWithoutMishap
  BY MatchEnough, CounterIsBelow DEF BalanceInv, Balanced, LosslessWithoutMishap
<1>. QED
  BY <1>1, <1>2, MatchInit, TypeCorrect, CountedOnce, Balance, PTL DEF Spec


-----------------------------------------------------------------------------
(* QueueThrottle: types.                                                    *)

Progress == [stage : Stage, rest : SUBSET Queues, tries : 0..MaxAttempts, stalls : 0..MaxStalls]

LEMMA AtType ==
    ASSUME NEW stage \in Stage, NEW rest \in SUBSET Queues, NEW stalls \in 0..MaxStalls
    PROVE  At(stage, rest, stalls) \in Progress
BY ThrottleAssumption DEF At, Progress

LEMMA IdleType == Idle \in Progress
<1>1. "idle" \in Stage /\ 0 \in 0..MaxStalls
  BY ThrottleAssumption DEF Stage
<1>. QED
  BY <1>1, AtType DEF Idle

LEMMA OfType ==
    ASSUME NEW j \in Jobs
    PROVE  Of(j) \in SUBSET Queues
BY DEF Of

LEMMA TurnIsOf ==
    ASSUME ThrottleTypeOK, NEW j \in Jobs, NEW q, Turn(j, q)
    PROVE  q \in Of(j) /\ q \in Queues /\ q \in run[j].rest
<1>1. q \in run[j].rest /\ q \in Queues
  BY DEF Turn, ThrottleTypeOK
<1>. QED
  BY <1>1 DEF Turn, Of

(* Every step of a job changes its own progress, and only that.              *)
LEMMA RunType ==
    ASSUME ThrottleTypeOK, NEW j \in Jobs, NEW r \in Progress, run' = [run EXCEPT ![j] = r]
    PROVE  /\ run' \in [Jobs -> Progress]
           /\ run'[j] = r
           /\ \A k \in Jobs \ {j} : run'[k] = run[k]
BY DEF ThrottleTypeOK, Progress

LEMMA JobType ==
    ASSUME ThrottleTypeOK, NEW j \in Jobs
    PROVE  /\ run[j] \in Progress
           /\ run[j].stage \in Stage /\ run[j].rest \in SUBSET Queues
           /\ run[j].tries \in 0..MaxAttempts /\ run[j].stalls \in 0..MaxStalls
BY DEF ThrottleTypeOK, Progress

LEMMA PausedType ==
    ASSUME ThrottleTypeOK, NEW j \in Jobs, NEW q
    PROVE  Paused(j, q) \in Progress
<1>1. run[j] \in Progress
  BY JobType
<1>2. [run[j] EXCEPT !.rest = @ \ {q}] \in Progress
  BY <1>1 DEF Progress
<1>3. At(IF j \in Drains THEN "draining" ELSE "working", {}, run[j].stalls) \in Progress
  <2>1. (IF j \in Drains THEN "draining" ELSE "working") \in Stage
    BY DEF Stage
  <2>2. run[j].stalls \in 0..MaxStalls
    BY JobType
  <2>. QED
    BY <2>1, <2>2, AtType
<1>. QED
  BY <1>2, <1>3 DEF Paused

LEMMA CountedType ==
    ASSUME ThrottleTypeOK, NEW j \in Jobs
    PROVE  Counted(j) \in Progress
<1>1. run[j] \in Progress /\ run[j].tries \in 0..MaxAttempts /\ MaxAttempts \in Nat
  BY JobType, ThrottleAssumption
<1>2. [run[j] EXCEPT !.stage = "working"] \in Progress
  BY <1>1 DEF Progress, Stage
<1>3. ASSUME run[j].tries # MaxAttempts
      PROVE  [run[j] EXCEPT !.tries = @ + 1] \in Progress
  BY <1>1, <1>3 DEF Progress
<1>. QED
  BY <1>2, <1>3 DEF Counted

LEMMA ResumedType ==
    ASSUME ThrottleTypeOK, NEW j \in Jobs, NEW q
    PROVE  Resumed(j, q) \in Progress
<1>1. run[j] \in Progress
  BY JobType
<1>2. [run[j] EXCEPT !.rest = @ \ {q}] \in Progress
  BY <1>1 DEF Progress
<1>. QED
  BY <1>2, IdleType DEF Resumed

(* The cases of a job's step, each as one assignment of its progress.        *)
LEMMA JobCases ==
    ASSUME ThrottleTypeOK, NEW j \in Jobs,
           JobStep(j) \/ Start(j) \/ PauseFails(j) \/ ResumeFails(j) \/ Crash(j)
    PROVE  /\ UNCHANGED queueVars
           /\ failures' \in Nat
           /\ \/ /\ run[j].stage = "idle" /\ run' = [run EXCEPT ![j] = At("pausing", Of(j), 0)]
                 /\ disturbed' = disturbed \ {j} /\ UNCHANGED <<paused, abandoned>>
              \/ \E q \in Of(j) :
                 /\ q \in run[j].rest
                 /\ run[j].stage = "pausing" /\ run' = [run EXCEPT ![j] = Paused(j, q)]
                 /\ paused' = paused \cup {q} /\ UNCHANGED <<disturbed, abandoned>>
              \/ /\ run[j].stage = "pausing" /\ run' = [run EXCEPT ![j] = Idle]
                 /\ abandoned' = abandoned \cup (Of(j) \cap paused)
                 /\ UNCHANGED <<paused, disturbed>>
              \/ /\ run[j].stage = "draining" /\ run' = [run EXCEPT ![j] = Counted(j)]
                 /\ UNCHANGED <<paused, disturbed, abandoned>>
              \/ /\ run[j].stage \in {"pausing", "working"}
                 /\ run' = [run EXCEPT ![j] = At("resuming", Of(j), run[j].stalls)]
                 /\ UNCHANGED <<paused, disturbed, abandoned>>
              \/ \E q \in Of(j) :
                 /\ q \in run[j].rest
                 /\ run[j].stage = "resuming" /\ run' = [run EXCEPT ![j] = Resumed(j, q)]
                 /\ paused' = paused \ {q}
                 /\ disturbed' = disturbed \cup {k \in Jobs \ {j} : Suspends(k, q)}
                 /\ abandoned' = abandoned \ {q}
              \/ /\ run[j].stage = "resuming" /\ run' = [run EXCEPT ![j] = Idle]
                 /\ abandoned' = abandoned \cup (run[j].rest \cap paused)
                 /\ UNCHANGED <<paused, disturbed>>
              \/ /\ run[j].stage # "idle" /\ run[j].stalls < MaxStalls
                 /\ run' = [run EXCEPT ![j] = At("pausing", Of(j), run[j].stalls + 1)]
                 /\ disturbed' = disturbed \ {j} /\ UNCHANGED <<paused, abandoned>>
              \/ /\ run[j].stage # "idle" /\ run' = [run EXCEPT ![j] = Idle]
                 /\ abandoned' = abandoned \cup (Of(j) \cap paused)
                 /\ UNCHANGED <<paused, disturbed>>
<1>. failures \in Nat
  BY DEF ThrottleTypeOK
<1>1. CASE Start(j)
  BY <1>1 DEF Start
<1>2. ASSUME NEW q \in Queues, PauseQueue(j, q)
      PROVE  /\ UNCHANGED <<queueVars, failures>>
             /\ q \in Of(j) /\ q \in run[j].rest
             /\ run[j].stage = "pausing" /\ run' = [run EXCEPT ![j] = Paused(j, q)]
             /\ paused' = paused \cup {q} /\ UNCHANGED <<disturbed, abandoned>>
  <2>1. q \in Of(j) /\ q \in run[j].rest
    BY <1>2, TurnIsOf DEF PauseQueue
  <2>. QED
    BY <1>2, <2>1 DEF PauseQueue, Paused
<1>3. CASE PauseFails(j)
  BY <1>3 DEF PauseFails, Failure
<1>4. CASE CountActive(j)
  BY <1>4 DEF CountActive, Counted
<1>5. CASE Work(j)
  BY <1>5 DEF Work
<1>6. ASSUME NEW q \in Queues, ResumeQueue(j, q)
      PROVE  /\ UNCHANGED <<queueVars, failures>>
             /\ q \in Of(j) /\ q \in run[j].rest
             /\ run[j].stage = "resuming" /\ run' = [run EXCEPT ![j] = Resumed(j, q)]
             /\ paused' = paused \ {q}
             /\ disturbed' = disturbed \cup {k \in Jobs \ {j} : Suspends(k, q)}
             /\ abandoned' = abandoned \ {q}
  <2>1. q \in Of(j) /\ q \in run[j].rest
    BY <1>6, TurnIsOf DEF ResumeQueue
  <2>. QED
    BY <1>6, <2>1 DEF ResumeQueue, Resumed
<1>7. CASE ResumeFails(j)
  BY <1>7 DEF ResumeFails, Failure
<1>8. CASE Crash(j)
  BY <1>8 DEF Crash, Failure
<1>. QED
  BY <1>1, <1>2, <1>3, <1>4, <1>5, <1>6, <1>7, <1>8 DEF JobStep

LEMMA QueueCases ==
    ASSUME ThrottleTypeOK, NEW q \in Queues, QueueStep(q)
    PROVE  /\ waiting' \in [Queues -> Nat]
           /\ busy' \in [Queues -> Nat]
           /\ failures' \in Nat
           /\ UNCHANGED <<paused, run, disturbed, abandoned>>
           /\ q \in paused => busy'[q] <= busy[q]
           /\ \A p \in Queues \ {q} : busy'[p] = busy[p]
BY DEF QueueStep, Arrive, Take, Finish, Stall, Failure, ThrottleTypeOK

LEMMA TypeStep ==
    ASSUME ThrottleTypeOK, [ThrottleNext]_throttleVars
    PROVE  ThrottleTypeOK'
<1>1. ASSUME NEW q \in Queues, QueueStep(q)
      PROVE  ThrottleTypeOK'
  <2>1. /\ waiting' \in [Queues -> Nat] /\ busy' \in [Queues -> Nat] /\ failures' \in Nat
        /\ UNCHANGED <<paused, run, disturbed, abandoned>>
    BY <1>1, QueueCases
  <2>. QED
    BY <2>1 DEF ThrottleTypeOK
<1>2. ASSUME NEW j \in Jobs,
             JobStep(j) \/ Start(j) \/ PauseFails(j) \/ ResumeFails(j) \/ Crash(j)
      PROVE  ThrottleTypeOK'
  <2>1. UNCHANGED queueVars /\ failures' \in Nat
    BY <1>2, JobCases
  <2>2. Of(j) \in SUBSET Queues /\ run[j].stalls \in 0..MaxStalls /\ run[j].rest \in SUBSET Queues
    BY OfType, JobType
  <2>3. MaxStalls \in Nat
    BY ThrottleAssumption
  <2>4. /\ At("pausing", Of(j), 0) \in Progress
        /\ At("resuming", Of(j), run[j].stalls) \in Progress
        /\ run[j].stalls < MaxStalls => At("pausing", Of(j), run[j].stalls + 1) \in Progress
    <3>1. "pausing" \in Stage /\ "resuming" \in Stage
      BY DEF Stage
    <3>2. 0 \in 0..MaxStalls
      BY <2>3
    <3>3. run[j].stalls < MaxStalls => run[j].stalls + 1 \in 0..MaxStalls
      BY <2>2, <2>3
    <3>. QED
      BY <2>2, <3>1, <3>2, <3>3, AtType
  <2>5. run' \in [Jobs -> Progress]
    <3>1. \E r \in Progress : run' = [run EXCEPT ![j] = r]
      BY <1>2, <2>4, JobCases, PausedType, CountedType, ResumedType, IdleType
    <3>. QED
      BY <3>1, RunType
  <2>6. paused' \in SUBSET Queues /\ disturbed' \in SUBSET Jobs /\ abandoned' \in SUBSET Queues
    <3>1. paused \in SUBSET Queues /\ disturbed \in SUBSET Jobs /\ abandoned \in SUBSET Queues
      BY DEF ThrottleTypeOK
    <3>2. /\ paused' = paused \/ \E q \in Of(j) : paused' \in {paused \cup {q}, paused \ {q}}
          /\ \/ disturbed' \in {disturbed, disturbed \ {j}}
             \/ \E q \in Of(j) : disturbed' = disturbed \cup {k \in Jobs \ {j} : Suspends(k, q)}
          /\ \/ abandoned' \in {abandoned, abandoned \cup (Of(j) \cap paused),
                              abandoned \cup (run[j].rest \cap paused)}
             \/ \E q \in Of(j) : abandoned' = abandoned \ {q}
      BY <1>2, JobCases
    <3>. QED
      BY <2>2, <3>1, <3>2
  <2>. QED
    BY <2>1, <2>5, <2>6 DEF ThrottleTypeOK, Progress, queueVars
<1>3. CASE UNCHANGED throttleVars
  BY <1>3 DEF ThrottleTypeOK, throttleVars, queueVars
<1>. QED
  BY <1>1, <1>2, <1>3 DEF ThrottleNext

(* The queues, flags and jobs keep their types; no job waits longer than its *)
(* attempts, or is run again more often than it may stall.                  *)
THEOREM ThrottleTypeCorrect == ThrottleSpec => []ThrottleTypeOK
<1>1. ThrottleInit => ThrottleTypeOK
  BY IdleType DEF ThrottleInit, ThrottleTypeOK, Progress
<1>2. ThrottleTypeOK /\ [ThrottleNext]_throttleVars => ThrottleTypeOK'
  BY TypeStep
<1>. QED
  BY <1>1, <1>2, PTL DEF ThrottleSpec

-----------------------------------------------------------------------------
(* A queue stays paused under a job that nobody disturbed; so what the job   *)
(* has counted as quiet stays quiet.                                        *)

HeldIsPaused ==
    \A j \in Jobs, q \in Queues : Suspends(j, q) /\ j \notin disturbed => q \in paused

DrainInv == ThrottleTypeOK /\ HeldIsPaused /\ DrainedWhileWorking

LEMMA AtFields ==
    ASSUME NEW stage, NEW rest, NEW stalls
    PROVE  /\ At(stage, rest, stalls).stage = stage
           /\ At(stage, rest, stalls).rest = rest
BY DEF At

LEMMA IdleStage == Idle.stage = "idle"
BY DEF Idle, At

LEMMA PausedFields ==
    ASSUME ThrottleTypeOK, NEW j \in Jobs, NEW q, run[j].stage = "pausing"
    PROVE  \/ /\ Paused(j, q).stage = "pausing"
              /\ Paused(j, q).rest = run[j].rest \ {q}
           \/ /\ run[j].rest = {q}
              /\ Paused(j, q).stage = IF j \in Drains THEN "draining" ELSE "working"
<1>1. run[j] \in Progress
  BY JobType
<1>. QED
  BY <1>1 DEF Paused, At, Progress

LEMMA ResumedFields ==
    ASSUME ThrottleTypeOK, NEW j \in Jobs, NEW q, run[j].stage = "resuming"
    PROVE  \/ /\ Resumed(j, q).stage = "resuming"
              /\ Resumed(j, q).rest = run[j].rest \ {q}
           \/ /\ run[j].rest = {q}
              /\ Resumed(j, q).stage = "idle"
<1>1. run[j] \in Progress
  BY JobType
<1>. QED
  BY <1>1 DEF Resumed, Idle, At, Progress

LEMMA CountedFields ==
    ASSUME ThrottleTypeOK, NEW j \in Jobs, run[j].stage = "draining"
    PROVE  \/ /\ Counted(j).stage = "working" /\ Counted(j).tries = run[j].tries
              /\ (\A q \in Of(j) : busy[q] = 0) \/ run[j].tries = MaxAttempts
           \/ Counted(j).stage = "draining"
<1>1. run[j] \in Progress
  BY JobType
<1>. QED
  BY <1>1 DEF Counted, Progress

(* What j holds after its own step it held before, or has just paused; and   *)
(* it holds nothing once it has started over, ended or begun to resume.      *)
LEMMA HoldsAfter ==
    ASSUME ThrottleTypeOK, NEW j \in Jobs, NEW p \in Queues,
           JobStep(j) \/ Start(j) \/ PauseFails(j) \/ ResumeFails(j) \/ Crash(j),
           Suspends(j, p)'
    PROVE  /\ j \in disturbed => j \in disturbed'
           /\ Suspends(j, p) \/ p \in paused'
           /\ paused \subseteq paused'
<1>1. /\ p \in Of(j)
      /\ \/ run'[j].stage \in {"draining", "working"}
         \/ run'[j].stage = "pausing" /\ p \notin run'[j].rest
  BY DEF Suspends, Of
<1>2. ASSUME NEW stalls, run' = [run EXCEPT ![j] = At("pausing", Of(j), stalls)]
      PROVE  FALSE
  <2>1. run'[j].stage = "pausing" /\ run'[j].rest = Of(j)
    BY <1>2, AtFields DEF ThrottleTypeOK
  <2>. QED
    BY <1>1, <2>1
<1>3. ASSUME NEW stalls, run' = [run EXCEPT ![j] = At("resuming", Of(j), stalls)]
      PROVE  FALSE
  <2>1. run'[j].stage = "resuming"
    BY <1>3, AtFields DEF ThrottleTypeOK
  <2>. QED
    BY <1>1, <2>1
<1>4. CASE run' = [run EXCEPT ![j] = Idle]
  <2>1. run'[j].stage = "idle"
    BY <1>4, IdleStage DEF ThrottleTypeOK
  <2>. QED
    BY <1>1, <2>1
<1>5. ASSUME NEW q \in Of(j), q \in run[j].rest,
             run[j].stage = "pausing", run' = [run EXCEPT ![j] = Paused(j, q)],
             paused' = paused \cup {q}, UNCHANGED <<disturbed, abandoned>>
      PROVE  /\ j \in disturbed => j \in disturbed'
             /\ Suspends(j, p) \/ p \in paused'
             /\ paused \subseteq paused'
  <2>1. run'[j] = Paused(j, q)
    BY <1>5 DEF ThrottleTypeOK
  <2>2. p = q \/ p \notin run[j].rest
    BY <1>1, <1>5, <2>1, PausedFields
  <2>. QED
    BY <1>1, <1>5, <2>2 DEF Suspends
<1>6. CASE /\ run[j].stage = "draining"
           /\ UNCHANGED <<paused, disturbed, abandoned>>
  BY <1>1, <1>6 DEF Suspends
<1>7. ASSUME NEW q \in Of(j), run[j].stage = "resuming",
             run' = [run EXCEPT ![j] = Resumed(j, q)]
      PROVE  FALSE
  <2>1. run'[j] = Resumed(j, q)
    BY <1>7 DEF ThrottleTypeOK
  <2>. QED
    BY <1>1, <1>7, <2>1, ResumedFields
<1>. QED
  BY <1>2, <1>3, <1>4, <1>5, <1>6, <1>7, JobCases

(* Another job's step leaves what j holds, and either leaves its flag or      *)
(* counts j as disturbed.                                                   *)
LEMMA HoldsOther ==
    ASSUME ThrottleTypeOK, NEW j \in Jobs, NEW k \in Jobs, k # j, NEW p \in Queues,
           JobStep(k) \/ Start(k) \/ PauseFails(k) \/ ResumeFails(k) \/ Crash(k)
    PROVE  /\ run'[j] = run[j]
           /\ Suspends(j, p)' = Suspends(j, p)
           /\ j \in disturbed => j \in disturbed'
           /\ p \in paused /\ Suspends(j, p) => p \in paused' \/ j \in disturbed'
<1>1. run'[j] = run[j]
  <2>1. ASSUME NEW r, run' = [run EXCEPT ![k] = r]
        PROVE  run'[j] = run[j]
    BY <2>1 DEF ThrottleTypeOK
  <2>2. \E r : run' = [run EXCEPT ![k] = r]
    BY JobCases
  <2>. QED
    BY <2>1, <2>2
<1>2. Suspends(j, p)' = Suspends(j, p)
  BY <1>1 DEF Suspends, Of
<1>3. \/ disturbed' = disturbed /\ paused \subseteq paused'
      \/ disturbed' = disturbed \ {k} /\ paused' = paused
      \/ \E q : /\ paused' = paused \ {q}
                /\ disturbed' = disturbed \cup {i \in Jobs \ {k} : Suspends(i, q)}
  BY JobCases
<1>. QED
  BY <1>1, <1>2, <1>3

LEMMA DrainStep ==
    ASSUME DrainInv, [ThrottleNext]_throttleVars
    PROVE  DrainInv'
<1>. ThrottleTypeOK
  BY DEF DrainInv
<1>1. ThrottleTypeOK'
  BY TypeStep
<1>2. ASSUME NEW q \in Queues, QueueStep(q)
      PROVE  HeldIsPaused' /\ DrainedWhileWorking'
  <2>1. /\ UNCHANGED <<paused, run, disturbed, abandoned>>
        /\ q \in paused => busy'[q] <= busy[q]
        /\ \A p \in Queues \ {q} : busy'[p] = busy[p]
        /\ busy' \in [Queues -> Nat]
    BY <1>2, QueueCases
  <2>2. HeldIsPaused'
    BY <2>1 DEF DrainInv, HeldIsPaused, Suspends, Of
  <2>3. ASSUME NEW j \in Drains, run[j].stage = "working", run[j].tries < MaxAttempts,
               j \notin disturbed, NEW p \in Of(j)
        PROVE  busy'[p] = 0
    <3>1. j \in Jobs /\ p \in Queues
      BY ThrottleAssumption DEF Of
    <3>2. p \in paused
      BY <2>3, <3>1 DEF DrainInv, HeldIsPaused, Suspends
    <3>3. busy[p] = 0
      BY <2>3 DEF DrainInv, DrainedWhileWorking
    <3>4. busy'[p] \in Nat
      BY <2>1, <3>1
    <3>. QED
      BY <2>1, <3>1, <3>2, <3>3, <3>4
  <2>. QED
    BY <2>1, <2>2, <2>3 DEF DrainedWhileWorking, Of
<1>3. ASSUME NEW k \in Jobs,
             JobStep(k) \/ Start(k) \/ PauseFails(k) \/ ResumeFails(k) \/ Crash(k)
      PROVE  HeldIsPaused' /\ DrainedWhileWorking'
  <2>1. UNCHANGED busy
    BY <1>3, JobCases DEF queueVars
  <2>2. ASSUME NEW j \in Jobs, NEW p \in Queues, Suspends(j, p)', j \notin disturbed'
        PROVE  p \in paused'
    <3>1. CASE j = k
      BY <1>3, <2>2, <3>1, HoldsAfter DEF DrainInv, HeldIsPaused
    <3>2. CASE j # k
      BY <1>3, <2>2, <3>2, HoldsOther DEF DrainInv, HeldIsPaused
    <3>. QED
      BY <3>1, <3>2
  <2>3. ASSUME NEW j \in Drains, run'[j].stage = "working", run'[j].tries < MaxAttempts,
               j \notin disturbed', NEW p \in Of(j)
        PROVE  busy'[p] = 0
    <3>1. j \in Jobs /\ p \in Queues
      BY ThrottleAssumption DEF Of
    <3>2. CASE j # k
      <4>1. run'[j] = run[j] /\ j \notin disturbed
        BY <1>3, <2>3, <3>1, <3>2, HoldsOther
      <4>. QED
        BY <2>1, <2>3, <4>1 DEF DrainInv, DrainedWhileWorking
    <3>3. CASE j = k
      <4>1. run[j].stage = "draining" /\ run' = [run EXCEPT ![j] = Counted(j)]
        <5>1. ASSUME NEW st, NEW rest, NEW stalls, st # "working",
                     run' = [run EXCEPT ![j] = At(st, rest, stalls)]
              PROVE  FALSE
          <6>1. run'[j].stage = st
            BY <3>1, <5>1, AtFields DEF ThrottleTypeOK
          <6>. QED
            BY <2>3, <5>1, <6>1
        <5>2. CASE run' = [run EXCEPT ![j] = Idle]
          <6>1. run'[j].stage = "idle"
            BY <3>1, <5>2, IdleStage DEF ThrottleTypeOK
          <6>. QED
            BY <2>3, <6>1
        <5>3. ASSUME NEW q, run[j].stage = "pausing", run' = [run EXCEPT ![j] = Paused(j, q)]
              PROVE  FALSE
          <6>1. run'[j] = Paused(j, q)
            BY <3>1, <5>3 DEF ThrottleTypeOK
          <6>. QED
            BY <2>3, <3>1, <5>3, <6>1, PausedFields
        <5>4. ASSUME NEW q, run[j].stage = "resuming", run' = [run EXCEPT ![j] = Resumed(j, q)]
              PROVE  FALSE
          <6>1. run'[j] = Resumed(j, q)
            BY <3>1, <5>4 DEF ThrottleTypeOK
          <6>. QED
            BY <2>3, <3>1, <5>4, <6>1, ResumedFields
        <5>5. \/ \E st \in {"pausing", "resuming"} : \E rest, stalls :
                    run' = [run EXCEPT ![j] = At(st, rest, stalls)]
              \/ run' = [run EXCEPT ![j] = Idle]
              \/ \E q : run[j].stage = "pausing" /\ run' = [run EXCEPT ![j] = Paused(j, q)]
              \/ \E q : run[j].stage = "resuming" /\ run' = [run EXCEPT ![j] = Resumed(j, q)]
              \/ run[j].stage = "draining" /\ run' = [run EXCEPT ![j] = Counted(j)]
          BY <1>3, <3>3, JobCases
        <5>. QED
          BY <5>1, <5>2, <5>3, <5>4, <5>5
      <4>2. run'[j] = Counted(j)
        BY <3>1, <4>1 DEF ThrottleTypeOK
      <4>3. run'[j].tries = run[j].tries
        BY <2>3, <3>1, <4>1, <4>2, CountedFields
      <4>4. run[j].tries # MaxAttempts
        BY <2>3, <4>3, ThrottleAssumption
      <4>. QED
        BY <2>1, <2>3, <3>1, <4>1, <4>2, <4>4, CountedFields
    <3>. QED
      BY <3>2, <3>3
  <2>. QED
    BY <2>2, <2>3 DEF HeldIsPaused, DrainedWhileWorking, Of
<1>4. CASE UNCHANGED throttleVars
  <2>1. UNCHANGED <<paused, busy, run, disturbed>>
    BY <1>4 DEF throttleVars, queueVars
  <2>2. HeldIsPaused'
    BY <2>1 DEF DrainInv, HeldIsPaused, Suspends, Of
  <2>3. DrainedWhileWorking'
    <3>1. ASSUME NEW j \in Drains, run'[j].stage = "working", run'[j].tries < MaxAttempts,
                 j \notin disturbed', NEW p \in Of(j)
          PROVE  busy'[p] = 0
      <4>1. busy[p] = 0
        BY <2>1, <3>1 DEF DrainInv, DrainedWhileWorking
      <4>. QED
        BY <2>1, <4>1
    <3>. QED
      BY <3>1 DEF DrainedWhileWorking, Of
  <2>. QED
    BY <1>1, <2>2, <2>3 DEF DrainInv
<1>. QED
  BY <1>1, <1>2, <1>3, <1>4 DEF DrainInv, ThrottleNext

(* Whatever the queues, jobs and groups, a job that waited for the workers    *)
(* works alone, unless another job's resume, which is not counted, opened a  *)
(* queue under it or the wait was given up.                                 *)
THEOREM WorksAlone == ThrottleSpec => []DrainedWhileWorking
<1>1. ThrottleInit => DrainInv
  <2>1. ASSUME ThrottleInit
        PROVE  ThrottleTypeOK
    BY <2>1, IdleType DEF ThrottleInit, ThrottleTypeOK, Progress
  <2>2. ASSUME ThrottleInit, NEW j \in Jobs
        PROVE  run[j].stage = "idle"
    BY <2>2, IdleStage DEF ThrottleInit
  <2>3. ThrottleInit => HeldIsPaused
    BY <2>2 DEF HeldIsPaused, Suspends
  <2>4. ThrottleInit => DrainedWhileWorking
    BY <2>2, ThrottleAssumption DEF DrainedWhileWorking
  <2>. QED
    BY <2>1, <2>3, <2>4 DEF DrainInv
<1>2. DrainInv /\ [ThrottleNext]_throttleVars => DrainInv'
  BY DrainStep
<1>3. DrainInv => DrainedWhileWorking
  BY DEF DrainInv
<1>. QED
  BY <1>1, <1>2, <1>3, PTL DEF ThrottleSpec

-----------------------------------------------------------------------------
(* No interleaving of pauses and resumes leaves a queue paused for good.     *)

LEMMA OwnerStep ==
    ASSUME ThrottleTypeOK, PausedHasOwner, [ThrottleNext]_throttleVars
    PROVE  PausedHasOwner'
<1>1. ASSUME NEW q \in Queues, QueueStep(q)
      PROVE  PausedHasOwner'
  <2>1. UNCHANGED <<paused, run, abandoned>>
    BY <1>1, QueueCases
  <2>. QED
    BY <2>1 DEF PausedHasOwner, WillResume, Of
<1>2. ASSUME NEW k \in Jobs,
             JobStep(k) \/ Start(k) \/ PauseFails(k) \/ ResumeFails(k) \/ Crash(k)
      PROVE  PausedHasOwner'
  <2>. SUFFICES ASSUME NEW p \in paused' \ abandoned'
                PROVE  \E j \in Jobs : WillResume(j, p)'
    BY DEF PausedHasOwner
  <2>1. run'[k] = run[k] \/ \E r : run' = [run EXCEPT ![k] = r]
    BY <1>2, JobCases
  <2>2. ASSUME NEW j \in Jobs, j # k, WillResume(j, p)
        PROVE  WillResume(j, p)'
    <3>1. p \in Queues
      BY <2>2 DEF WillResume, Of
    <3>2. run'[j] = run[j]
      BY <1>2, <2>2, <3>1, HoldsOther
    <3>. QED
      BY <2>2, <3>2 DEF WillResume, Of
  <2>3. ASSUME NEW st, NEW stalls, st \in {"pausing", "resuming"}, p \in Of(k),
               run' = [run EXCEPT ![k] = At(st, Of(k), stalls)]
        PROVE  WillResume(k, p)'
    <3>1. run'[k].stage = st /\ run'[k].rest = Of(k)
      BY <2>3, AtFields DEF ThrottleTypeOK
    <3>. QED
      BY <2>3, <3>1 DEF WillResume, Of
  <2>4. ASSUME p \in paused, p \in abandoned
        PROVE  FALSE
    <3>1. \/ abandoned \subseteq abandoned'
          \/ \E q : paused' = paused \ {q} /\ abandoned' = abandoned \ {q}
      BY <1>2, JobCases
    <3>. QED
      BY <2>4, <3>1
  <2>5. ASSUME p \in paused, NEW j \in Jobs, WillResume(j, p)
        PROVE  \E i \in Jobs : WillResume(i, p)'
    <3>1. CASE j # k
      BY <2>2, <2>5, <3>1
    <3>2. CASE j = k
      <4>1. p \in Of(k) /\ run[k].stage # "idle"
            /\ (run[k].stage = "resuming" => p \in run[k].rest)
        BY <2>5, <3>2 DEF WillResume
      <4>2. ASSUME run'[k].stage # "idle", run'[k].stage # "resuming"
            PROVE  WillResume(k, p)'
        BY <4>1, <4>2 DEF WillResume, Of
      <4>3. ASSUME NEW q, run[k].stage = "pausing", run' = [run EXCEPT ![k] = Paused(k, q)]
            PROVE  WillResume(k, p)'
        <5>1. run'[k] = Paused(k, q)
          BY <4>3 DEF ThrottleTypeOK
        <5>. QED
          BY <4>2, <4>3, <5>1, PausedFields
      <4>4. ASSUME run[k].stage = "draining", run' = [run EXCEPT ![k] = Counted(k)]
            PROVE  WillResume(k, p)'
        <5>1. run'[k] = Counted(k)
          BY <4>4 DEF ThrottleTypeOK
        <5>. QED
          BY <4>2, <4>4, <5>1, CountedFields
      <4>5. ASSUME NEW q, run[k].stage = "resuming", paused' = paused \ {q},
                   run' = [run EXCEPT ![k] = Resumed(k, q)]
            PROVE  WillResume(k, p)'
        <5>1. run'[k] = Resumed(k, q)
          BY <4>5 DEF ThrottleTypeOK
        <5>2. p # q /\ p \in run[k].rest
          BY <4>1, <4>5
        <5>3. run'[k].stage = "resuming" /\ run'[k].rest = run[k].rest \ {q}
          BY <4>5, <5>1, <5>2, ResumedFields
        <5>. QED
          BY <4>1, <5>2, <5>3 DEF WillResume, Of
      <4>6. \/ \E st \in {"pausing", "resuming"}, stalls \in Nat :
                 run' = [run EXCEPT ![k] = At(st, Of(k), stalls)]
            \/ \E q : run[k].stage = "pausing" /\ run' = [run EXCEPT ![k] = Paused(k, q)]
            \/ run[k].stage = "draining" /\ run' = [run EXCEPT ![k] = Counted(k)]
            \/ \E q : /\ run[k].stage = "resuming" /\ paused' = paused \ {q}
                      /\ run' = [run EXCEPT ![k] = Resumed(k, q)]
        <5>1. run[k].stalls \in Nat
          BY JobType, ThrottleAssumption
        <5>2. ~(abandoned' = abandoned \cup (Of(k) \cap paused))
          BY <2>5, <4>1
        <5>3. ~(run[k].stage = "resuming" /\ abandoned' = abandoned \cup (run[k].rest \cap paused))
          BY <2>5, <4>1
        <5>. QED
          BY <1>2, <4>1, <5>1, <5>2, <5>3, JobCases
      <4>. QED
        BY <2>3, <4>1, <4>3, <4>4, <4>5, <4>6
    <3>. QED
      BY <3>1, <3>2
  <2>6. CASE p \in paused
    <3>1. \E j \in Jobs : WillResume(j, p)
      BY <2>4, <2>6 DEF PausedHasOwner
    <3>. QED
      BY <2>5, <2>6, <3>1
  <2>7. CASE p \notin paused
    <3>1. PICK q \in Of(k) :
            /\ run[k].stage = "pausing" /\ run' = [run EXCEPT ![k] = Paused(k, q)]
            /\ paused' = paused \cup {q}
      BY <1>2, <2>7, JobCases
    <3>2. p = q /\ run'[k] = Paused(k, q)
      BY <2>7, <3>1 DEF ThrottleTypeOK
    <3>3. run'[k].stage # "idle" /\ run'[k].stage # "resuming"
      BY <3>1, <3>2, PausedFields
    <3>4. WillResume(k, p)'
      BY <3>2, <3>3 DEF WillResume, Of
    <3>. QED
      BY <3>4
  <2>. QED
    BY <2>6, <2>7
<1>3. CASE UNCHANGED throttleVars
  BY <1>3 DEF PausedHasOwner, WillResume, Of, throttleVars, queueVars
<1>. QED
  BY <1>1, <1>2, <1>3 DEF ThrottleNext

(* Whatever jobs pause and resume the same queues, in whatever order, a       *)
(* paused queue has a job on its way to resume it unless one was abandoned.  *)
THEOREM NoneForgotten == ThrottleSpec => []PausedHasOwner
<1>1. ThrottleInit => PausedHasOwner
  BY DEF ThrottleInit, PausedHasOwner
<1>2. ThrottleTypeOK /\ PausedHasOwner /\ [ThrottleNext]_throttleVars => PausedHasOwner'
  BY OwnerStep
<1>. QED
  BY <1>1, <1>2, ThrottleTypeCorrect, PTL DEF ThrottleSpec

=============================================================================
