--------------------------- MODULE UsagePipeline ---------------------------
(***************************************************************************)
(* How the traffic a node reports becomes rows of the database.            *)
(*                                                                         *)
(* Every RECORD_USER_USAGE interval the scheduler queues one recordUserUsage*)
(* job per online node.  The job asks the node for the bytes of every user *)
(* (the node forgets them as it answers), adds the raw bytes to the node's *)
(* Redis hash, queues updateUsersUsage jobs with the multiplied bytes, and *)
(* schedules a delayed recordUserUsage push job, deduplicated by the hash's*)
(* key.  The push job renames the hash, upserts its entries batch by batch *)
(* into nodes_user_usage_history and deletes the renamed hash.  Any worker *)
(* may crash between two steps: BullMQ then runs the stalled job again, up *)
(* to MaxStalled times.                                                    *)
(***************************************************************************)
EXTENDS Naturals, Sequences, FiniteSets, Functions

CONSTANTS
    Users,        \* users.t_id
    Nodes,        \* nodes.id
    Workers,      \* slots of the UPDATE_USERS_USAGE worker
    NoJob,        \* an idle slot
    One,          \* the nano value of a multiplier of 1 (10^9 in the code)
    Multiplier,   \* Multiplier[n]: nodes.consumption_multiplier, in units of 1/One
    IgnoreBelow,  \* USER_USAGE_IGNORE_BELOW_BYTES
    MaxStalled,   \* BullMQ's maxStalledCount
    MaxBytes,     \* bound: bytes one user sends through one node
    MaxQueue,     \* bound: updateUsersUsage jobs waiting
    MaxMishaps    \* bound: crashes, lost answers, failed writes and other losses

ASSUME UsageAssumption ==
    /\ IsFiniteSet(Nodes)
    /\ IsFiniteSet(Workers)
    /\ One \in Nat \ {0}
    /\ Multiplier \in [Nodes -> Nat]
    /\ IgnoreBelow \in Nat
    /\ MaxStalled \in Nat
    /\ MaxBytes \in Nat
    /\ MaxQueue \in Nat
    /\ MaxMishaps \in Nat

VARIABLES
    generated,  \* generated[n][u]: bytes u ever sent through n (history)
    counter,    \* counter[n][u]: bytes the node holds since its last answer
    rec,        \* rec[n]: the recordUserUsage job of n: its state,
                \*   the batch it fetched and the users it has still to queue
    redis,      \* redis[n][u]: the hash NODE_USER_USAGE(n)
    processing, \* processing[n][u]: the renamed hash
    push,       \* push[n]: the push job of n: its state, the users its scan
                \*   has upserted, and how often it has stalled
    history,    \* history[n][u]: total_bytes of nodes_user_usage_history
    updates,    \* the updateUsersUsage jobs that wait, in order
    active,     \* active[w]: the updateUsersUsage job worker slot w runs
    alive,      \* users that still have a row
    used,       \* used[u]: user_traffic.used_traffic_bytes
    lifetime,   \* lifetime[u]: user_traffic.lifetime_used_traffic_bytes
    connected,  \* users whose first_connected_at is set
    welcomed,   \* welcomed[u]: FIRST_CONNECTED events fired for u (history)
    tied,       \* users another transaction of whose first connection's
                \*   millisecond has written too (history)
    mishaps     \* how many lossy steps have been taken (history)

nodeVars == <<generated, counter>>
cacheVars == <<redis, processing, push, history>>
userVars == <<alive, used, lifetime, connected, welcomed, tied>>
vars == <<nodeVars, rec, cacheVars, updates, active, userVars, mishaps>>

Bytes == [Users -> Nat]
Zero == [u \in Users |-> 0]
Plus(f, g) == [u \in Users |-> f[u] + g[u]]
(* Fault: the users outside S get no entry at all.                          *)
Only_Partial(f, S) == [u \in S |-> f[u]]
Only(f, S) == [u \in Users |-> IF u \in S THEN f[u] ELSE 0]

RecState == {"idle", "queued", "fetched", "cached"}
PushState == {"none", "delayed", "active", "moved"}

EmptyRec(state) == [state |-> state, batch |-> Zero, listed |-> {}]
IdleRec == EmptyRec("idle")
IdlePush == [state |-> "none", done |-> {}, stalls |-> 0]

UpdateJob == [inc : Bytes, for : SUBSET Users, stalls : Nat]
ActiveJob == [inc : Bytes, for : SUBSET Users, stalls : Nat,
              written : BOOLEAN, first : SUBSET Users]

ASSUME NoJobAssumption == NoJob \notin ActiveJob

TypeOK ==
    /\ generated \in [Nodes -> Bytes]
    /\ counter \in [Nodes -> Bytes]
    /\ rec \in [Nodes -> [state : RecState, batch : Bytes, listed : SUBSET Users]]
    /\ redis \in [Nodes -> Bytes]
    /\ processing \in [Nodes -> Bytes]
    /\ push \in [Nodes -> [state : PushState, done : SUBSET Users, stalls : Nat]]
    /\ history \in [Nodes -> Bytes]
    /\ updates \in Seq(UpdateJob)
    /\ active \in [Workers -> ActiveJob \cup {NoJob}]
    /\ alive \in SUBSET Users
    /\ used \in Bytes
    /\ lifetime \in Bytes
    /\ connected \in SUBSET Users
    /\ welcomed \in Bytes
    /\ tied \in SUBSET Users
    /\ mishaps \in Nat

Init ==
    /\ generated = [n \in Nodes |-> Zero]
    /\ counter = [n \in Nodes |-> Zero]
    /\ rec = [n \in Nodes |-> IdleRec]
    /\ redis = [n \in Nodes |-> Zero]
    /\ processing = [n \in Nodes |-> Zero]
    /\ push = [n \in Nodes |-> IdlePush]
    /\ history = [n \in Nodes |-> Zero]
    /\ updates = <<>>
    /\ active = [w \in Workers |-> NoJob]
    /\ alive = Users
    /\ used = Zero
    /\ lifetime = Zero
    /\ connected = {}
    /\ welcomed = Zero
    /\ tied = {}
    /\ mishaps = 0

Mishap ==
    /\ mishaps < MaxMishaps
    /\ mishaps' = mishaps + 1

-----------------------------------------------------------------------------
(* The node (external): xray counts, and forgets on an answer or a restart. *)

Transfer(n, u) ==
    /\ generated[n][u] < MaxBytes
    /\ generated' = [generated EXCEPT ![n][u] = @ + 1]
    /\ counter' = [counter EXCEPT ![n][u] = @ + 1]
    /\ UNCHANGED <<rec, cacheVars, updates, active, userVars, mishaps>>

RestartXray(n) ==
    /\ Mishap
    /\ counter' = [counter EXCEPT ![n] = Zero]
    /\ UNCHANGED <<generated, rec, cacheVars, updates, active, userVars>>

-----------------------------------------------------------------------------
(* The recordUserUsage job: one per node, its jobId names the node.         *)

QueueRecord(n) ==
    /\ rec[n].state = "idle"
    /\ rec' = [rec EXCEPT ![n].state = "queued"]
    /\ UNCHANGED <<nodeVars, cacheVars, updates, active, userVars, mishaps>>

(* Fault: a report in which nobody reached IgnoreBelow ends the job.        *)
FetchStats_SkipIdle(n) ==
    /\ rec[n].state = "queued"
    /\ LET counted == {u \in Users : counter[n][u] >= IgnoreBelow} IN
        rec' = [rec EXCEPT ![n] =
                    IF counted = {} THEN IdleRec
                    ELSE [state |-> "fetched", batch |-> Only(counter[n], counted),
                          listed |-> counted]]
    /\ counter' = [counter EXCEPT ![n] = Zero]
    /\ UNCHANGED <<generated, cacheVars, updates, active, userVars, mishaps>>

(* getUsersStats({reset: true}) answers with every user that sent something, *)
(* and possibly others.  An empty list ends the job.                        *)
FetchStats(n) ==
    /\ rec[n].state = "queued"
    /\ \E listed \in SUBSET Users :
        /\ {u \in Users : counter[n][u] > 0} \subseteq listed
        /\ LET counted == {u \in listed : counter[n][u] >= IgnoreBelow}
           IN rec' = [rec EXCEPT ![n] =
                        IF listed = {} THEN IdleRec
                        ELSE [state |-> "fetched", batch |-> Only(counter[n], counted),
                              listed |-> counted]]
    /\ counter' = [counter EXCEPT ![n] = Zero]
    /\ UNCHANGED <<generated, cacheVars, updates, active, userVars, mishaps>>

(* The call fails, before the node forgets its counters or after.           *)
FetchFails(n) ==
    /\ rec[n].state = "queued"
    /\ rec' = [rec EXCEPT ![n] = IdleRec]
    /\ \/ /\ UNCHANGED counter
          /\ UNCHANGED mishaps
       \/ /\ Mishap
          /\ counter' = [counter EXCEPT ![n] = Zero]
    /\ UNCHANGED <<generated, cacheVars, updates, active, userVars>>

(* Fault: the fields are set instead of incremented.                        *)
CacheUsage_Set(n) ==
    /\ rec[n].state = "fetched"
    /\ rec' = [rec EXCEPT ![n].state = "cached"]
    /\ redis' = [redis EXCEPT ![n] = rec[n].batch]
    /\ UNCHANGED <<nodeVars, processing, push, history, updates, active, userVars, mishaps>>

(* The pipeline of hincrby and expire; a failed pipeline does not stop the  *)
(* job.                                                                     *)
CacheUsage(n) ==
    /\ rec[n].state = "fetched"
    /\ rec' = [rec EXCEPT ![n].state = "cached"]
    /\ \/ /\ redis' = [redis EXCEPT ![n] = Plus(@, rec[n].batch)]
          /\ UNCHANGED mishaps
       \/ /\ Mishap
          /\ UNCHANGED redis
    /\ UNCHANGED <<nodeVars, processing, push, history, updates, active, userVars>>

(* fromNano(multiplier) * bytes, rounded down: exactly so for whole numbers; *)
(* for others the code's floating point may be one byte off.                *)
Billed(n, b) == IF Multiplier[n] = 0 THEN 0 ELSE (Multiplier[n] * b) \div One

(* updateUserUsage queues the list in chunks: each step queues one.         *)
QueueUpdates(n) ==
    /\ rec[n].state = "cached"
    /\ Len(updates) < MaxQueue
    /\ \E chunk \in SUBSET rec[n].listed :
        /\ chunk # {}
        /\ updates' = Append(updates,
                [inc |-> [u \in Users |-> IF u \in chunk THEN Billed(n, rec[n].batch[u]) ELSE 0],
                 for |-> chunk, stalls |-> 0])
        /\ rec' = [rec EXCEPT ![n].listed = @ \ chunk]
    /\ UNCHANGED <<nodeVars, cacheVars, active, userVars, mishaps>>

(* recordUserUsageDelayed: the deduplication id is taken until the push job *)
(* of this key has ended, and an add under a taken id does nothing.         *)
SchedulePush(n) ==
    /\ rec[n].state = "cached"
    /\ rec[n].listed = {}
    /\ push' = IF push[n].state = "none"
               THEN [push EXCEPT ![n].state = "delayed"]
               ELSE push
    /\ rec' = [rec EXCEPT ![n] = IdleRec]
    /\ UNCHANGED <<nodeVars, redis, processing, history, updates, active, userVars, mishaps>>

(* A Redis error after the fetch: the catch block ends the job.             *)
RecordFails(n) ==
    /\ rec[n].state \in {"fetched", "cached"}
    /\ Mishap
    /\ rec' = [rec EXCEPT ![n] = IdleRec]
    /\ UNCHANGED <<nodeVars, cacheVars, updates, active, userVars>>

(* The worker dies: the stalled job starts again from the fetch.  A job that *)
(* has stalled too often is dropped instead, which is what this step and a  *)
(* FetchFails that leaves the counters alone do together.                   *)
CrashRecord(n) ==
    /\ rec[n].state \in {"fetched", "cached"}
    /\ Mishap
    /\ rec' = [rec EXCEPT ![n] = EmptyRec("queued")]
    /\ UNCHANGED <<nodeVars, cacheVars, updates, active, userVars>>

-----------------------------------------------------------------------------
(* The push job of a node's hash.                                           *)

(* Records are not disabled (SERVICE_DISABLE_USER_USAGE_RECORDS is off, as   *)
(* it is unless set): else the job would end here, and its hash expire.     *)
StartPush(n) ==
    /\ push[n].state = "delayed"
    /\ push' = [push EXCEPT ![n].state = "active"]
    /\ UNCHANGED <<nodeVars, rec, redis, processing, history, updates, active, userVars, mishaps>>

(* Fault: a processing key left by a crashed run is scanned again.          *)
SkipPush_Recover(n) ==
    /\ push[n].state = "active"
    /\ redis[n] = Zero
    /\ push' = [push EXCEPT ![n].state = "moved"]
    /\ UNCHANGED <<nodeVars, rec, redis, processing, history, updates, active, userVars, mishaps>>

(* exists(redisKey): with no hash the job returns, and its finally block    *)
(* still deletes the processing key.  A hash field is never 0 in the model, *)
(* so the hash exists when some count is positive.                          *)
SkipPush(n) ==
    /\ push[n].state = "active"
    /\ redis[n] = Zero
    /\ processing' = [processing EXCEPT ![n] = Zero]
    /\ push' = [push EXCEPT ![n] = IdlePush]
    /\ UNCHANGED <<nodeVars, rec, redis, history, updates, active, userVars, mishaps>>

(* rename(redisKey, processingKey) replaces whatever the target held.       *)
RenameHash(n) ==
    /\ push[n].state = "active"
    /\ redis[n] # Zero
    /\ processing' = [processing EXCEPT ![n] = redis[n]]
    /\ redis' = [redis EXCEPT ![n] = Zero]
    /\ push' = [push EXCEPT ![n].state = "moved", ![n].done = {}]
    /\ UNCHANGED <<nodeVars, rec, history, updates, active, userVars, mishaps>>

Unscanned(n) == {u \in Users : processing[n][u] > 0} \ push[n].done

(* One batch of the scan.  The upsert drops the rows of users that are gone; *)
(* an error is swallowed by the command handler and the batch is lost.      *)
UpsertBatch(n) ==
    /\ push[n].state = "moved"
    /\ \E batch \in SUBSET Unscanned(n) :
        /\ batch # {}
        /\ push' = [push EXCEPT ![n].done = @ \cup batch]
        /\ \/ /\ history' = [history EXCEPT ![n] = Plus(@, Only(processing[n], batch \cap alive))]
              /\ UNCHANGED mishaps
           \/ /\ Mishap
              /\ UNCHANGED history
    /\ UNCHANGED <<nodeVars, rec, redis, processing, updates, active, userVars>>

FinishPush(n) ==
    /\ push[n].state = "moved"
    /\ Unscanned(n) = {}
    /\ processing' = [processing EXCEPT ![n] = Zero]
    /\ push' = [push EXCEPT ![n] = IdlePush]
    /\ UNCHANGED <<nodeVars, rec, redis, history, updates, active, userVars, mishaps>>

(* A Redis error in the scan: the finally block drops what is left.         *)
PushFails(n) ==
    /\ push[n].state = "moved"
    /\ Mishap
    /\ processing' = [processing EXCEPT ![n] = Zero]
    /\ push' = [push EXCEPT ![n] = IdlePush]
    /\ UNCHANGED <<nodeVars, rec, redis, history, updates, active, userVars>>

(* The worker dies with the processing key in place.                        *)
CrashPush(n) ==
    /\ push[n].state \in {"active", "moved"}
    /\ Mishap
    /\ push' = [push EXCEPT ![n] =
                    IF @.stalls < MaxStalled
                    THEN [state |-> "delayed", done |-> {}, stalls |-> @.stalls + 1]
                    ELSE IdlePush]
    /\ UNCHANGED <<nodeVars, rec, redis, processing, history, updates, active, userVars>>

(* NODE_USER_USAGE's time to live is three hours; a scheduled push fires    *)
(* after two minutes, so only a hash nothing is about to push can expire.   *)
ExpireHash(n) ==
    /\ redis[n] # Zero
    /\ push[n].state = "none"
    /\ rec[n].state = "idle"
    /\ Mishap
    /\ redis' = [redis EXCEPT ![n] = Zero]
    /\ UNCHANGED <<nodeVars, rec, processing, push, history, updates, active, userVars>>

(* The weekly cleanOldUsageRecords job truncates the table.                 *)
TruncateHistory ==
    /\ Mishap
    /\ history' = [n \in Nodes |-> Zero]
    /\ UNCHANGED <<nodeVars, rec, redis, processing, push, updates, active, userVars>>

-----------------------------------------------------------------------------
(* The updateUsersUsage jobs.                                               *)

StartUpdate(w) ==
    /\ active[w] = NoJob
    /\ updates # <<>>
    /\ active' = [active EXCEPT ![w] =
            [inc |-> Head(updates).inc, for |-> Head(updates).for,
             stalls |-> Head(updates).stalls, written |-> FALSE, first |-> {}]]
    /\ updates' = Tail(updates)
    /\ UNCHANGED <<nodeVars, rec, cacheVars, userVars, mishaps>>

(* Fault: every row that is written counts as a first connection.           *)
FirstConnections_All(rows, same) == rows
(* isFirstConnection, first_connected_at = online_at: a row without a first  *)
(* connection gets both, and a row whose first connection has the time of    *)
(* this transaction (same) compares equal too.                              *)
FirstConnections(rows, same) == (rows \ connected) \cup same

(* BulkIncrementUsedTraffic: one statement, joined with the rows that exist. *)
(* Both times are NOW(), the begin of a transaction in milliseconds, and five *)
(* jobs run at once: which of the rows' first connections are of the same    *)
(* millisecond is free, since a transaction may wait for the rows' locks    *)
(* until long after its time.                                               *)
WriteUpdate(w) ==
    /\ active[w] # NoJob
    /\ ~active[w].written
    /\ LET rows == active[w].for \cap alive IN
        /\ used' = Plus(used, Only(active[w].inc, rows))
        /\ lifetime' = Plus(lifetime, Only(active[w].inc, rows))
        /\ connected' = connected \cup rows
        /\ \E same \in SUBSET (rows \cap connected) :
            /\ active' = [active EXCEPT ![w].written = TRUE,
                                       ![w].first = FirstConnections(rows, same)]
            /\ tied' = tied \cup same
    /\ UNCHANGED <<nodeVars, rec, cacheVars, updates, alive, welcomed, mishaps>>

(* fireUserEventBulk, for the users the statement returned.                 *)
Fire(w) ==
    welcomed' = [u \in Users |-> welcomed[u] + (IF u \in active[w].first THEN 1 ELSE 0)]

FinishUpdate(w) ==
    /\ active[w] # NoJob
    /\ active[w].written
    /\ Fire(w)
    /\ active' = [active EXCEPT ![w] = NoJob]
    /\ UNCHANGED <<nodeVars, rec, cacheVars, updates, alive, used, lifetime, connected, tied, mishaps>>

(* Fault: the handler rethrows, so that BullMQ tries the job again.         *)
UpdateFails_Retry(w) ==
    /\ active[w] # NoJob
    /\ Mishap
    /\ updates' = <<[inc |-> active[w].inc, for |-> active[w].for,
                     stalls |-> active[w].stalls]>> \o updates
    /\ active' = [active EXCEPT ![w] = NoJob]
    /\ UNCHANGED <<nodeVars, rec, cacheVars, userVars>>

(* The statement or the queue fails: the handler logs and returns, so the   *)
(* job counts as completed and its attempts are never used.                 *)
UpdateFails(w) ==
    /\ active[w] # NoJob
    /\ Mishap
    /\ active' = [active EXCEPT ![w] = NoJob]
    /\ UNCHANGED <<nodeVars, rec, cacheVars, updates, userVars>>

(* The worker dies: the stalled job is the next to run, whether it had       *)
(* written, fired or neither.                                               *)
CrashUpdate(w) ==
    /\ active[w] # NoJob
    /\ Mishap
    /\ updates' = IF active[w].stalls < MaxStalled
                  THEN <<[inc |-> active[w].inc, for |-> active[w].for,
                          stalls |-> active[w].stalls + 1]>> \o updates
                  ELSE updates
    /\ active' = [active EXCEPT ![w] = NoJob]
    /\ UNCHANGED welcomed \/ (active[w].written /\ Fire(w))
    /\ UNCHANGED <<nodeVars, rec, cacheVars, alive, used, lifetime, connected, tied>>

-----------------------------------------------------------------------------
(* Other writers of the same rows.                                          *)

(* Fault: the wrong column is zeroed.                                       *)
ResetTraffic_Lifetime(u) ==
    /\ u \in alive
    /\ used[u] > 0
    /\ lifetime' = [lifetime EXCEPT ![u] = 0]
    /\ UNCHANGED <<nodeVars, rec, cacheVars, updates, active, alive, used,
                   connected, welcomed, tied, mishaps>>

(* A reset of the used traffic of u: one user's, or a batch by strategy.    *)
ResetTraffic(u) ==
    /\ u \in alive
    /\ used[u] > 0
    /\ used' = [used EXCEPT ![u] = 0]
    /\ UNCHANGED <<nodeVars, rec, cacheVars, updates, active, alive, lifetime,
                   connected, welcomed, tied, mishaps>>

(* Deleting a user deletes its traffic row and its history by cascade.      *)
DeleteUser(u) ==
    /\ u \in alive
    /\ Mishap
    /\ alive' = alive \ {u}
    /\ used' = [used EXCEPT ![u] = 0]
    /\ lifetime' = [lifetime EXCEPT ![u] = 0]
    /\ connected' = connected \ {u}
    /\ history' = [n \in Nodes |-> [history[n] EXCEPT ![u] = 0]]
    /\ UNCHANGED <<nodeVars, rec, redis, processing, push, updates, active, welcomed, tied>>

RecordStep(n) ==
    \/ QueueRecord(n) \/ FetchStats(n) \/ FetchFails(n) \/ CacheUsage(n)
    \/ QueueUpdates(n) \/ SchedulePush(n) \/ RecordFails(n) \/ CrashRecord(n)

PushStep(n) ==
    \/ StartPush(n) \/ SkipPush(n) \/ RenameHash(n) \/ UpsertBatch(n)
    \/ FinishPush(n) \/ PushFails(n) \/ CrashPush(n) \/ ExpireHash(n)

UpdateStep(w) ==
    \/ StartUpdate(w) \/ WriteUpdate(w) \/ FinishUpdate(w)
    \/ UpdateFails(w) \/ CrashUpdate(w)

Next ==
    \/ \E n \in Nodes : RecordStep(n) \/ PushStep(n) \/ RestartXray(n)
    \/ \E n \in Nodes, u \in Users : Transfer(n, u)
    \/ \E w \in Workers : UpdateStep(w)
    \/ \E u \in Users : ResetTraffic(u) \/ DeleteUser(u)
    \/ TruncateHistory

Spec == Init /\ [][Next]_vars

-----------------------------------------------------------------------------
(* Invariants.                                                              *)

(* The bytes of u through n that a job holds between two stores: fetched and *)
(* not yet cached, renamed and not yet scanned.                             *)
Fetched(n, u) == IF rec[n].state = "fetched" THEN rec[n].batch[u] ELSE 0
Unwritten(n, u) ==
    IF push[n].state = "moved" /\ u \notin push[n].done THEN processing[n][u] ELSE 0

(* The bytes of u through n that some part of the pipeline holds.           *)
Accounted(n, u) ==
    counter[n][u] + Fetched(n, u) + redis[n][u] + Unwritten(n, u) + history[n][u]

(* A byte is never recorded twice, whatever crashes and is run again: the   *)
(* push job drops the rest of an interrupted processing key (rename over it, *)
(* or the finally block's del) and never scans it a second time.            *)
CountedAtMostOnce ==
    \A n \in Nodes, u \in Users : Accounted(n, u) <= generated[n][u]

(* The pipeline keeps the promise of UsageLedger: every step of a job, a     *)
(* node or another writer sends bytes, moves them on, or is a loss.         *)
Held == [n \in Nodes |-> [u \in Users |->
            counter[n][u] + Fetched(n, u) + redis[n][u] + Unwritten(n, u)]]

Ledger == INSTANCE UsageLedger
    WITH sent <- generated, held <- Held, recorded <- history, known <- alive,
         losses <- mishaps

KeepsLedger == Ledger!Spec

(* What a report has still to queue of u, what is queued, and what a slot has *)
(* taken and not written: the bytes that will be billed to u.               *)
Unqueued(r, u) ==
    IF r.state \in {"fetched", "cached"} /\ u \in r.listed THEN r.batch[u] ELSE 0

Unbilled(u) ==
    SumFunction([n \in Nodes |-> Billed(n, Unqueued(rec[n], u))])
    + SumFunction([i \in DOMAIN updates |-> updates[i].inc[u]])
    + SumFunction([w \in Workers |->
            IF active[w] = NoJob \/ active[w].written THEN 0 ELSE active[w].inc[u]])

(* A report whose multiplied bytes are no whole number loses the fraction:   *)
(* less than one for each of its bytes.                                     *)
Rounding(n, b) == IF Multiplier[n] % One = 0 THEN 0 ELSE b

(* What is billed to u and will be are the multiplied bytes its nodes have   *)
(* answered for, but for what each report rounds away.                      *)
BilledInFull(u) ==
    LET answered == [n \in Nodes |-> generated[n][u] - counter[n][u]]
        billable == SumFunction([n \in Nodes |-> Billed(n, answered[n])])
        rounded  == SumFunction([n \in Nodes |-> Rounding(n, answered[n])])
    IN /\ lifetime[u] + Unbilled(u) <= billable
       /\ billable <= lifetime[u] + Unbilled(u) + rounded

(* With no crash, failure, deletion, expiry or truncation so far, and no    *)
(* byte below the ignored size, every byte a user sent is in exactly one    *)
(* place of the pipeline, and is billed exactly once: one that several slots *)
(* and several nodes' reports bill at once as much as any other.            *)
LosslessWithoutMishap ==
    mishaps = 0 /\ IgnoreBelow <= 1 =>
        /\ \A n \in Nodes, u \in Users : Accounted(n, u) = generated[n][u]
        /\ \A u \in Users : BilledInFull(u)

(* The lifetime counter never falls behind the used one: they move in one   *)
(* statement, and only the used one is reset.                               *)
UsedWithinLifetime ==
    \A u \in Users : used[u] <= lifetime[u]

(* A user is announced as connected for the first time at most once, though *)
(* an updateUsersUsage job may run again after it wrote and even announced,  *)
(* and several run at once for the same user; but for a user that two        *)
(* transactions of one millisecond wrote first, whom both announce.         *)
WelcomedOnce ==
    \A u \in Users : welcomed[u] <= 1 \/ u \in tied

(* A user is billed each byte at most once per run of the job that bills it: *)
(* without retries (attempts) the only second run is that of a stalled job, *)
(* so lifetime traffic stays within 1 + MaxStalled times the multiplied     *)
(* bytes of all the nodes.                                                  *)
BilledPerRun ==
    \A u \in Users :
        lifetime[u] <= (1 + MaxStalled)
                       * SumFunction([n \in Nodes |-> Billed(n, generated[n][u])])

-----------------------------------------------------------------------------
(* Liveness.  The scheduler's cron and the workers keep running; that a node *)
(* keeps answering with a list that is not empty is the environment's part. *)

FetchListed(n) ==
    FetchStats(n) /\ rec'[n].state = "fetched"

Fairness ==
    /\ \A n \in Nodes :
        /\ WF_vars(QueueRecord(n)) /\ SF_vars(FetchListed(n))
        /\ WF_vars(CacheUsage(n)) /\ WF_vars(QueueUpdates(n)) /\ WF_vars(SchedulePush(n))
        /\ WF_vars(StartPush(n)) /\ WF_vars(SkipPush(n) \/ RenameHash(n))
        /\ WF_vars(UpsertBatch(n)) /\ WF_vars(FinishPush(n))
    /\ \A w \in Workers :
        WF_vars(StartUpdate(w)) /\ WF_vars(WriteUpdate(w)) /\ WF_vars(FinishUpdate(w))

FairSpec == Spec /\ Fairness

(* What a node's hash holds is taken out of it in the end, though an add    *)
(* that finds its deduplication id taken schedules nothing: a later report  *)
(* of the node schedules the push.                                          *)
HashIsFlushed ==
    \A n \in Nodes : redis[n] # Zero ~> redis[n] = Zero

=============================================================================
