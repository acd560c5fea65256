# Verification of the Remnawave backend

TLA+ modules, TLC configurations and TLAPS proofs about the backend of the Remnawave panel: a
NestJS program over PostgreSQL and Redis that manages proxy *users* and the *nodes* (remote
servers running xray) that let them in. Every definition is translated from the source under
`src/`; `PROJECT.json` gives the lines each one stands for.

## 1. Inventory

The backend runs as three kinds of process over one database and one Redis: **api** (HTTP, any
number), **scheduler** (one; it only queues jobs) and **processors** (any number; BullMQ workers).
They share no memory. What one does the others see through PostgreSQL rows (no long transaction:
each statement commits by itself, under READ COMMITTED), Redis keys, and BullMQ jobs, which run
concurrently, are mostly deduplicated by a job id, and start over when their worker stalls.
Events inside a process (CQRS event bus, EventEmitter) only live in memory.

| Component | State | Operations | Interacts with | Hard behaviour |
|---|---|---|---|---|
| User usage pipeline | node counters (at the node), Redis hash and processing key per node, `nodes_user_usage_history`, `user_traffic` | `recordUserUsage`, push from Redis, `updateUsersUsage` | nodes (HTTP), the traffic reset, deletion of users | answers lost after the node forgot its counters; crash between rename, upsert and delete; deduplicated delayed jobs; jobs run twice |
| User lifecycle | `users.status`, limit, expiry, squads | create, update, enable, disable, delete, revoke, reset, extend (requests and modify-many jobs) | watchdog, reset and serial jobs, node calls | decisions from stale reads; the event is published after the write |
| Watchdog, reset and serial jobs | the same rows, for all users at once | limit, expire, reset by strategy, update / extend / delete all | user events, restart of all nodes | several statements per job with everything else between them; a different path from 10 000 users on |
| Calls to the nodes | queued add / remove calls | `AddUserToNode`, `RemoveUserFromNode`, `node-users` worker, restart of all nodes | nodes | calls overtake one another, and are never retried |
| Paused queues | the pause flag of a queue | `throttleQueues`, pause and resume by the cleanup and the by-profile restart | the usage queues, `startNode`, `startAllNodes` | a pause is not counted and outlives its job |
| Node lifecycle | `isDisabled`, `isConnecting`, `isConnected`, profile and inbounds of a node | start, stop, health check, enable, disable, update, delete | by-profile restart, user calls | the flag `isConnecting` is a lock without an owner; checks act on snapshots |
| By-profile restart | one job per profile, the set of waiting profiles | deduplication, retry after 10 s | node lifecycle, paused queues | coalescing of requests; nodes handled in parallel |
| Node usage and traffic | `nodes_usage_history`, `nodes_traffic_usage_history`, `nodes.traffic_used_bytes` and reset day | record, monthly reset, reset by request | nodes | read, archive and zero in separate statements, for all nodes from one read |
| Internal squads | inbounds a squad grants, its members | create, update, delete, add all users, remove all users | by-profile restarts | who has to be restarted is found by comparing reads before and after a write |
| HWID devices, settings | rows per user and device; settings cached in Redis | check the limit, insert, upsert job; read through the cache, edit | subscription delivery | check then act; a fill that an edit overtakes |
| Subscription templates | rows, and a cache by name | create, update, delete, read, seed | subscription delivery | the entry deleted is that of a name read earlier |
| Configuration profiles and hosts | configuration, rows of its inbounds, hosts and their lists | create, edit, delete, sync at a start; create, update, assign, delete | squads, nodes, subscriptions | rows read before the transaction; statements without one |
| Subscription delivery, response rules, import sources | request history | match, render, fetch | users, hosts, HWID | mostly pure |
| Hashed set | a 64 bit order-independent hash of users | add, delete | node configuration | pure |
| Authentication, snippets, billing, settings, notifications, metrics | configuration rows, outgoing messages | create, read, update, delete | - | little beyond the rows |

What makes the components down to profiles and hosts correct is stated as properties below; section 5
says why the others are left out. `PROJECT.json` lists every component with its status, and
under "hazards" the places where a test would hardly reach.

## 2. Modules

### UsagePipeline

The path of a byte: `counter` (what xray holds) -> `rec` (the batch a `recordUserUsage` job
fetched; the node forgets it as it answers) -> `redis` (the node's hash) -> `processing` (the hash
renamed by the push job) -> `history` (rows of `nodes_user_usage_history`); and beside it `updates`
-> `active` (queued and running `updateUsersUsage` jobs, with multiplied bytes) -> `used` and
`lifetime` of `user_traffic`. One action per step between two awaits: `QueueRecord` (cron),
`FetchStats` / `FetchFails`, `CacheUsage` (the hincrby pipeline, whose failure goes unnoticed),
`QueueUpdates` (chunks), `SchedulePush` (deduplicated by the hash's key), `StartPush`, `SkipPush`,
`RenameHash`, `UpsertBatch`, `FinishPush` (the finally block), `StartUpdate`, `WriteUpdate` (one
statement), `FinishUpdate` (FIRST_CONNECTED). Crashes (`CrashRecord`, `CrashPush`, `CrashUpdate`)
put the job back as BullMQ does with a stalled job, at most `MaxStalled` times; other writers of
the rows (`ResetTraffic`, `DeleteUser`, `TruncateHistory`) interleave anywhere.

`FirstConnections` decides as the statement does, by `first_connected_at = online_at`. Both are `NOW()`, the begin of the
transaction in milliseconds, so a run that finds the user connected announces it all the same when its transaction began in
the millisecond of the first connection. The model keeps no clock: which of the rows have that time is a free choice
(`same`), because a run may wait for the rows' locks until long after its time. `tied` remembers
the users this happened to, and `WelcomedOnce` excepts them: two jobs of one millisecond do announce a user twice. For everybody else it holds
across crashes at any point of the job, also after its events were queued.

Abstractions: a byte is a unit; presence counters and the last node are left out; the
hash's fields are never 0; records are not disabled (`SERVICE_DISABLE_USER_USAGE_RECORDS`, off by default, makes the push job
return, so that the hash expires); the flush of Redis when a container starts is not a step; a crash of a record job drops into `FetchFails` when it stalled too
often. A worker that is only thought dead (its lock expired while it went on) is not modelled: two
live runs of one push job are outside the model.

Billing is per report: each job multiplies its own bytes and rounds down (`Billed`; the code multiplies in floating point,
which is exact for whole multipliers and may be one byte off for others, the model in whole numbers), so a report loses less than one for each of
its bytes (`Rounding`) unless the multiplier is whole. `BilledInFull` compares what is billed and `Unbilled` (still in a
report, a queued job or a slot) with the multiplied bytes the nodes have answered for; `BilledPerRun` bounds it when jobs stall and run again.

`UsageLedger` is what the pipeline promises, without its jobs and caches: per node and user, bytes
`sent`, `held` somewhere and `recorded`, and a count of `losses`. `KeepsLedger` is the refinement: `Ledger` instantiates it
with `held` as the sum of the five places a byte can be in, `recorded` as the history, and `losses` as the
mishaps that happened. A step of the pipeline is then a byte sent, bytes that settle (towards the
history, without loss but for what is below the ignored size or belongs to a deleted user), a counted
loss, or a stutter.

### UserLifecycle

`status`, `used`, `limit`, `overdue` (the expiry date has passed) and `squad` are the row;
`op[s]` is a request that has read its user and decided (`Decision`) what it will write and
publish; `Write` and `Publish` are its later steps, so that everything else happens between its
read and its write. `reset` and `bulk` are the jobs over all users, one statement per action;
`fired` and `jobs` are bags of queued user events and node calls, taken in any order;
`onNode` is whom the node lets in; `wanted` and `roster` are a restart of all nodes that is queued,
and one that has read the active users and not yet sent them.

Abstractions: one connected node stands for all; a squad is known by where its inbounds are
(nowhere, on other nodes, on this node; `bare` is a squad without any); a date is past or not;
a roster is read at once though the code reads it in batches; a statement that goes range by range
is one step that may stop anywhere; the strategies' users are a nondeterministic partition;
modify-many jobs run the requests' own functions, so a slot stands for either; a stalled serial job
that runs again is `CrashBulk` and its first statement again. `bulkUpdateUsersInternalSquads` and
`bulkDeleteUsersByUuid` are not modelled.

Two history variables say when a guarantee is off, and are part of the statements: `slipped` (a
LIMITED user whose limit or traffic changed under a stale read, or between two statements of a
job, or that was created LIMITED) and `adrift` (a user on whom two activities overlapped, for whom
a call or an event failed, or whom one update both disabled and gave other squads). A statement of
the watchdog or of the reset job is no such activity: it leaves nothing behind but the events it
fires. A restart of all nodes that reads its users while a request on one has still to write is
one: it sends what that request is about to change. Both are as
narrow as the code allows: a restart of all nodes clears `adrift` for whoever nothing else is under way for, and any change of status clears
`slipped`.

### QueueThrottle

Jobs that pause the queues of other jobs: the traffic reset (`throttleQueues`: pause, count, wait
up to `MaxAttempts` times, work, resume), the cleanup of usage records (pause inside its `try`, no
wait) and the restarts of profiles (pause `startNode`, then `startAllNodes`, resume in `finally`).
`paused` is the flag, `waiting` / `busy` the queue and its workers, `run[j]` how far a job is.
The constants say what each job pauses, whether it waits (`Drains`), pauses within its `try`
(`Guarded`), and is started by a cron (`Recurring`). The counts of several queues are one read:
while they are paused the counts only fall. One job of each kind runs at a time (global
concurrency 1 for resets and cleanups, the deduplication id for a profile). `disturbed` and
`abandoned` are history: a queue was resumed under a job; a job that had paused a queue is gone. The
specification's own names (`ThrottleInit`, `ThrottleNext`, `ThrottleSpec`, `ThrottleTypeOK`, `failures`)
keep it apart from UsagePipeline, whose queues it pauses: the proofs of both are in one module.

### NodeLifecycle

The nodes of one configuration profile. `node[n]` is a row of `nodes` (`profile`: it has the
profile; `bound`: it has active inbounds; and the three flags), `agent[n]` is the server itself:
whether it answers, and the version of the profile its xray runs (0: none). `start`, `stop`,
`deleting` and `check` are the jobs of a node, one of each by their job ids; `restart` is the
profile's `startAllNodesByProfile` job, `again` the set of waiting profiles of
`StartAllNodesByProfileQueueEvents`, `all` a `startAllNodes` job; `req[n]` and `bulk` are requests
on one node and on many. Every job is cut where it awaits: `StartRead`, `StartFlag`,
`StartPrepare`, `StartSend`, `StartFinish` are one `startNode`; `CheckAll` is the cron, and
`CheckProbe` and `CheckWrite` go by the `isConnected` it had read; `RestartPause`, `RestartSelect`,
`RestartMark` (node by node, with `RestartHalt` for one without inbounds), `RestartRead`,
`RestartSend`, `RestartWrite`, `RestartResume` are the restart. A write is `Put`: an update by uuid
that does nothing when the row is gone, and overwrites whatever was written since it was decided.

Abstractions: one profile, whose content is a version number (a change of a squad, sent to the
nodes by a restart too, is a version that drops no inbound); a node's health, plugins and the
reading of the configuration are one step; the cron's query and its `addBulk` are one step, and so
are a check's write and the start it queues, the two writes of `disableNode`, and the stops a
deleted profile queues; one request of each node at a time, and one on many nodes; the nodes of a
restart are marked in any order; when the restart fails it resumes, and the workers of its `pMap`
that would go on for a while do not; the `force` flag, which only asks the node to restart an xray
with the same configuration, is left out. `resetNodeTraffic`, `reorderNodes` and the bulk actions
(the single ones in a loop) are not modelled.

History variables: `owed` (a restart was asked for that none has begun), `orphans` (nodes whose job
ended without its last write), `clean` (nodes disabled while nothing else was under way on them)
and `overlapped` (nodes whose `startNode` job held a configuration when a restart read its own, or
when it left the node out: pausing a queue does not wait for its running jobs, so that the older
configuration may arrive last; a later start that reads the configuration anew takes the node out again). They mark where the code gives no guarantee, and the properties say so:

- `ConnectingHasOwner`: `isConnecting` is set only while a job will clear it, or its job died. A
  start that finds no plugin or no configuration, or whose worker dies for good, leaves it set, and
  the node is then skipped by the health check and by every later `startNode`.
- `DisabledIsStopped` is claimed for `clean` nodes: a node disabled while its start is at work may
  be started after its stop, and be written connected and disabled at once.
- `NodeComesUp` supposes that a node whose xray is not running does not answer the stats call
  (`Unknown = {"lost"}`): one that answers without xray information is marked disconnected and not
  started (`node-health-check.processor.ts:96-109`).

### NodeTraffic

`job[n]` is a node's `recordNodeUsage` job (ask, write the hourly history, add to `used`); `reset[s]` is
a run of the daily task or an administrator's reset: a read of the used traffic (of all nodes, for the
task), and node by node an archived row and a zero. `month` and `day` are a calendar of months of
given lengths, so that a reset day a month lacks falls on its last. History: `skewed`, nodes whose
traffic changed between a reset's read and its zero, or for whom a step failed; `disturbed`, nodes
whose settings changed or whose turn failed this month. What the node counted and the job lost before
it wrote anything is in neither history, so that the properties say nothing of it.

### SquadRestarts

`grants` and `members` are the squads; `loaded[p]` is what the nodes of profile `p` let in,
`asked` the profiles whose restart is queued and `restart[p]` one that has read and not yet sent.
A request is cut at its reads, its write and the restarts it asks for; the jobs of the squads queue run one at
a time and again when they stall. That a restart asked for does begin is proved of NodeLifecycle
(`RestartNotLost`). History: `missed`, profiles left out because a request failed in between, or because
what it compared had been changed by another.

### SubscriptionAccess

One user's devices. A request (a subscription, or the panel's create call) reads the settings of the
panel and of the external squad through their cache, then the user's limit, then looks the device up, counts and
inserts; a device that is known, or need not be counted, is written by a queued job. The administrator
edits the settings (write, then delete the entry) and the limit, and removes devices or the user. History:
`cap`, the highest limit in force; `unchecked`, devices written without a count; `served`; `slipped`,
entries an edit missed. The user is active and has an external squad; a squad without device settings
of its own stands for none.

### TemplateCache

The templates of one type, the cache by name that subscriptions fill, and the updates and deletions
that write a row and delete an entry in one order or the other. A `Restart` drops what was under way;
when the container starts, the seed flushes Redis, unless that fails, and creates a Default template if none is left. History: `borrowed`, entries filled from the Default;
`slipped`, entries an edit missed.

### ProfileHosts

`config[p]` is what a profile's xray configuration says of each tag, `rows[t]` the row of
`config_profile_inbounds` with that tag (tags are unique over all profiles), `host[h]` a host with the
row it refers to and its two lists, nodes and excluded squads. `slot[s]` is a request at work.
`BeginEdit` reads the profile's rows and `CommitEdit` is the transaction that decides by them:
`Removed`, `Added` and `Updated` are `syncInbounds`, and `Collides` what the unique tag and a
vanished row make of it. One step stands for the transaction because two that
touch the same row, tag or profile wait for each other, and others commute; those that deadlock are
failures. A request about a host carries the statements it has `todo`, one per step: the lists it was
given are cleared and filled, and then the row is written; a creation writes the row first. Foreign
keys set a host's references to NULL (`Detached`). `Restart` ends all requests, and `SeedProfile`
goes through the profiles before any request is served, as the entrypoint does; `SeedStops` is a seed
that ended after it removed rows.

Abstractions: an inbound is its type and the rest of its content; both lists are of the same items; fields the properties do not tell
apart (names, ports, flags, order) are left out, so that bulk enable, disable, set port and
reorder are stuttering steps; the checks of a host's template are left out; what an edit or a
deletion does to nodes is in NodeLifecycle; the deletion of a node or a squad, which takes it out of every host's lists by cascade,
is left out. History: `torn`, profiles whose last edit had read older rows
than it changed (the next edit that is not overtaken, or a start, takes them out); `mixed`, profiles
whose last edit or start added or removed an inbound and found others changed, which `syncInbounds` then leaves
as they were: their rows, and with them the subscriptions, keep the old content until
the next edit or start that adds and removes none; `asked` and `crossed`, for the lists.

## 3. Runs

All runs but `node_inbounds` (section 3.1) pass. The bounds are named in the modules: the `Max...`
constants and the sets of the .cfg. Times are those of two workers.

| Run | Bounds | Shows |
|---|---|---|
| usage_crash | 1 user, 1 node, 2 workers, 2 mishaps (318 000 states, 70 s) | types; without a mishap every byte is in exactly one place, and billed exactly once but for what each report rounds away; used <= lifetime; nothing recorded twice, nobody welcomed twice but by two transactions of one millisecond, a byte billed at most once per run of its job; a node's hash is flushed in the end; the pipeline implements UsageLedger |
| user_squads | 1 user, 2 slots, 2 requests, all four kinds of squads (475 000, 75 s) | types; the node matches the row once all is quiet |
| user_batches | 1 user, 1 request and 1 batch job, limits 0 and 1, 1 mishap, restart from 1 user on (296 000, 85 s) | no job revives a disabled user; LIMITED has its cause; the node matches the row; a user over its limit is cut off in the end |
| throttle_traffic | reset and cleanup, 3 mishaps, 2 attempts | types; a job that drained its queues works alone; a paused queue has a job that will resume it, and is resumed in the end |
| node_requests | 1 node, 1 request of any kind, 2 versions, 1 outage or mishap | types; `isConnecting` has a job behind it; a node disabled in peace stays stopped; an enabled node that answers comes up in the end |
| node_profile | 2 nodes, 2 requests (edit, modify, delete, disable), 2 versions, no fault | connected nodes end on the current version; no restart that was asked for is lost |
| node_inbounds | 2 nodes, 1 edit of the profile | the finding of section 3.1 |
| node_traffic | 2 nodes, a month of three days and one of two, 1 byte, 2 requests, 1 mishap (2 560 000, 90 s) | types; the histories agree; a tracked node is reset exactly once a month |
| squad_restarts | 1 user, 1 squad, 3 inbounds of 2 profiles, 2 requests or jobs, 1 mishap (726 000, 130 s) | types; who changes what a profile lets in asks for its restart; the nodes follow in the end |
| subscription_access | 2 devices, 2 requests, 1 edit, 1 mishap | types; the overrun of the device limit is bounded; whoever is served is registered; stale settings have a cause |
| template_cache | 2 templates, 2 names, 2 editors, 1 reader, 4 requests, 1 mishap (785 000, 36 s) | types; a cached template that is not the one of its name has a cause |
| profile_hosts | 2 profiles, 2 tags, 2 types, 2 contents, 1 host, 1 item, 2 slots, 3 requests, 2 mishaps, 4 uuids (463 000, 60 s) | types and references; rows follow the configuration, or the seed can make them; a host's lists are those asked for; a host keeps its inbound |

Why these bounds are enough: every property is about one user, one node, one queue, one cache entry
or one host and at most two activities that overlap on it, which two slots, workers or jobs give; the second mishap lets a
crash hit a job that already started over. For nodes, one node
lets a request, its jobs, the health check and the restart overlap on it with a fault anywhere, and
two nodes give the restart one node that has inbounds and one that has none, with two requests to
change that between its steps; the restart of all nodes that the scheduler asks for at start-up is
the second restart that a request's restart is deduplicated into. Two nodes in node_traffic make the
task's second zero later than its read; the shorter month lacks reset day 3. Three inbounds of two
profiles let a squad keep, lose and gain one at a time. Three requests on profiles let an edit be
overtaken by another and by the profile that takes its tag; of two mishaps one is the restart and
one stops the seed. Where a bound leaves a case out (several users in one batch, both sides of the
10 000 in one run, three profiles under the same restart queues, one user billed through several nodes), the theorems of section 4 cover the
invariants for every value of the constants.

Deadlock is checked for UsagePipeline, QueueThrottle, NodeLifecycle and TemplateCache; the others
stop when their budgets of requests and jobs are spent, so their .cfg says CHECK_DEADLOCK FALSE.

Fairness. The scheduler's crons fire for ever and workers take jobs for ever, so the steps of jobs
that have begun, and the crons, are weakly fair. Nothing forces a request to come, a crash, a failure or a
passing date. `HashIsFlushed` assumes in addition that the node answers with a list that is not
empty again and again (`SF_vars(FetchListed)`): without it there is nothing to flush. Its step may
be disabled and enabled again, hence strong fairness. `ExceededIsCutOff` needs the watchdog's
`FindExceeded`, the events, the calls and the restart. `PausedIsResumed` needs the crons of the two
traffic jobs: when a job died for good only the next one that pauses the same queue resumes it. For
the restart queues no cron does that, which is why the property excepts abandoned queues that no
recurring job pauses: `startNode` and `startAllNodes` then stay paused, also when the workers restart,
until another by-profile restart ends or a container starts (its seed flushes Redis, `prisma/seed/config.seed.ts:66-92`). For the same reason `NodeComesUp` excepts the time a
restart that died has left `startNode` paused; it needs the
cron of the health check and the workers of checks, starts and restarts, but neither that a request
which began goes on, nor that a stop is done, nor that a node which went away comes back.
`NodesCatchUp` needs that a request that has begun goes on or fails, as its process does, and the
workers of the squads queue and of the restarts.

### 3.1 A finding

`start-all-nodes-by-profile.processor.ts:175-177` asserts that a node which is started has had its
active inbounds collected ('Failed to get active node inbounds tags'). The value it looks at,
`new Set(activeNodeTags.get(node.uuid))` (line 173), is never falsy, and line 353 goes through all
the nodes that were selected, also those that lines 92-115 have just disabled for having no
inbounds. `node_inbounds` reaches it: an edit of the profile takes a node's last inbound away while
another node keeps some; the restart disables the first, queues its stop, and then starts it with
no inbounds and writes it connected. `StartedHasInbounds` is the assertion.

### 3.2 Observations

What the modules had to follow and a reader of the code may want to know; none contradicts a document.

- `syncInbounds` rewrites kept rows only if no inbound comes or goes (`config-profile.service.ts:372`): see `mixed` above.
  Its message of success is logged in the `catch` (line 435).
- Three edits that overlap can leave a profile whose configuration has a tag that another profile's row holds;
  the seed then fails on the unique tag at every start, and the entrypoint exits the container.
  This is the exception `torn` in `RowsFollowConfig`.
- `updateTemplate` compares only the new name with Default (`subscription-template.service.ts:75`): the
  Default template itself can be renamed, and every name without a template then fails until a restart.
- `createUserHwidDevice` refuses any device when the limit is 0, where a subscription takes 0 for no limit.
- The check for a taken name in `subscription-template.service.ts` compares the Prisma model's name with
  `SubscriptionTemplates`, which is called `SubscriptionTemplate`: a taken name ends in the general error.
- Between the two statements on a host's excluded squads the exclusions are off, and they stay off when the second fails.

## 4. Proofs

The theorems hold for every value of the constants that meets the modules' assumptions, which are
listed at the end of this section.

- `UsagePipelineProofs`: `TypeCorrect`; `CountedOnce` and the first half of `Lossless`, from the invariant `Balanced`
  about the sum of the five places a byte can be in: each action but `Transfer` conserves that sum
  or, by a mishap or below the ignored size, lowers it (`Conserves`, one lemma per job). `AliveInv`
  is needed for the rows the upsert drops. `UsedBelowLifetime` is inductive by itself;
  `WelcomedAtMostOnce` is not, since `welcomed` says nothing of the jobs about to welcome:
  `WelcomeInv` adds that no user is held by two slots, or held and welcomed already, for the users that are not `tied`.
- Billing, in `UsagePipelineProofs` too: `BilledOncePerRun`, and the second half of `Lossless`. Neither property is inductive,
  since bytes that are fetched or queued will still be billed. `Due(R, u)` is what `u` has been billed and may yet be,
  when a job has `R` runs: for a job that waits, its increment times the runs it has left; for one that is written, a run less;
  for a report, its bytes in every run. `BillInv(R)` says that `Due` is at most `Answered`, the multiplied bytes the nodes have answered
  for, `R` times, and (`AllFit`) that every job has a run left and bills only the users it is for. With
  `R = 1 + MaxStalled` this gives `BilledOncePerRun`. With `R = 1` it is kept by every step but a mishap, and `MatchInv` adds the
  converse: `Answered` exceeds `Due` by no more than the reports have rounded away, so that without a mishap each byte is billed
  exactly once. The arithmetic is that of quotients: a multiplied sum rounded down is at least the sum of the parts rounded down
  (`BilledAdds`), and at most one more (`BilledSplits`), and exactly as much for a whole multiplier.
  The properties add over the nodes with `SumFunction`; the proof counts instead. A sum is the number of its units, pairs of
  an element and a number below its value (`Tally`), so the library's facts about finite sets apply, and `SumIsUnits` shows once that
  `SumFunction` is that number. Its induction over the subsets of a finite set (`SubsetInduction`) takes the property as a
  set of subsets, not as an operator, and so uses only that strict inclusion is well-founded.
- `UserLifecycleProofs`: `TypeCorrect`; `DisabledStays` (an action property, by cases over every
  action); `LimitedCause`, whose inductive invariant adds `SoundRequests`: a request that saw a
  LIMITED user and does not make it ACTIVE neither zeroes its traffic nor raises its limit, so that
  a write that removes the cause either lifts the status or was decided on a row that has changed
  since, and then puts the user into `slipped`.
  `NodeMatches`, whose invariant `Tracking` says of a user that is not adrift what every one of its
  calls, events, requests and restarts under way will still do: if all that is queued is done, in
  any order, the node ends up as the row says, or a restart of all nodes is still to read the row
  (`Repair`); `AllSane` adds the shapes a request under way can have.
- QueueThrottle, in `UsagePipelineProofs` too: `ThrottleTypeCorrect`; `WorksAlone`, which needs `HeldIsPaused` (what an
  undisturbed job holds is paused, so no worker takes a job of it); `NoneForgotten`, inductive by
  itself: whoever resumes a queue leaves it unpaused, and whoever leaves without doing so abandons it.
- `NodeLifecycleProofs`: `TypeCorrect`, one lemma per job, by way of `Parts` (the conjuncts of
  `TypeOK` by name); `NotLost`, inductive by itself: a restart that was asked for and not begun is
  in the queue, in the set of waiting profiles, or will come with a restart of all nodes;
  `ConnectingIsOwned`, whose invariant `AllHeld` narrows what the property says of a working
  restart: of the nodes it starts it has set `isConnecting` only for those with inbounds, so when
  it dies (`RestartCrash` gives up `restart.bound`) the others must be held by a `startNode` job.
  A deleted row is blank (a conjunct of `TypeOK`), which is why no late write makes it connecting.
  `DisabledStaysStopped`: a node disabled in peace is `AtRest`: no start, check or restart has it and
  no request will enable it, and its stop is still to be done, or its xray does not run; `Selected`
  says that a restart only touches the nodes it selected, which were enabled. `ConnectedStaysCurrent`:
  `AllFollow` says, while nothing failed, that a node shown connected which runs an older version is
  taken care of by a job or request of its own (`Tended`) or by a restart that will start it (`Reached`), and that
  whoever holds an older version has a restart to come, unless the node is overlapped; it stands on `Ground`, five facts that need nothing
  of versions (a node is in one place of the restart, an edit that meets a disabled node has noticed so, and so on).

- `UsagePipelineProofs` also proves the refinement, `KeepsTheLedger == Spec => KeepsLedger`: `Keeps` and
  `Loses` say per node and user what an action does to the sum and to the history, `StepShapes` finds
  one of them for every action, and `LedgerStep` turns them into `Settle` and `Lose`.
- `NodeTrafficProofs`: `TypeCorrect`; `Accounted`, where the equation of the two histories needs `Exact` (what a
  reset has read of a node that is not skewed is what the node still has), `Alone` (no two resets
  are past their read of one node unless it is skewed) and `ReadTrue`; `OnceAMonth`, by the task's
  progress through the nodes (`Monthly`), for every calendar and reset day.
- `SquadRestartsProofs`: `TypeCorrect`; `NodesFollow`, whose invariant adds that a squad that is gone
  grants nothing and has no members (`Vanished`).
- `SubscriptionAccessProofs`: `TypeCorrect`; `CacheStale`; `ServedRegistered`; `LimitOverrun`, by
  counting the requests that are past their count: every device that came in counted is matched by one of the
  limit or by a request that had counted before it (`FiniteSetTheorems`).
- `TemplateCacheProofs`: `TypeCorrect`; `CacheStale`, with `ReaderFresh`: a reader about to fill the cache
  and not crossed holds the content of the row.
- `ProfileHostsProofs`: `TypeCorrect`, by way of `Ground`: a request about a host carries a plan its code
  could have made, rows belong to profiles that are there, and no request is under way while the seed
  runs. `RowsFollow`: a profile that is not torn has matching rows (`Matched`) or was just made by the
  start and has none yet (`Unseeded`); an edit that commits has read what is
  there, and then its rows match, or it tears the profile. `HostsKeepTheirInbound` (an action property): a host loses its
  inbound only with the row (`LostRow`), and no transaction, seed or deletion drops a row that fits what the
  configuration then says. `ListsStayAsAsked`: who is about to add to a list that is not crossed is
  alone, means what was last asked for and finds the list empty (`Pending`); without such a request
  the list is what was asked for (`Settled`); and a host being created is nobody else's (`Sole`).

The proofs found two history variables too narrow: the runs passed, but the inductive step failed.
`overlapped` left out a node that a restart passes by while its start holds an older configuration,
and `adrift` a request that has read its user and not written when a restart of all nodes reads the
roster. The code can do both, in instances larger than those of the runs, and the modules
now say so.

Assumptions. `None` is an absent value: no record, set or name the models use. `UuidAssumption`: a row that is
created gets a uuid that no row and no request knows, as random uuids are (`CommitEdit` and the seed choose one).
The others (`UsageAssumption`, `UserAssumption`, `ThrottleAssumption`, `NodeAssumption` and so on) give ranges and shapes.

Nodes and workers are finite sets (rows of a table, the concurrency of a worker), and `NoJob`, the idle slot, is not a job
(`NoJobAssumption`).

Only model-checked: liveness (`HashIsFlushed`, `ExceededIsCutOff`, `PausedIsResumed`, `NodeComesUp`, `NodesCatchUp`),
which with fairness and ENABLED is out of the prover's reach. Every other property of a passing run is a theorem.

## 5. What is not modelled, and what could come next

Written, in this order: UsagePipeline, UserLifecycle, QueueThrottle, NodeLifecycle (which took in
the by-profile restart, planned as a module of its own, because the two share every variable), each
with its proofs; then UsageLedger and the refinement, SubscriptionAccess, TemplateCache, NodeTraffic and
SquadRestarts with their proofs, and ProfileHosts; then the proofs of ProfileHosts, of
`DisabledIsStopped`, `ConnectedIsCurrent` and `NodeMatchesWhenQuiet`; last the proofs about billing.

The modules stand for the code in which several actors change shared state. They cover a small part of the lines of the
repository, because most of those lines are something else: generators of client configurations and
the resolution of hosts into them, request and response types, entities and converters, error tables, constants and default
documents, module wiring, database queries behind dashboards. They compute an output from rows and
keep no state, so that a model of them would repeat them line by line and have no property to show.

Not modelled, of what does keep state:

- The bulk variants of user requests (`bulkUpdateUsersInternalSquads`, `bulkDeleteUsersByUuid`), and of calls to nodes.
- The threshold, expiry and not-connected notifications: their loop repeats on an error that persists
  (`users-watchdog.processor.ts:142`).
- Creation and deletion of external squads and their bulk jobs; import sources; snippets; authentication; billing;
  metrics and messages: single rows, or input and output around them.

Three hazards have no property. A node whose update is between its two statements on inbounds is disabled by a
restart (`nodes.service.ts:290`): the model takes these steps, and the code promises nothing there. The loop of the
notifications is not modelled. The restart queues that a by-profile restart leaves paused when its worker dies for good are the exception
in `PausedHasOwner` and `NodeComesUp`. The node that is disabled while its start is at work and may stay up, is the exception in
`DisabledIsStopped`. Other hazards are partly excused in the same way: where two activities overlap and the code gives no
guarantee, a history variable (`adrift`, `slipped`, `overlapped`, `skewed`, `missed`, `torn`, `mixed`, `crossed`, `tied`) takes the user,
node, entry or profile out of the property, which then says that nothing but that overlap can go wrong.

Next: an abstract specification that the node follows the row, which UserLifecycle would implement outside its
history variables; the hashed set against a reference.

## 6. Running

In this directory: `tlc -config UsagePipelineCrash.cfg MCUsagePipeline` (and so on for each .cfg
with the MC module of its component), `tlapm UsagePipelineProofs.tla`. An operator
commented "Fault:" is a plausible bug of the definition it is named after; `PROJECT.json` ("mutants")
says which property catches it.
