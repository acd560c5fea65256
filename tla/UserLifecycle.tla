---------------------------- MODULE UserLifecycle ----------------------------
(***************************************************************************)
(* The status of a user and its place on the nodes.                        *)
(*                                                                         *)
(* Requests (and the modify-many jobs, which run the same functions) read a *)
(* user, decide, write, and publish an event that queues an add or remove  *)
(* call to the nodes.  The watchdog limits and expires users in single      *)
(* statements and fires a user event for each one it changed.  The reset    *)
(* job and the serial jobs change all users at once, in several statements. *)
(* Calls to the nodes run concurrently, are not retried, and may overtake   *)
(* one another; a restart of all nodes sends the active users instead.      *)
(* One connected node stands for all of them.                              *)
(***************************************************************************)
EXTENDS Naturals, FiniteSets

CONSTANTS
    Users,        \* users.t_id
    Slots,        \* requests and modify-many jobs that run at once
    None,         \* an idle slot, a field a request leaves alone, no roster
    Squads,       \* where a user's internal squads may have their inbounds
    Limits,       \* values of traffic_limit_bytes; 0 is unlimited
    RestartCap,   \* from so many changed users on, all nodes are restarted (10 000)
    MaxUsed,      \* bound: used_traffic_bytes
    MaxRequests,  \* bound: requests
    MaxBatches,   \* bound: reset and serial jobs
    MaxMishaps    \* bound: crashes, failed statements and failed calls

Status == {"ACTIVE", "DISABLED", "LIMITED", "EXPIRED"}

ASSUME UserAssumption ==
    /\ Squads \subseteq {"none", "bare", "elsewhere", "here"}
    /\ Limits \subseteq Nat
    /\ None \notin Nat \cup (Status \X Limits)
    /\ None \notin {"ACTIVE", "DISABLED", "GONE", "revive", "add", "remove"} \cup Squads
    /\ \A S \in SUBSET Users : S # None
    /\ RestartCap \in Nat \ {0}
    /\ {MaxUsed, MaxRequests, MaxBatches, MaxMishaps} \subseteq Nat
    /\ IsFiniteSet(Users)

VARIABLES
    status,    \* users.status, or NEW before the row and GONE after it
    used,      \* user_traffic.used_traffic_bytes
    limit,     \* users.traffic_limit_bytes
    overdue,   \* users whose expire_at has passed
    squad,     \* squad[u]: the user has no squad, only squads without inbounds,
               \*   inbounds on other nodes only, or an inbound on this node
    op,        \* op[s]: the request slot s runs, as decided when it read the user
    reset,     \* the reset-user-traffic job
    bulk,      \* the serial-operations job
    fired,     \* fired[u][k]: queued user events that lead to an add or a remove
    jobs,      \* jobs[u][k]: queued add or remove calls
    onNode,    \* users the node lets in
    wanted,    \* a restart of all nodes is queued
    roster,    \* the users a restart that is under way sends
    requests,  \* requests so far (bound)
    batches,   \* batch jobs so far (bound)
    mishaps,   \* mishaps so far (bound)
    slipped,   \* LIMITED users whose limit or traffic changed under a stale read,
               \*   or between two statements of a job (history)
    adrift     \* users whose place on the node a mishap, or two overlapping
               \*   activities, may have left wrong (history)

rowVars == <<status, used, limit, overdue, squad>>
batchVars == <<reset, bulk>>
nodeVars == <<fired, jobs, onNode, wanted, roster>>
vars == <<rowVars, op, batchVars, nodeVars, requests, batches, mishaps, slipped, adrift>>

Exists(u) == status[u] \in Status
Exceeded(u) == limit[u] # 0 /\ used[u] >= limit[u]

Call == {"add", "remove"}
NoCalls == [k \in Call |-> 0]
Put(bag, S, k) ==
    [u \in Users |-> IF u \in S THEN [bag[u] EXCEPT ![k] = @ + 1] ELSE bag[u]]

(* What a request does once it has read the user: the fields it writes, and *)
(* the event it publishes if the row allows it.                             *)
Op == [user : Users, seen : (Status \X Limits) \cup {None},
       status : {"ACTIVE", "DISABLED", "GONE", "revive", None}, zero : BOOLEAN,
       limit : Limits \cup {None}, renew : BOOLEAN, squad : Squads \cup {None},
       emit : Call \cup {None}, again : {"no", "exists", "active"}, stage : {"extend", "write", "publish"}]

ASSUME IdleAssumption == None \notin Op

IdleReset == [stage |-> "idle", due |-> {}, targets |-> {}, rest |-> {}, all |-> FALSE]
IdleBulk == [stage |-> "idle", expired |-> FALSE]

TypeOK ==
    /\ status \in [Users -> Status \cup {"NEW", "GONE"}]
    /\ used \in [Users -> Nat]
    /\ limit \in [Users -> Limits]
    /\ overdue \in SUBSET Users
    /\ squad \in [Users -> Squads]
    /\ op \in [Slots -> Op \cup {None}]
    /\ reset \in [stage : {"idle", "select", "zero", "limited"}, due : SUBSET Users,
                  targets : SUBSET Users, rest : SUBSET Users, all : BOOLEAN]
    /\ bulk \in [stage : {"idle", "limited", "expired", "restart"}, expired : BOOLEAN]
    /\ fired \in [Users -> [Call -> Nat]]
    /\ jobs \in [Users -> [Call -> Nat]]
    /\ onNode \in SUBSET Users
    /\ wanted \in BOOLEAN
    /\ roster \in (SUBSET Users) \cup {None}
    /\ requests \in Nat /\ batches \in Nat /\ mishaps \in Nat
    /\ slipped \in SUBSET Users
    /\ adrift \in SUBSET Users

(* Nothing is under way; some users are there already, and settled.          *)
Init ==
    /\ status \in [Users -> {"NEW", "ACTIVE"}]
    /\ used = [u \in Users |-> 0]
    /\ limit \in [Users -> Limits]
    /\ overdue = {}
    /\ squad \in [Users -> Squads]
    /\ op = [s \in Slots |-> None]
    /\ reset = IdleReset
    /\ bulk = IdleBulk
    /\ fired = [u \in Users |-> NoCalls]
    /\ jobs = [u \in Users |-> NoCalls]
    /\ onNode = {u \in Users : status[u] = "ACTIVE" /\ squad[u] = "here"}
    /\ wanted = FALSE
    /\ roster = None
    /\ requests = 0 /\ batches = 0 /\ mishaps = 0
    /\ slipped = {}
    /\ adrift = {}

Mishap ==
    /\ mishaps < MaxMishaps
    /\ mishaps' = mishaps + 1

(* Something that was done to u may still change it, or the node's view of   *)
(* it.  A statement of the watchdog or of the reset job leaves only events.  *)
OpOn(s, u) == op[s] # None /\ op[s].user = u
CallsInFlight(u) == fired[u] # NoCalls \/ jobs[u] # NoCalls
Busy(u) == (\E s \in Slots : OpOn(s, u)) \/ CallsInFlight(u) \/ bulk # IdleBulk
InFlight(u) == Busy(u) \/ wanted \/ roster # None

(* The history of an activity that begins on the users S.                   *)
Begins(S) == adrift' = adrift \cup {u \in S : InFlight(u)}

(* The history of a step that changes the limit or traffic of S unread.     *)
Slips(S) == slipped' = {u \in slipped \cup S : status'[u] = "LIMITED"}

ShouldBeOn(u) == status[u] = "ACTIVE" /\ squad[u] = "here"

-----------------------------------------------------------------------------
(* The events a node's users follow.                                        *)

(* Fault: a node that has none of the user's inbounds is skipped.            *)
Queued_Skip(u, k) ==
    IF k = "remove" \/ (Exists(u) /\ squad[u] = "here") THEN Put(jobs, {u}, k) ELSE jobs

(* AddUserToNodeHandler looks the user up, whatever its status: without an   *)
(* inbound it does nothing, and a node that has none of them is told to      *)
(* remove the user.  RemoveUserFromNodeHandler looks nothing up.            *)
Queued(u, k) ==
    IF k = "remove" \/ (Exists(u) /\ squad[u] = "elsewhere") THEN Put(jobs, {u}, "remove")
    ELSE IF Exists(u) /\ squad[u] = "here" THEN Put(jobs, {u}, "add")
    ELSE jobs

(* The user event job: LIMITED and EXPIRED remove the user, ENABLED adds it; *)
(* the user is looked up, and one that is gone ends the job.                *)
FireUserEvent(u, k) ==
    /\ fired[u][k] > 0
    /\ fired' = [fired EXCEPT ![u][k] = @ - 1]
    /\ jobs' = IF Exists(u) THEN Queued(u, k) ELSE jobs
    /\ UNCHANGED <<rowVars, op, batchVars, onNode, wanted, roster,
                   requests, batches, mishaps, slipped, adrift>>

(* One call to the node; a call that fails is logged and never repeated.    *)
CallNode(u, k) ==
    /\ jobs[u][k] > 0
    /\ jobs' = [jobs EXCEPT ![u][k] = @ - 1]
    /\ \/ /\ onNode' = IF k = "add" THEN onNode \cup {u} ELSE onNode \ {u}
          /\ UNCHANGED <<mishaps, adrift>>
       \/ /\ Mishap
          /\ adrift' = adrift \cup {u}
          /\ UNCHANGED onNode
    /\ UNCHANGED <<rowVars, op, batchVars, fired, wanted, roster,
                   requests, batches, slipped>>

(* A restart of all nodes reads the active users, and sends them later: a     *)
(* request that has still to write its user overlaps with it.                *)
ReadRoster ==
    /\ wanted
    /\ roster = None
    /\ wanted' = FALSE
    /\ roster' = {u \in Users : ShouldBeOn(u)}
    /\ adrift' = {u \in Users : \/ u \in adrift /\ Busy(u)
                                \/ \E s \in Slots : OpOn(s, u) /\ op[s].stage # "publish"}
    /\ UNCHANGED <<rowVars, op, batchVars, fired, jobs, onNode,
                   requests, batches, mishaps, slipped>>

SendRoster ==
    /\ roster # None
    /\ roster' = None
    /\ \/ /\ onNode' = roster
          /\ UNCHANGED <<mishaps, adrift>>
       \/ /\ Mishap
          /\ adrift' = Users
          /\ UNCHANGED onNode
    /\ UNCHANGED <<rowVars, op, batchVars, fired, jobs, wanted,
                   requests, batches, slipped>>

-----------------------------------------------------------------------------
(* Requests: the read and what follows from it.                             *)

Seen(u) == <<status[u], limit[u]>>

(* A request that changes no field and publishes nothing; each handler says  *)
(* how it differs.  seen is history; again says what a handler that reads    *)
(* the user once more before it publishes wants to find.                    *)
Decision(u) ==
    [user |-> u, seen |-> None, status |-> None, zero |-> FALSE, limit |-> None,
     renew |-> FALSE, squad |-> None, emit |-> None, again |-> "no", stage |-> "write"]

(* A request that has nothing left to publish has ended.                    *)
Left(d) == IF d.stage = "publish" /\ d.emit = None THEN None ELSE d

Starts(s, u, d) ==
    /\ op[s] = None
    /\ requests < MaxRequests
    /\ requests' = requests + 1
    /\ op' = [op EXCEPT ![s] = Left(d)]
    /\ Begins({u})
    /\ UNCHANGED <<batchVars, fired, onNode, wanted, roster, batches, mishaps>>

(* createUser: any status and any expiry date are accepted.  The row and its *)
(* squads are one insert; a new row has used nothing.                       *)
CreateUser(s, u) ==
    /\ status[u] = "NEW"
    /\ \E st \in Status, late \in BOOLEAN :
        /\ status' = [status EXCEPT ![u] = st]
        /\ overdue' = IF late THEN overdue \cup {u} ELSE overdue
        /\ slipped' = IF st = "LIMITED" THEN slipped \cup {u} ELSE slipped
    /\ Starts(s, u, [Decision(u) EXCEPT !.stage = "publish", !.emit = "add",
                                        !.again = "active"])
    /\ UNCHANGED <<used, limit, squad, jobs>>

Reads(s, u, d) ==
    /\ Exists(u)
    /\ Starts(s, u, d)
    /\ UNCHANGED <<rowVars, jobs, slipped>>

(* updateUser.  DISABLED is only heard by an ACTIVE user.  A change of squads *)
(* replaces both flags: a user that is disabled and given other squads at    *)
(* once is neither added nor removed.                                       *)
UpdateUser(s, u) ==
    \E st \in {None, "ACTIVE", "DISABLED"}, lim \in Limits \cup {None}, date \in BOOLEAN,
       squads \in Squads \cup {None} :
        LET enables  == status[u] # "ACTIVE" /\ st = "ACTIVE"
            disables == status[u] = "ACTIVE" /\ st = "DISABLED"
            raises   == lim # None /\ status[u] = "LIMITED" /\ (lim > limit[u] \/ lim = 0)
            revives  == status[u] = "EXPIRED" /\ date /\ st = None
            changes  == squads # None /\ {squads, squad[u]} # {"none"}
            add      == IF changes THEN squads # "none" ELSE enables \/ raises \/ revives
            remove   == IF changes THEN squads = "none" ELSE disables
        IN Reads(s, u, [Decision(u) EXCEPT
                !.seen = IF lim = None THEN None ELSE Seen(u),
                !.status = IF disables THEN "DISABLED"
                           ELSE IF enables \/ raises \/ revives THEN "ACTIVE" ELSE None,
                !.limit = lim, !.renew = date, !.squad = IF changes THEN squads ELSE None,
                !.emit = IF remove THEN "remove" ELSE IF add THEN "add" ELSE None])

DisableUser(s, u) ==
    /\ status[u] # "DISABLED"
    /\ Reads(s, u, [Decision(u) EXCEPT !.status = "DISABLED", !.emit = "remove",
                                         !.again = "exists"])

EnableUser(s, u) ==
    /\ status[u] # "ACTIVE"
    /\ Reads(s, u, [Decision(u) EXCEPT !.status = "ACTIVE", !.emit = "add",
                                         !.again = "exists"])

(* resetUserTraffic publishes for a LIMITED user before it writes.           *)
ResetUserTraffic(s, u) ==
    /\ Exists(u)
    /\ jobs' = IF status[u] = "LIMITED" THEN Queued(u, "add") ELSE jobs
    /\ Starts(s, u, [Decision(u) EXCEPT !.seen = Seen(u), !.zero = TRUE,
                        !.status = IF status[u] = "LIMITED" THEN "ACTIVE" ELSE None])
    /\ UNCHANGED <<rowVars, slipped>>

(* bulkExtendExpirationDate of one user: it moves the date unread, and then  *)
(* revives the user in a statement of its own.                              *)
ExtendUser(s, u) ==
    Reads(s, u, [Decision(u) EXCEPT !.status = "revive", !.stage = "extend"])

RevokeUserSubscription(s, u) ==
    Reads(s, u, [Decision(u) EXCEPT !.emit = "add", !.again = "active"])

DeleteUser(s, u) ==
    Reads(s, u, [Decision(u) EXCEPT !.status = "GONE", !.emit = "remove"])

(* The days may or may not be enough.  No row, no more statements.           *)
Extend(s) ==
    /\ op[s] # None
    /\ op[s].stage = "extend"
    /\ IF Exists(op[s].user)
       THEN /\ overdue' \in {overdue, overdue \ {op[s].user}}
            /\ op' = [op EXCEPT ![s].stage = "write"]
       ELSE /\ UNCHANGED overdue
            /\ op' = [op EXCEPT ![s] = None]
    /\ UNCHANGED <<status, used, limit, squad, batchVars, nodeVars,
                   requests, batches, mishaps, slipped, adrift>>

(* Fault: whoever has a future date is revived.                             *)
Revived_All(u) == status[u] # "GONE" /\ u \notin overdue
Revived(u) == status[u] = "EXPIRED" /\ u \notin overdue

(* Fault: the request's wish is written as it stands.                       *)
Written_Raw(o) == IF o.status = None THEN status[o.user] ELSE o.status

Written(o) ==
    CASE o.status = "revive" -> IF Revived(o.user) THEN "ACTIVE" ELSE status[o.user]
      [] o.status = None     -> status[o.user]
      [] OTHER               -> o.status

(* An update that replaces the squads drops the removal it would have asked   *)
(* for as well, if it also disables the user or leaves it without inbounds.  *)
Unremoved(o) ==
    o.squad \notin {None, "none"} /\ (o.status = "DISABLED" \/ o.squad = "bare")

(* The write, and what the row that comes back lets the request publish: a   *)
(* user is only added if the row is ACTIVE.  A row that is gone fails it.    *)
Write(s) ==
    /\ op[s] # None
    /\ op[s].stage = "write"
    /\ LET o == op[s]
           u == o.user
           emits == IF o.status = "revive"
                    THEN IF Revived(u) THEN "add" ELSE None
                    ELSE IF o.emit = "add" /\ o.again = "no" /\ Written(o) # "ACTIVE"
                    THEN None ELSE o.emit
       IN IF Exists(u)
          THEN /\ status' = [status EXCEPT ![u] = Written(o)]
               /\ used' = IF o.zero THEN [used EXCEPT ![u] = 0] ELSE used
               /\ limit' = IF o.limit # None THEN [limit EXCEPT ![u] = o.limit] ELSE limit
               /\ overdue' = IF o.renew THEN overdue \ {u} ELSE overdue
               /\ squad' = IF o.squad # None THEN [squad EXCEPT ![u] = o.squad] ELSE squad
               /\ op' = [op EXCEPT ![s] = Left([Decision(u) EXCEPT
                                    !.emit = emits, !.again = o.again, !.stage = "publish"])]
               /\ Slips(IF o.seen \notin {None, Seen(u)} THEN {u} ELSE {})
               /\ adrift' = IF Unremoved(o) THEN adrift \cup {u} ELSE adrift
          ELSE /\ op' = [op EXCEPT ![s] = None]
               /\ UNCHANGED <<rowVars, slipped, adrift>>
    /\ UNCHANGED <<batchVars, nodeVars, requests, batches, mishaps>>

(* createUser, disableUser, enableUser and revokeUserSubscription read the   *)
(* row again first.                                                         *)
Publish(s) ==
    /\ op[s] # None
    /\ op[s].stage = "publish"
    /\ LET o == op[s] IN
        jobs' = IF \/ o.again = "exists" /\ ~Exists(o.user)
                   \/ o.again = "active" /\ status[o.user] # "ACTIVE"
                THEN jobs ELSE Queued(o.user, o.emit)
    /\ op' = [op EXCEPT ![s] = None]
    /\ UNCHANGED <<rowVars, batchVars, fired, onNode, wanted, roster,
                   requests, batches, mishaps, slipped, adrift>>

(* A database error or the end of the process; modify-many jobs swallow it.  *)
RequestFails(s) ==
    /\ op[s] # None
    /\ Mishap
    /\ op' = [op EXCEPT ![s] = None]
    /\ adrift' = adrift \cup {op[s].user}
    /\ UNCHANGED <<rowVars, batchVars, nodeVars, requests, batches, slipped>>

-----------------------------------------------------------------------------
(* Time and traffic.                                                        *)

PassExpiry(u) ==
    /\ Exists(u)
    /\ overdue' = overdue \cup {u}
    /\ UNCHANGED <<status, used, limit, squad, op, batchVars, nodeVars,
                   requests, batches, mishaps, slipped, adrift>>

(* bulkIncrementUsedTraffic: whatever the status, the row's bytes go up.     *)
UseTraffic(u) ==
    /\ Exists(u)
    /\ used[u] < MaxUsed
    /\ used' = [used EXCEPT ![u] = @ + 1]
    /\ UNCHANGED <<status, limit, overdue, squad, op, batchVars, nodeVars,
                   requests, batches, mishaps, slipped, adrift>>

-----------------------------------------------------------------------------
(* The watchdog.                                                            *)

(* Fault: many users are neither announced nor followed by a restart.        *)
Announce_Few(S, k, restart) ==
    /\ Begins(S)
    /\ fired' = IF Cardinality(S) < RestartCap THEN Put(fired, S, k) ELSE fired
    /\ wanted' = (wanted \/ restart)
    /\ UNCHANGED mishaps

(* What follows a statement that changed the users S: their events, or a     *)
(* restart when they are many; the events are lost when the job dies or the  *)
(* queue refuses them.                                                      *)
Announce(S, k, restart) ==
    \/ /\ Begins(S)
       /\ fired' = IF Cardinality(S) < RestartCap THEN Put(fired, S, k) ELSE fired
       /\ wanted' = (wanted \/ restart \/ Cardinality(S) >= RestartCap)
       /\ UNCHANGED mishaps
    \/ /\ S # {}
       /\ Mishap
       /\ adrift' = adrift \cup S
       /\ UNCHANGED <<fired, wanted>>

Assign(S, st) == [u \in Users |-> IF u \in S THEN st ELSE status[u]]

(* Fault: a user at exactly its limit is not found.                         *)
FindExceeded_Above ==
    LET found == {u \in Users : status[u] = "ACTIVE" /\ limit[u] # 0 /\ used[u] > limit[u]} IN
    /\ found # {}
    /\ status' = Assign(found, "LIMITED")
    /\ Announce(found, "remove", FALSE)
    /\ UNCHANGED <<used, limit, overdue, squad, op, batchVars, jobs, onNode, roster,
                   requests, batches, slipped>>

FindExceeded ==
    LET found == {u \in Users : status[u] = "ACTIVE" /\ Exceeded(u)} IN
    /\ found # {}
    /\ status' = Assign(found, "LIMITED")
    /\ Announce(found, "remove", FALSE)
    /\ UNCHANGED <<used, limit, overdue, squad, op, batchVars, jobs, onNode, roster,
                   requests, batches, slipped>>

FindExpired ==
    LET found == {u \in overdue : status[u] \in {"ACTIVE", "LIMITED"}} IN
    /\ found # {}
    /\ status' = Assign(found, "EXPIRED")
    /\ Announce(found, "remove", FALSE)
    /\ Slips({})
    /\ UNCHANGED <<used, limit, overdue, squad, op, batchVars, jobs, onNode, roster,
                   requests, batches>>

-----------------------------------------------------------------------------
(* The reset-user-traffic job.  due stands for the users of one strategy,    *)
(* rest for those of the strategies still to come; a reset of all traffic    *)
(* goes through all of them and restarts the nodes.                         *)

Targets(due) == {u \in due : Exists(u) /\ status[u] # "LIMITED"}
Zeroed(S) == [u \in Users |-> IF u \in S THEN 0 ELSE used[u]]

StartBatch ==
    /\ batches < MaxBatches
    /\ batches' = batches + 1
    /\ UNCHANGED <<op, fired, jobs, onNode, roster, requests>>

StartReset ==
    /\ reset.stage = "idle"
    /\ \E due \in SUBSET Users, all \in BOOLEAN :
        /\ all => due = Users
        /\ reset' = [IdleReset EXCEPT !.stage = "select", !.rest = due, !.all = all]
    /\ StartBatch
    /\ UNCHANGED <<rowVars, bulk, wanted, mishaps, slipped, adrift>>

(* The ids of the next strategy's users, the LIMITED ones left out.          *)
SelectTargets ==
    /\ reset.stage = "select"
    /\ \E due \in SUBSET reset.rest :
        /\ reset.all \/ due = reset.rest
        /\ reset' = [reset EXCEPT !.stage = "zero", !.due = due, !.targets = Targets(due),
                                  !.rest = @ \ due]
    /\ UNCHANGED <<rowVars, op, bulk, nodeVars, requests, batches, mishaps, slipped, adrift>>

(* The traffic of the selected ids is zeroed, whatever their status is now;  *)
(* an error is swallowed.                                                   *)
ZeroTargets ==
    /\ reset.stage = "zero"
    /\ reset' = [reset EXCEPT !.stage = "limited", !.targets = {}]
    /\ \/ /\ used' = Zeroed({u \in reset.targets : Exists(u)})
          /\ UNCHANGED status
          /\ Slips(reset.targets)
          /\ UNCHANGED mishaps
       \/ /\ Mishap
          /\ UNCHANGED <<status, used, slipped>>
    /\ UNCHANGED <<limit, overdue, squad, op, bulk, nodeVars, requests, batches, adrift>>

(* resetLimitedUserTraffic, in one statement that may fail, and the ENABLED  *)
(* events; the job goes on with the next strategy either way.               *)
ResetLimited ==
    /\ reset.stage = "limited"
    /\ reset' = IF reset.rest # {} THEN [reset EXCEPT !.stage = "select", !.due = {}] ELSE IdleReset
    /\ LET found == {u \in reset.due : status[u] = "LIMITED"}
           last  == reset.all /\ reset.rest = {}
       IN \/ /\ status' = Assign(found, "ACTIVE")
             /\ used' = Zeroed(found)
             /\ Slips({})
             /\ Announce(found, "add", last)
          \/ /\ Mishap
             /\ wanted' = (wanted \/ last)
             /\ UNCHANGED <<status, used, fired, slipped, adrift>>
    /\ UNCHANGED <<limit, overdue, squad, op, bulk, jobs, onNode, roster, requests, batches>>

(* The worker dies: the job starts over, or is dropped.                     *)
CrashReset ==
    /\ reset.stage # "idle"
    /\ Mishap
    /\ \/ reset' = IdleReset
       \/ reset' = [reset EXCEPT !.stage = "select", !.due = {}, !.targets = {},
                        !.rest = IF reset.all THEN Users ELSE reset.due \cup reset.rest]
    /\ UNCHANGED <<rowVars, op, bulk, nodeVars, requests, batches, slipped, adrift>>

-----------------------------------------------------------------------------
(* The serial jobs over all users.                                          *)

Rows == {u \in Users : Exists(u)}

(* A statement over all rows goes range by range; an error ends it anywhere, *)
(* and the job goes on with its next statement.                             *)
Hits(hit, rows) ==
    \/ hit = rows /\ UNCHANGED mishaps
    \/ hit \subseteq rows /\ hit # rows /\ Mishap

BulkUpdateAll ==
    /\ bulk.stage = "idle"
    /\ \E hit \in SUBSET Rows, st \in {None, "ACTIVE", "DISABLED"},
          lim \in Limits \cup {None}, date \in BOOLEAN :
        /\ Hits(hit, Rows)
        /\ status' = IF st = None THEN status ELSE Assign(hit, st)
        /\ limit' = IF lim = None THEN limit
                    ELSE [u \in Users |-> IF u \in hit THEN lim ELSE limit[u]]
        /\ overdue' = IF date THEN overdue \ hit ELSE overdue
        /\ bulk' = [stage |-> IF lim # None THEN "limited"
                              ELSE IF date THEN "expired" ELSE "restart", expired |-> date]
        /\ Slips(IF lim # None THEN hit ELSE {})
    /\ StartBatch
    /\ Begins(Users)
    /\ UNCHANGED <<used, squad, reset, wanted>>

(* The days may be enough for some of the users.                            *)
BulkExtendAll ==
    /\ bulk.stage = "idle"
    /\ \E early \in SUBSET overdue : overdue' = overdue \ early
    /\ bulk' = [stage |-> "expired", expired |-> TRUE]
    /\ StartBatch
    /\ Begins(Users)
    /\ UNCHANGED <<status, used, limit, squad, reset, wanted, mishaps, slipped>>

(* Deletes by status, some rows at a time, until none is left or one fails;  *)
(* all nodes are restarted for ACTIVE users only.                           *)
BulkDeleteByStatus ==
    /\ bulk.stage = "idle"
    /\ \E st \in Status, hit \in SUBSET Rows :
        /\ Hits(hit, {u \in Users : status[u] = st})
        /\ status' = Assign(hit, "GONE")
        /\ wanted' = (wanted \/ st = "ACTIVE")
    /\ Slips({})
    /\ StartBatch
    /\ Begins(Users)
    /\ UNCHANGED <<used, limit, overdue, squad, batchVars>>

(* Fault: an unlimited user is not released.                                *)
Released_Limited(u) == status[u] = "LIMITED" /\ limit[u] > 0 /\ used[u] < limit[u]
(* bulkSyncLimitedUsers: no limit any more, below it, or nothing used.       *)
Released(u) ==
    status[u] = "LIMITED" /\ (limit[u] = 0 \/ used[u] < limit[u] \/ used[u] = 0)

SyncLimited ==
    /\ bulk.stage = "limited"
    /\ bulk' = [bulk EXCEPT !.stage = IF bulk.expired THEN "expired" ELSE "restart"]
    /\ \/ /\ status' = Assign({u \in Users : Released(u)}, "ACTIVE")
          /\ slipped' = {}
          /\ UNCHANGED mishaps
       \/ /\ Mishap
          /\ UNCHANGED <<status, slipped>>
    /\ UNCHANGED <<used, limit, overdue, squad, op, reset, nodeVars, requests, batches, adrift>>

SyncExpired ==
    /\ bulk.stage = "expired"
    /\ bulk' = [bulk EXCEPT !.stage = "restart"]
    /\ \/ /\ status' = Assign({u \in Users : Revived(u)}, "ACTIVE")
          /\ UNCHANGED mishaps
       \/ /\ Mishap
          /\ UNCHANGED status
    /\ UNCHANGED <<used, limit, overdue, squad, op, reset, nodeVars,
                   requests, batches, slipped, adrift>>

BulkRestart ==
    /\ bulk.stage = "restart"
    /\ bulk' = IdleBulk
    /\ wanted' = TRUE
    /\ UNCHANGED <<rowVars, op, reset, fired, jobs, onNode, roster,
                   requests, batches, mishaps, slipped, adrift>>

(* The worker dies and the job is dropped; one that starts over is this step *)
(* and the job's first statement once more, within MaxBatches.              *)
CrashBulk ==
    /\ bulk.stage # "idle"
    /\ Mishap
    /\ bulk' = IdleBulk
    /\ adrift' = Users
    /\ UNCHANGED <<rowVars, op, reset, nodeVars, requests, batches, slipped>>

-----------------------------------------------------------------------------

Request(s, u) ==
    \/ CreateUser(s, u) \/ UpdateUser(s, u) \/ DisableUser(s, u) \/ EnableUser(s, u)
    \/ ResetUserTraffic(s, u) \/ ExtendUser(s, u) \/ RevokeUserSubscription(s, u)
    \/ DeleteUser(s, u)

Next ==
    \/ \E s \in Slots :
        \/ \E u \in Users : Request(s, u)
        \/ Extend(s) \/ Write(s) \/ Publish(s) \/ RequestFails(s)
    \/ \E u \in Users : PassExpiry(u) \/ UseTraffic(u)
    \/ \E u \in Users, k \in Call : FireUserEvent(u, k) \/ CallNode(u, k)
    \/ ReadRoster \/ SendRoster
    \/ FindExceeded \/ FindExpired
    \/ StartReset \/ SelectTargets \/ ZeroTargets \/ ResetLimited \/ CrashReset
    \/ BulkUpdateAll \/ BulkExtendAll \/ BulkDeleteByStatus
    \/ SyncLimited \/ SyncExpired \/ BulkRestart \/ CrashBulk

Spec == Init /\ [][Next]_vars

-----------------------------------------------------------------------------
(* Properties.                                                              *)

(* A LIMITED user has used up a limit: every path that raises the limit or   *)
(* lowers the traffic also lifts the status, except where it wrote from a    *)
(* stale read, is between two statements of a job, or was created LIMITED.   *)
LimitedHasCause ==
    \A u \in Users : status[u] = "LIMITED" /\ u \notin slipped => Exceeded(u)

(* When nothing about a user is under way, the node lets it in exactly if it *)
(* is ACTIVE and in a squad, unless activities overlapped on it, something   *)
(* failed, or it was given other squads by the update that disabled it, and  *)
(* no restart of all nodes has read the users since.                        *)
NodeMatchesWhenQuiet ==
    \A u \in Users :
        ~InFlight(u) /\ u \notin adrift => (u \in onNode <=> ShouldBeOn(u))

(* Somebody asks for it: a request that wants the user ACTIVE is written, or *)
(* the update of all users is.                                              *)
Asked(u) ==
    \/ \E s \in Slots :
        /\ op[s] # None /\ op'[s] # op[s]
        /\ op[s].user = u /\ op[s].status = "ACTIVE" /\ op[s].stage = "write"
    \/ bulk.stage = "idle" /\ bulk'.stage # "idle"

(* A DISABLED user never becomes ACTIVE by the clock: neither the watchdog,  *)
(* the reset job, the extension of dates nor the serial jobs' later          *)
(* statements revive it, at whatever point between their reads and their     *)
(* writes it was disabled.                                                  *)
DisabledIsKept ==
    [][\A u \in Users :
        status[u] = "DISABLED" /\ status'[u] = "ACTIVE" => Asked(u)]_vars

(* The watchdog's cron, the workers and the requests that have begun keep    *)
(* going; nothing has to begin, and no date has to pass.                     *)
Fairness ==
    /\ WF_vars(FindExceeded)
    /\ WF_vars(ReadRoster) /\ WF_vars(SendRoster)
    /\ WF_vars(SyncLimited) /\ WF_vars(SyncExpired) /\ WF_vars(BulkRestart)
    /\ \A s \in Slots : WF_vars(Extend(s)) /\ WF_vars(Write(s)) /\ WF_vars(Publish(s))
    /\ \A u \in Users, k \in Call : WF_vars(FireUserEvent(u, k)) /\ WF_vars(CallNode(u, k))

FairSpec == Spec /\ Fairness

(* An ACTIVE user over its limit is cut off from the node in the end, unless *)
(* its traffic or limit changes first, or its calls got out of step.         *)
ExceededIsCutOff ==
    \A u \in Users :
        status[u] = "ACTIVE" /\ Exceeded(u)
            ~> u \notin onNode \/ ~Exceeded(u) \/ u \in adrift

=============================================================================
