------------------------- MODULE SubscriptionAccess -------------------------
(***************************************************************************)
(* The devices (HWIDs) of one user: who may add one, and by which settings. *)
(*                                                                         *)
(* A subscription request, or the panel's own create call, reads the device *)
(* settings of the panel and of the user's external squad through a cache   *)
(* in Redis, and the user's row; it looks for the device, counts the user's *)
(* devices and adds the new one, with an await between any two of these.    *)
(* A device that is known, or need not be counted, is written by a queued   *)
(* job, deduplicated by user and device.  The administrator edits the       *)
(* settings (a write, then a delete of the cache entry) and the limit, and  *)
(* removes devices meanwhile.                                               *)
(***************************************************************************)
EXTENDS Naturals, FiniteSets

CONSTANTS
    Devices,      \* HWIDs
    Requests,     \* slots of requests that run at the same time
    None,         \* null: no header, no limit of the user's own, no override
    Miss,         \* no entry in the cache
    Kinds,        \* the kinds of requests made
    Settings,     \* hwidSettings: records of enabled and fallback(DeviceLimit)
    Limits,       \* values of users.hwid_device_limit beside null
    MaxRequests,  \* bound: requests
    MaxEdits,     \* bound: what the administrator does
    MaxMishaps    \* bound: failed statements and commands

ASSUME AccessAssumption ==
    /\ IsFiniteSet(Devices) /\ IsFiniteSet(Requests) /\ Requests # {}
    /\ Settings \subseteq [enabled : BOOLEAN, fallback : Nat]
    /\ None \notin Settings /\ None \notin Devices /\ None \notin Nat
    /\ Miss \notin Settings /\ Miss # None
    /\ Limits \subseteq Nat
    /\ Kinds \subseteq {"subscribe", "raw", "create"}

VARIABLES
    alive,     \* the user has a row
    limit,     \* its hwid_device_limit
    devices,   \* its rows of hwid_user_devices
    stored,    \* stored[s]: the settings in the database
    cached,    \* cached[s]: the settings in Redis
    editing,   \* settings written whose cache entry is still to be deleted
    req,       \* req[r]: a request, or None
    jobs,      \* devices whose upsert job waits
    written,   \* devices whose upsert job has written and not yet completed
    requests,  \* how many requests have begun
    edits,     \* how much the administrator has done
    mishaps,   \* how many failures there were
    cap,       \* the highest limit a device was let in under (history)
    unchecked, \* devices that came in without being counted (history)
    served,    \* devices served under the limit, not removed since (history)
    slipped    \* entries of which a fill or a delete went wrong (history)

rowVars == <<alive, limit, devices>>
cacheVars == <<stored, cached, editing, slipped>>
jobVars == <<jobs, written>>
pastVars == <<cap, unchecked, served>>
vars == <<rowVars, cacheVars, req, jobVars, pastVars, requests, edits, mishaps>>

Scope == {"panel", "squad"}
At == {"cache", "read", "fill", "user", "exists", "count", "insert", "queue"}
Content == Settings \cup {None}

(* crossed: the settings it read were edited since; removed: its device was; *)
(* counted: it is held to a limit.                                          *)
Request ==
    [kind : Kinds, device : Devices \cup {None}, at : At, scope : Scope,
     panel : Content, squad : Content, limit : Nat \cup {None}, read : Content,
     crossed : BOOLEAN, removed : BOOLEAN, counted : BOOLEAN]

ASSUME SlotAssumption == None \notin Request

TypeOK ==
    /\ alive \in BOOLEAN
    /\ limit \in Nat \cup {None}
    /\ devices \in SUBSET Devices
    /\ stored \in [Scope -> Content]
    /\ cached \in [Scope -> Content \cup {Miss}]
    /\ editing \in SUBSET Scope
    /\ req \in [Requests -> Request \cup {None}]
    /\ jobs \in SUBSET Devices /\ written \in SUBSET Devices
    /\ requests \in Nat /\ edits \in Nat /\ mishaps \in Nat
    /\ cap \in Nat
    /\ unchecked \in SUBSET Devices
    /\ served \in SUBSET Devices
    /\ slipped \in SUBSET Scope

Init ==
    /\ alive = TRUE
    /\ limit \in Limits \cup {None}
    /\ devices = {}
    /\ stored \in [Scope -> Content] /\ stored["panel"] # None
    /\ cached = [s \in Scope |-> Miss]
    /\ editing = {}
    /\ req = [r \in Requests |-> None]
    /\ jobs = {} /\ written = {}
    /\ requests = 0 /\ edits = 0 /\ mishaps = 0
    /\ cap = 0 /\ unchecked = {} /\ served = {} /\ slipped = {}

Mishap ==
    /\ mishaps < MaxMishaps
    /\ mishaps' = mishaps + 1

Is(r, at) == req[r] # None /\ req[r].at = at
End(r) == req' = [req EXCEPT ![r] = None]
Goto(r, o) == req' = [req EXCEPT ![r] = o]

-----------------------------------------------------------------------------
(* The settings, read through the cache.                                    *)

(* A subscription reads the panel's settings before the user, a raw one and  *)
(* the panel's create call the user first; the squad's come last.           *)
Begin(r) ==
    /\ req[r] = None
    /\ requests < MaxRequests
    /\ requests' = requests + 1
    /\ \E kind \in Kinds, d \in Devices \cup {None} :
        /\ kind = "create" => d # None
        /\ Goto(r, [kind |-> kind, device |-> d, scope |-> "panel",
                    at |-> IF kind = "subscribe" THEN "cache" ELSE "user",
                    panel |-> None, squad |-> None, limit |-> None, read |-> None,
                    crossed |-> FALSE, removed |-> FALSE, counted |-> FALSE])
    /\ UNCHANGED <<rowVars, cacheVars, jobVars, pastVars, edits, mishaps>>

(* The squad's settings replace the panel's when it has some.                *)
Effective(o) == IF o.squad # None THEN o.squad ELSE o.panel

(* The panel counts the devices of any limit, a subscription not of limit 0: *)
(* it lets the device in, as it does when the settings are off, by a job.    *)
Decided(o) ==
    LET on == Effective(o).enabled IN
    CASE o.kind = "create" -> [o EXCEPT !.at = IF on THEN "count" ELSE "insert", !.counted = on]
      [] o.kind # "create" /\ (~on \/ o.limit = 0) -> [o EXCEPT !.at = "queue"]
      [] OTHER -> [o EXCEPT !.at = "exists", !.counted = TRUE]

(* With a value for the settings o was reading, on to the next.              *)
Got(o, value) ==
    IF o.scope = "panel"
    THEN [o EXCEPT !.panel = value, !.scope = "squad",
                   !.at = IF o.kind = "subscribe" THEN "user" ELSE "cache"]
    ELSE Decided([o EXCEPT !.squad = value])

(* Fault: nobody looks whether there is a device.                            *)
Proceed_Blank(r, o) == Goto(r, o)

(* A request without a device is served unless the limit is in force; one    *)
(* without the panel's settings is not.                                     *)
Proceed(r, o) ==
    IF o.device = None /\ o.at \in {"exists", "queue"} THEN End(r) ELSE Goto(r, o)

(* Redis fails: the handler answers null, which for a squad means that it    *)
(* overrides nothing.                                                       *)
Unread(r) ==
    /\ Mishap
    /\ IF req[r].scope = "panel" THEN End(r) ELSE Proceed(r, Got(req[r], None))
    /\ UNCHANGED cacheVars

GetCached(r) ==
    /\ Is(r, "cache")
    /\ LET o == req[r] IN
        \/ /\ IF cached[o.scope] = Miss
              THEN Goto(r, [o EXCEPT !.at = "read"])
              ELSE Proceed(r, Got(o, cached[o.scope]))
           /\ UNCHANGED <<cacheVars, mishaps>>
        \/ Unread(r)
    /\ UNCHANGED <<rowVars, jobVars, pastVars, requests, edits>>

ReadStored(r) ==
    /\ Is(r, "read")
    /\ Goto(r, [req[r] EXCEPT !.at = "fill", !.read = stored[req[r].scope], !.crossed = FALSE])
    /\ UNCHANGED <<rowVars, cacheVars, jobVars, pastVars, requests, edits, mishaps>>

(* What was read is put into the cache, however old it is by now.            *)
FillCache(r) ==
    /\ Is(r, "fill")
    /\ LET o == req[r] IN
        \/ /\ cached' = [cached EXCEPT ![o.scope] = o.read]
           /\ slipped' = IF o.crossed THEN slipped \cup {o.scope} ELSE slipped \ {o.scope}
           /\ Proceed(r, Got(o, o.read))
           /\ UNCHANGED <<stored, editing, mishaps>>
        \/ Unread(r)
    /\ UNCHANGED <<rowVars, jobVars, pastVars, requests, edits>>

(* The time to live of an entry (an hour) passes.                            *)
Expire(s) ==
    /\ cached[s] # Miss
    /\ cached' = [cached EXCEPT ![s] = Miss]
    /\ slipped' = slipped \ {s}
    /\ UNCHANGED <<rowVars, stored, editing, req, jobVars, pastVars, requests, edits, mishaps>>

-----------------------------------------------------------------------------
(* The device.                                                              *)

ReadUser(r) ==
    /\ Is(r, "user")
    /\ IF alive
       THEN Goto(r, [req[r] EXCEPT !.limit = limit,
                        !.at = IF req[r].kind = "create" THEN "exists" ELSE "cache"])
       ELSE End(r)
    /\ UNCHANGED <<rowVars, cacheVars, jobVars, pastVars, requests, edits, mishaps>>

(* A subscription whose query fails goes on as if the device were new.       *)
CheckExists(r) ==
    /\ Is(r, "exists")
    /\ LET o == req[r] IN
        \/ /\ o.device \in devices
           /\ IF o.kind = "create" THEN End(r)
              ELSE Goto(r, [o EXCEPT !.at = "queue", !.removed = FALSE])
           /\ UNCHANGED mishaps
        \/ /\ o.device \notin devices
           /\ Goto(r, [o EXCEPT !.at = IF o.kind = "create" THEN "cache" ELSE "count"])
           /\ UNCHANGED mishaps
        \/ /\ Mishap
           /\ IF o.kind = "create" THEN End(r) ELSE Goto(r, [o EXCEPT !.at = "count"])
    /\ UNCHANGED <<rowVars, cacheVars, jobVars, pastVars, requests, edits>>

Allowed(o) == IF o.limit # None THEN o.limit ELSE Effective(o).fallback

(* Fault: the limit itself is still let in.                                  *)
HasRoom_AtLimit(o) == Cardinality(devices) <= Allowed(o)
HasRoom(o) == Cardinality(devices) < Allowed(o)

CountDevices(r) ==
    /\ Is(r, "count")
    /\ LET o == req[r] IN
        \/ /\ HasRoom(o)
           /\ Goto(r, [o EXCEPT !.at = "insert"])
           /\ cap' = IF Allowed(o) > cap THEN Allowed(o) ELSE cap
           /\ UNCHANGED mishaps
        \/ /\ ~HasRoom(o)
           /\ End(r)
           /\ UNCHANGED <<cap, mishaps>>
        \/ /\ Mishap
           /\ End(r)
           /\ UNCHANGED cap
    /\ UNCHANGED <<rowVars, cacheVars, jobVars, unchecked, served, requests, edits>>

(* Fault: the result of the upsert is not looked at.                         *)
Insert_Ignore(r) ==
    /\ Is(r, "insert")
    /\ LET o == req[r] IN
        /\ \/ devices' = devices \cup {o.device} /\ alive /\ UNCHANGED mishaps
           \/ UNCHANGED devices /\ Mishap
        /\ unchecked' = IF o.counted THEN unchecked \ {o.device} ELSE unchecked \cup {o.device}
        /\ served' = IF o.kind = "create" THEN served ELSE served \cup {o.device}
    /\ End(r)
    /\ UNCHANGED <<alive, limit, cacheVars, jobVars, cap, requests, edits>>

(* The upsert of a subscription, or the create of the panel, which fails if  *)
(* the device came in meanwhile; both fail without the user's row.           *)
Insert(r) ==
    /\ Is(r, "insert")
    /\ LET o == req[r] IN
        \/ /\ alive
           /\ o.kind = "create" => o.device \notin devices
           /\ devices' = devices \cup {o.device}
           /\ unchecked' = IF o.counted THEN unchecked \ {o.device} ELSE unchecked \cup {o.device}
           /\ served' = IF o.kind = "create" THEN served ELSE served \cup {o.device}
           /\ UNCHANGED mishaps
        \/ /\ ~alive \/ (o.kind = "create" /\ o.device \in devices)
           /\ UNCHANGED <<devices, unchecked, served, mishaps>>
        \/ /\ Mishap
           /\ UNCHANGED <<devices, unchecked, served>>
    /\ End(r)
    /\ UNCHANGED <<alive, limit, cacheVars, jobVars, cap, requests, edits>>

(* An add under the id of a job that waits or runs does nothing.  A request  *)
(* that is held to the limit is refused when the queue fails.                *)
QueueUpsert(r) ==
    /\ Is(r, "queue")
    /\ LET o == req[r] IN
        \/ /\ jobs' = IF o.device \in written THEN jobs ELSE jobs \cup {o.device}
           /\ served' = IF o.counted /\ ~o.removed THEN served \cup {o.device} ELSE served
           /\ UNCHANGED mishaps
        \/ /\ Mishap
           /\ UNCHANGED <<jobs, served>>
    /\ End(r)
    /\ UNCHANGED <<rowVars, cacheVars, written, cap, unchecked, requests, edits>>

(* The job writes whatever it was given, without a check; its errors are     *)
(* swallowed.                                                               *)
RunUpsert(d) ==
    /\ d \in jobs
    /\ jobs' = jobs \ {d}
    /\ written' = written \cup {d}
    /\ \/ /\ alive
          /\ devices' = devices \cup {d}
          /\ unchecked' = IF d \in devices THEN unchecked ELSE unchecked \cup {d}
          /\ UNCHANGED mishaps
       \/ /\ ~alive
          /\ UNCHANGED <<devices, unchecked, mishaps>>
       \/ /\ Mishap
          /\ UNCHANGED <<devices, unchecked>>
    /\ UNCHANGED <<alive, limit, cacheVars, req, cap, served, requests, edits>>

FinishUpsert(d) ==
    /\ d \in written
    /\ written' = written \ {d}
    /\ UNCHANGED <<rowVars, cacheVars, req, jobs, pastVars, requests, edits, mishaps>>

-----------------------------------------------------------------------------
(* The administrator.                                                       *)

Edit ==
    /\ edits < MaxEdits
    /\ edits' = edits + 1

(* A request that holds s as it was before the write.                        *)
Cross(s) ==
    [r \in Requests |-> IF req[r] # None /\ req[r].at = "fill" /\ req[r].scope = s
                        THEN [req[r] EXCEPT !.crossed = TRUE] ELSE req[r]]

UpdateSettings(s) ==
    /\ s \notin editing
    /\ Edit
    /\ \E value \in Content :
        /\ s = "panel" => value # None
        /\ stored' = [stored EXCEPT ![s] = value]
    /\ editing' = editing \cup {s}
    /\ req' = Cross(s)
    /\ UNCHANGED <<rowVars, cached, slipped, jobVars, pastVars, requests, mishaps>>

(* Fault: whatever was edited, the panel's entry is deleted.                 *)
DropCached_Panel(s) ==
    /\ s \in editing
    /\ editing' = editing \ {s}
    /\ cached' = [cached EXCEPT !["panel"] = Miss]
    /\ slipped' = slipped \ {"panel"}
    /\ UNCHANGED <<rowVars, stored, req, jobVars, pastVars, requests, edits, mishaps>>

DropCached(s) ==
    /\ s \in editing
    /\ editing' = editing \ {s}
    /\ \/ /\ cached' = [cached EXCEPT ![s] = Miss]
          /\ slipped' = slipped \ {s}
          /\ UNCHANGED mishaps
       \/ /\ Mishap
          /\ slipped' = slipped \cup {s}
          /\ UNCHANGED cached
    /\ UNCHANGED <<rowVars, stored, req, jobVars, pastVars, requests, edits>>

EditLimit ==
    /\ alive
    /\ Edit
    /\ limit' \in (Limits \cup {None}) \ {limit}
    /\ UNCHANGED <<alive, devices, cacheVars, req, jobVars, pastVars, requests, mishaps>>

(* Devices go: one, all of them, or all with the user.                       *)
Remove(S) ==
    /\ Edit
    /\ devices' = devices \ S
    /\ unchecked' = unchecked \ S
    /\ served' = served \ S
    /\ req' = [r \in Requests |-> IF req[r] # None /\ req[r].device \in S
                                  THEN [req[r] EXCEPT !.removed = TRUE] ELSE req[r]]
    /\ UNCHANGED <<limit, cacheVars, jobVars, cap, requests, mishaps>>

DeleteDevice(d) == d \in devices /\ Remove({d}) /\ UNCHANGED alive
DeleteAllDevices == devices # {} /\ Remove(devices) /\ UNCHANGED alive
DeleteUser == alive /\ Remove(Devices) /\ alive' = FALSE

-----------------------------------------------------------------------------

RequestStep(r) ==
    \/ Begin(r) \/ GetCached(r) \/ ReadStored(r) \/ FillCache(r) \/ ReadUser(r)
    \/ CheckExists(r) \/ CountDevices(r) \/ Insert(r) \/ QueueUpsert(r)

Next ==
    \/ \E r \in Requests : RequestStep(r)
    \/ \E s \in Scope : Expire(s) \/ UpdateSettings(s) \/ DropCached(s)
    \/ \E d \in Devices : RunUpsert(d) \/ FinishUpsert(d) \/ DeleteDevice(d)
    \/ EditLimit \/ DeleteAllDevices \/ DeleteUser

Spec == Init /\ [][Next]_vars

-----------------------------------------------------------------------------
(* Properties.                                                              *)

(* The count is read before the device is added, so requests at the limit    *)
(* overrun it, but only by as many as run at the same time: of the devices   *)
(* that were counted, at most the limit and the other requests.  Jobs that   *)
(* write without counting (a limit of 0, settings that are off, a device     *)
(* removed meanwhile) come on top.                                          *)
OverrunIsBounded ==
    Cardinality(devices \ unchecked) + 1 <= cap + Cardinality(Requests)

(* Whoever is served while the limit is in force has its device registered,  *)
(* until it is removed.                                                     *)
ServedIsRegistered == served \subseteq devices

(* An entry that is not what the database holds is about to be deleted, or   *)
(* was filled by a read that an edit overtook, or outlived a failed delete:  *)
(* it then stays for its time to live.                                      *)
StaleHasCause ==
    \A s \in Scope : cached[s] \notin {Miss, stored[s]} => s \in editing \cup slipped

=============================================================================
