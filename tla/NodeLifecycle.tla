--------------------------- MODULE NodeLifecycle ---------------------------
(***************************************************************************)
(* The nodes of one configuration profile: their rows, the xray that runs   *)
(* on them, and the jobs that keep the two together.                        *)
(*                                                                         *)
(* Requests and the health check write a row and queue jobs; startNode and  *)
(* stopNode take a node up and down; the restart of a profile's nodes pauses *)
(* startNode and takes them all at once.  Everyone reads a row, talks to the *)
(* node for seconds, and writes the row without looking at it again.         *)
(***************************************************************************)
EXTENDS Naturals

CONSTANTS
    Nodes,
    Unknown,      \* what a node whose xray is not running says of it: subset of
                  \*   {"noinfo", "lost"}, no information or no answer
    Asked,        \* the requests that are made
    MaxVersion,   \* bound: versions of the profile
    MaxCalls,     \* bound: requests
    MaxFaults     \* bound: outages and mishaps

ASSUME NodeAssumption ==
    /\ Unknown \subseteq {"noinfo", "lost"} /\ Unknown # {}
    /\ Asked \subseteq {"create", "restart", "delete", "update", "enable", "disable",
                        "modify", "edit", "drop", "restartAll"}
    /\ {MaxVersion, MaxCalls, MaxFaults} \subseteq Nat
    /\ MaxVersion > 0

VARIABLES
    node,       \* node[n]: its row, with whether it has active inbounds (bound)
    agent,      \* agent[n]: whether it answers, and the version its xray runs, or 0
    config,     \* the version of the profile, 0 once it is deleted
    req,        \* req[n]: the request on n under way
    bulk,       \* the request on many nodes, or on the profile, under way
    start,      \* start[n]: n's startNode job
    stop,       \* stop[n]: n's stopNode job
    deleting,   \* nodes with a stopNode job that deletes
    check,      \* check[n]: n's health check job
    restart,    \* the profile's startAllNodesByProfile job
    paused,     \* the startNode and startAllNodes queues are paused
    all,        \* a startAllNodes job waits
    again,      \* the scheduler will ask for the restart again
    calls,      \* requests so far
    outages,    \* times that a node, or its xray, went away
    mishaps,    \* failed queries, lost answers, crashes
    owed,       \* a restart was asked for that no job has begun (history)
    orphans,    \* nodes whose job ended without its last write (history)
    clean,      \* nodes disabled while nothing else was under way (history)
    overlapped  \* nodes whose startNode job held a configuration when a restart passed
                \*   them by or read its own, and that no later one has read for (history)

jobs == <<start, stop, deleting, check>>
profileJobs == <<restart, paused, all, again, owed>>
requests == <<req, bulk, calls>>
bounds == <<outages, mishaps>>
history == <<orphans, clean, overlapped>>
vars == <<node, agent, config, requests, jobs, profileJobs, bounds, history>>

Row == [row : {"new", "live", "gone"}, profile : BOOLEAN, bound : BOOLEAN,
        disabled : BOOLEAN, connecting : BOOLEAN, connected : BOOLEAN]
Blank(row) == [row |-> row, profile |-> FALSE, bound |-> FALSE,
               disabled |-> FALSE, connecting |-> FALSE, connected |-> FALSE]
Connected == [row |-> "live", profile |-> TRUE, bound |-> TRUE,
              disabled |-> FALSE, connecting |-> FALSE, connected |-> TRUE]
Disabled == [Connected EXCEPT !.disabled = TRUE, !.connected = FALSE]

Request == {"none", "bind", "start", "stop", "remove", "add", "row", "keep", "enable", "clear"}
Idle == [op |-> "none", enabled |-> FALSE]
Job(pc, version) == [pc |-> pc, version |-> version]
NoJob == Job("none", 0)
NoCheck == [pc |-> "none", was |-> FALSE]
NoBulk == [pc |-> "none", nodes |-> {}]
NoRestart == [pc |-> "none", nodes |-> {}, bound |-> {}, todo |-> {}, halt |-> {},
              up |-> {}, down |-> {}, version |-> 0]

TypeOK ==
    /\ node \in [Nodes -> Row]
    /\ \A n \in Nodes : node[n].row # "live" => node[n] = Blank(node[n].row)
    /\ agent \in [Nodes -> [up : BOOLEAN, runs : 0..MaxVersion]]
    /\ config \in 0..MaxVersion
    /\ req \in [Nodes -> [op : Request, enabled : BOOLEAN]]
    /\ bulk \in [pc : {"none", "row", "remove", "add", "restart", "drop"}, nodes : SUBSET Nodes]
    /\ start \in [Nodes -> [pc : {"none", "waiting", "clear", "halt", "flag", "flagged",
                                  "send", "sent", "failed"}, version : 0..MaxVersion]]
    /\ stop \in [Nodes -> {"none", "waiting", "stopped"}]
    /\ deleting \in SUBSET Nodes
    /\ check \in [Nodes -> [pc : {"none", "waiting", "alive", "noinfo", "lost"},
                            was : BOOLEAN]]
    /\ restart \in [pc : {"none", "waiting", "select", "mark", "work", "resume"},
                    nodes : SUBSET Nodes, bound : SUBSET Nodes, todo : SUBSET Nodes,
                    halt : SUBSET Nodes, up : SUBSET Nodes, down : SUBSET Nodes,
                    version : 0..MaxVersion]
    /\ restart.bound \subseteq restart.nodes
    /\ {paused, all, again, owed} \subseteq BOOLEAN
    /\ {calls, outages, mishaps} \subseteq Nat
    /\ orphans \in SUBSET Nodes /\ clean \in SUBSET Nodes /\ overlapped \in SUBSET Nodes

(* The panel starts over nodes it knows, some of them disabled, and nodes it *)
(* does not know yet.                                                        *)
(* The scheduler's first tick will restart them all.                         *)
Init ==
    /\ node \in [Nodes -> {Blank("new"), Connected, Disabled}]
    /\ agent = [n \in Nodes |-> [up |-> TRUE, runs |-> IF node[n].connected THEN 1 ELSE 0]]
    /\ config = 1
    /\ req = [n \in Nodes |-> Idle]
    /\ bulk = NoBulk
    /\ start = [n \in Nodes |-> NoJob]
    /\ stop = [n \in Nodes |-> "none"]
    /\ deleting = {}
    /\ check = [n \in Nodes |-> NoCheck]
    /\ restart = NoRestart
    /\ paused = FALSE /\ all = TRUE /\ again = FALSE
    /\ calls = 0 /\ outages = 0 /\ mishaps = 0
    /\ owed = FALSE
    /\ clean = {n \in Nodes : node[n].disabled}
    /\ orphans = {} /\ overlapped = {}

Mishap ==
    /\ outages + mishaps < MaxFaults
    /\ mishaps' = mishaps + 1
    /\ UNCHANGED outages

Outage ==
    /\ outages + mishaps < MaxFaults
    /\ outages' = outages + 1
    /\ UNCHANGED mishaps

-----------------------------------------------------------------------------
(* Writes of a row, and jobs queued.                                         *)

Live(n) == node[n].row = "live"
Startable(n) == node[n].profile /\ node[n].bound

(* Fault: a failed start leaves isConnecting set.                            *)
Down_Connecting(r) == [r EXCEPT !.connected = FALSE]
Down(r) == [r EXCEPT !.connecting = FALSE, !.connected = FALSE]
Off(r) == [Down(r) EXCEPT !.disabled = TRUE]
Cleared(r) == [Off(r) EXCEPT !.profile = FALSE]
Connecting(r) == [r EXCEPT !.connecting = TRUE]
Up(r) == [Down(r) EXCEPT !.connected = TRUE]

(* Fault: the write does not ask whether the row is there.                   *)
Put_Upsert(n, r) == node' = [node EXCEPT ![n] = r]

(* An update of a row that is gone fails, and the jobs do not mind.          *)
Put(n, r) == node' = IF Live(n) THEN [node EXCEPT ![n] = r] ELSE node

(* The job id keeps one startNode and one stopNode job of a node.            *)
QueueStart(n) == start' = IF start[n] = NoJob THEN [start EXCEPT ![n] = Job("waiting", 0)] ELSE start
QueueStop(n) == stop' = IF stop[n] = "none" THEN [stop EXCEPT ![n] = "waiting"] ELSE stop

Runs(n, version) == agent' = [agent EXCEPT ![n].runs = version]

(* Fault: a deduplicated restart is forgotten.                               *)
AskRestart_Drop ==
    /\ owed' = TRUE
    /\ restart' = IF restart.pc = "none" THEN [NoRestart EXCEPT !.pc = "waiting"] ELSE restart
    /\ UNCHANGED again

(* One restart of a profile at a time: a second one is deduplicated, and the *)
(* scheduler, which listens for that, asks again.                            *)
AskRestart ==
    /\ owed' = TRUE
    /\ \/ restart.pc = "none" /\ restart' = [NoRestart EXCEPT !.pc = "waiting"] /\ UNCHANGED again
       \/ restart.pc # "none" /\ again' = TRUE /\ UNCHANGED restart

-----------------------------------------------------------------------------
(* The startNode job of a node.                                              *)

Flagged == {"flagged", "send", "sent", "failed"}
Holding == {"send", "sent"}
StartVars == <<config, requests, deleting, check, profileJobs>>

StartRead(n) ==
    /\ start[n].pc = "waiting" /\ ~paused
    /\ start' = [start EXCEPT ![n] =
            IF ~Live(n) \/ node[n].connecting THEN NoJob
            ELSE Job(IF Startable(n) THEN "flag" ELSE "clear", 0)]
    /\ UNCHANGED <<node, agent, stop, StartVars, bounds, history>>

(* A node without inbounds is disabled, and a stopNode job queued for it.    *)
StartClear(n) ==
    /\ start[n].pc = "clear"
    /\ Put(n, Cleared(node[n]))
    /\ start' = [start EXCEPT ![n] = Job("halt", 0)]
    /\ UNCHANGED <<agent, stop, StartVars, bounds, history>>

StartHalt(n) ==
    /\ start[n].pc = "halt"
    /\ QueueStop(n)
    /\ start' = [start EXCEPT ![n] = NoJob]
    /\ UNCHANGED <<node, agent, StartVars, bounds, history>>

StartFlag(n) ==
    /\ start[n].pc = "flag"
    /\ Put(n, Connecting(node[n]))
    /\ start' = [start EXCEPT ![n] = Job("flagged", 0)]
    /\ UNCHANGED <<agent, stop, StartVars, bounds, history>>

(* The node's health and version, its plugins, and the configuration with    *)
(* its users.  No configuration is an error, which nobody writes down.       *)
StartPrepare(n) ==
    /\ start[n].pc = "flagged"
    /\ \/ /\ agent[n].up /\ config # 0
          /\ start' = [start EXCEPT ![n] = Job("send", config)]
          /\ overlapped' = overlapped \ {n}
          /\ UNCHANGED <<bounds, orphans>>
       \/ /\ agent[n].up /\ config = 0
          /\ start' = [start EXCEPT ![n] = NoJob]
          /\ orphans' = orphans \cup {n}
          /\ UNCHANGED <<bounds, overlapped>>
       \/ /\ (agent[n].up /\ Mishap) \/ (~agent[n].up /\ UNCHANGED bounds)
          /\ start' = [start EXCEPT ![n] = Job("failed", 0)]
          /\ UNCHANGED <<orphans, overlapped>>
    /\ UNCHANGED <<node, agent, stop, StartVars, clean>>

(* startXray; xray may refuse to start, and the answer may be lost.          *)
StartSend(n) ==
    /\ start[n].pc = "send"
    /\ \/ /\ agent[n].up
          /\ Runs(n, start[n].version)
          /\ start' = [start EXCEPT ![n] = Job("sent", 0)]
          /\ UNCHANGED bounds
       \/ /\ agent[n].up /\ Mishap
          /\ \E version \in {0, start[n].version} : Runs(n, version)
          /\ start' = [start EXCEPT ![n] = Job("failed", 0)]
       \/ /\ ~agent[n].up
          /\ start' = [start EXCEPT ![n] = Job("failed", 0)]
          /\ UNCHANGED <<agent, bounds>>
    /\ UNCHANGED <<node, stop, StartVars, history>>

StartFinish(n) ==
    /\ start[n].pc \in {"sent", "failed"}
    /\ Put(n, IF start[n].pc = "sent" THEN Up(node[n]) ELSE Down(node[n]))
    /\ start' = [start EXCEPT ![n] = NoJob]
    /\ UNCHANGED <<agent, stop, StartVars, bounds, history>>

(* The job ends in an error, a failed write or a missing plugin, or is found *)
(* stalled and waits again: the row keeps what was written last.             *)
StartCrash(n) ==
    /\ start[n].pc \notin {"none", "waiting"}
    /\ Mishap
    /\ \E job \in {NoJob, Job("waiting", 0)} : start' = [start EXCEPT ![n] = job]
    /\ orphans' = IF start[n].pc \in Flagged THEN orphans \cup {n} ELSE orphans
    /\ UNCHANGED <<node, agent, stop, StartVars, clean, overlapped>>

-----------------------------------------------------------------------------
(* The stopNode jobs of a node.                                              *)

StopVars == <<config, requests, start, check, profileJobs>>

(* stopXray: whether it reached the node is not looked at.                   *)
StopXray(n) ==
    /\ stop[n] = "waiting"
    /\ IF Live(n)
       THEN /\ stop' = [stop EXCEPT ![n] = "stopped"]
            /\ \/ agent[n].up /\ Runs(n, 0) /\ UNCHANGED <<bounds, clean>>
               \/ /\ (agent[n].up /\ Mishap) \/ (~agent[n].up /\ UNCHANGED bounds)
                  /\ clean' = clean \ {n}
                  /\ UNCHANGED agent
       ELSE /\ stop' = [stop EXCEPT ![n] = "none"]
            /\ UNCHANGED <<agent, bounds, clean>>
    /\ UNCHANGED <<node, deleting, StopVars, orphans, overlapped>>

StopWrite(n) ==
    /\ stop[n] = "stopped"
    /\ Put(n, Off(node[n]))
    /\ stop' = [stop EXCEPT ![n] = "none"]
    /\ UNCHANGED <<agent, deleting, StopVars, bounds, history>>

(* The job ends as its read of the node fails, ends or starts over before    *)
(* its write.                                                               *)
StopCrash(n) ==
    /\ stop[n] # "none"
    /\ Mishap
    /\ \E pc \in {"none", "waiting"} \ {stop[n]} : stop' = [stop EXCEPT ![n] = pc]
    /\ clean' = clean \ {n}
    /\ UNCHANGED <<node, agent, deleting, StopVars, orphans, overlapped>>

(* Its row is deleted; xray is not stopped.                                  *)
DeleteRow(n) ==
    /\ n \in deleting
    /\ deleting' = deleting \ {n}
    /\ \/ /\ node' = IF Live(n) THEN [node EXCEPT ![n] = Blank("gone")] ELSE node
          /\ UNCHANGED bounds
       \/ Mishap /\ UNCHANGED node
    /\ UNCHANGED <<agent, stop, StopVars, history>>

-----------------------------------------------------------------------------
(* The health check: the cron reads the rows, a job per node asks the node   *)
(* and writes by what the cron had read.                                     *)

CheckVars == <<agent, config, requests, stop, deleting, profileJobs>>

(* Fault: disabled nodes are checked too.                                    *)
CheckAll_Disabled ==
    /\ check' = [n \in Nodes |->
            IF Live(n) /\ ~node[n].connecting /\ check[n] = NoCheck
            THEN [pc |-> "waiting", was |-> node[n].connected] ELSE check[n]]
    /\ UNCHANGED <<node, start, CheckVars, bounds, history>>

CheckAll ==
    /\ check' = [n \in Nodes |->
            IF Live(n) /\ ~node[n].disabled /\ ~node[n].connecting /\ check[n] = NoCheck
            THEN [pc |-> "waiting", was |-> node[n].connected] ELSE check[n]]
    /\ UNCHANGED <<node, start, CheckVars, bounds, history>>

CheckTo(n, pc) == check' = [check EXCEPT ![n] = IF pc = "none" THEN NoCheck ELSE [@ EXCEPT !.pc = pc]]

CheckProbe(n) ==
    /\ check[n].pc = "waiting"
    /\ \E said \in IF ~agent[n].up THEN {"lost"}
                   ELSE IF agent[n].runs = 0 THEN Unknown ELSE {"alive"} :
            CheckTo(n, IF said = "alive" /\ check[n].was THEN "none" ELSE said)
    /\ UNCHANGED <<node, start, CheckVars, bounds, history>>

(* Fault: a node found lost is marked, and not started.                      *)
CheckWrite_Mark(n) ==
    /\ check[n].pc \in {"alive", "noinfo", "lost"}
    /\ Put(n, [node[n] EXCEPT !.connected = check[n].pc = "alive"])
    /\ IF Live(n) /\ check[n].pc = "alive" THEN QueueStart(n) ELSE UNCHANGED start
    /\ CheckTo(n, "none")
    /\ UNCHANGED <<CheckVars, bounds, history>>

CheckWrite(n) ==
    /\ check[n].pc \in {"alive", "noinfo", "lost"}
    /\ Put(n, [node[n] EXCEPT !.connected = check[n].pc = "alive"])
    /\ IF Live(n) /\ check[n].pc # "noinfo" THEN QueueStart(n) ELSE UNCHANGED start
    /\ CheckTo(n, "none")
    /\ UNCHANGED <<CheckVars, bounds, history>>

CheckCrash(n) ==
    /\ check[n].pc \notin {"none", "waiting"}
    /\ Mishap
    /\ \E pc \in {"none", "waiting"} : CheckTo(n, pc)
    /\ UNCHANGED <<node, start, CheckVars, history>>

-----------------------------------------------------------------------------
(* The restart of the profile's nodes.                                       *)

RestartVars == <<config, requests, start, deleting, check, all, again>>
NodeVars == <<node, agent, stop, RestartVars>>

RestartPause ==
    /\ restart.pc = "waiting"
    /\ paused' = TRUE
    /\ restart' = [restart EXCEPT !.pc = "select"]
    /\ UNCHANGED <<NodeVars, owed, bounds, history>>

RestartSelect ==
    /\ restart.pc = "select"
    /\ LET found == {n \in Nodes : Live(n) /\ ~node[n].disabled /\ node[n].profile}
           bound == {n \in found : node[n].bound}
       IN /\ restart' = [restart EXCEPT !.pc = "mark", !.nodes = found, !.todo = found,
                                        !.bound = bound]
          /\ overlapped' = overlapped \cup {n \in Nodes \ bound : start[n].pc \in Holding}
    /\ owed' = FALSE
    /\ UNCHANGED <<NodeVars, paused, bounds, orphans, clean>>

(* One node after another, in an order the administrator chose.              *)
RestartMark(n) ==
    /\ restart.pc = "mark" /\ restart.halt = {} /\ n \in restart.todo
    /\ Put(n, IF n \in restart.bound THEN Connecting(node[n]) ELSE Cleared(node[n]))
    /\ restart' = [restart EXCEPT !.todo = @ \ {n}, !.halt = {n} \ restart.bound]
    /\ UNCHANGED <<agent, stop, RestartVars, paused, owed, bounds, history>>

RestartHalt(n) ==
    /\ restart.pc = "mark" /\ n \in restart.halt
    /\ QueueStop(n)
    /\ restart' = [restart EXCEPT !.halt = {}]
    /\ UNCHANGED <<node, agent, RestartVars, paused, owed, bounds, history>>

(* The configuration is read once, and all the selected nodes are started,   *)
(* those without inbounds too.                                               *)
RestartRead ==
    /\ restart.pc = "mark" /\ restart.todo = {} /\ restart.halt = {}
    /\ \/ /\ restart.bound # {} /\ config # 0
          /\ restart' = [restart EXCEPT !.pc = "work", !.todo = restart.nodes, !.version = config]
          /\ UNCHANGED orphans
       \/ /\ restart.bound = {} \/ config = 0
          /\ restart' = [NoRestart EXCEPT !.pc = "resume"]
          /\ orphans' = orphans \cup restart.bound
    /\ overlapped' = overlapped \cup {n \in restart.bound : start[n].pc \in Holding}
    /\ UNCHANGED <<NodeVars, paused, owed, bounds, clean>>

(* Health, plugins and startXray of one of the nodes.                        *)
RestartSend(n) ==
    /\ restart.pc = "work" /\ n \in restart.todo
    /\ \/ /\ agent[n].up
          /\ Runs(n, restart.version)
          /\ restart' = [restart EXCEPT !.todo = @ \ {n}, !.up = @ \cup {n}]
          /\ UNCHANGED bounds
       \/ /\ agent[n].up /\ Mishap
          /\ \E version \in {agent[n].runs, 0, restart.version} : Runs(n, version)
          /\ restart' = [restart EXCEPT !.todo = @ \ {n}, !.down = @ \cup {n}]
       \/ /\ ~agent[n].up
          /\ restart' = [restart EXCEPT !.todo = @ \ {n}, !.down = @ \cup {n}]
          /\ UNCHANGED <<agent, bounds>>
    /\ UNCHANGED <<node, stop, RestartVars, paused, owed, history>>

RestartWrite(n) ==
    /\ restart.pc = "work" /\ n \in restart.up \cup restart.down
    /\ Put(n, IF n \in restart.up THEN Up(node[n]) ELSE Down(node[n]))
    /\ restart' = [restart EXCEPT !.up = @ \ {n}, !.down = @ \ {n}]
    /\ UNCHANGED <<agent, stop, RestartVars, paused, owed, bounds, history>>

RestartResume ==
    /\ \/ restart.pc = "resume"
       \/ restart.pc = "work" /\ restart.todo \cup restart.up \cup restart.down = {}
    /\ paused' = FALSE
    /\ restart' = NoRestart
    /\ UNCHANGED <<NodeVars, owed, bounds, history>>

(* A node's plugin or last write is missing: its row stays as it is.         *)
RestartSkip(n) ==
    /\ restart.pc = "work" /\ n \in restart.todo \cup restart.up \cup restart.down
    /\ Mishap
    /\ restart' = [restart EXCEPT !.todo = @ \ {n}, !.up = @ \ {n}, !.down = @ \ {n}]
    /\ orphans' = orphans \cup {n}
    /\ UNCHANGED <<NodeVars, paused, owed, clean, overlapped>>

(* An error ends the job, which resumes; a dead worker's job waits again, or *)
(* is dropped and leaves the queues paused.                                  *)
RestartCrash ==
    /\ restart.pc \in {"select", "mark", "work"}
    /\ Mishap
    /\ \E pc \in {"resume", "waiting", "none"} :
        /\ restart' = [NoRestart EXCEPT !.pc = pc]
        /\ owed' = (owed /\ (restart.pc = "select" => pc = "waiting"))
    /\ orphans' = orphans \cup restart.bound
    /\ UNCHANGED <<NodeVars, paused, clean, overlapped>>

(* startAllNodes reads the nodes and asks for the restart of their profile.  *)
StartAll ==
    /\ all /\ ~paused
    /\ all' = FALSE
    /\ IF \E n \in Nodes : Live(n) /\ ~node[n].disabled /\ node[n].profile
       THEN AskRestart
       ELSE UNCHANGED <<restart, again>> /\ owed' = FALSE
    /\ UNCHANGED <<node, agent, config, requests, jobs, paused, bounds, history>>

(* Fault: the profile leaves the waiting list before its restart is queued,   *)
(* and a second deduplication does not put it back.                          *)
AskAgain_Forget ==
    /\ again
    /\ again' = FALSE
    /\ restart' = IF restart.pc = "none" THEN [NoRestart EXCEPT !.pc = "waiting"] ELSE restart
    /\ UNCHANGED <<node, agent, config, requests, jobs, paused, all, owed, bounds, history>>

(* Ten seconds after a deduplication.                                        *)
AskAgain ==
    /\ again
    /\ again' = (restart.pc # "none")
    /\ restart' = IF restart.pc = "none" THEN [NoRestart EXCEPT !.pc = "waiting"] ELSE restart
    /\ UNCHANGED <<node, agent, config, requests, jobs, paused, all, owed, bounds, history>>

(* A new scheduler has forgotten what it would ask again, and restarts all   *)
(* nodes at its first tick.                                                  *)
SchedulerRestarts ==
    /\ Mishap
    /\ again' = FALSE /\ all' = TRUE
    /\ UNCHANGED <<node, agent, config, requests, jobs, restart, paused, owed, history>>

-----------------------------------------------------------------------------
(* Requests on a node: one at a time of each node.                           *)

RequestVars == <<agent, deleting, check, profileJobs, bounds>>

Call(request) ==
    /\ request \in Asked
    /\ calls < MaxCalls
    /\ calls' = calls + 1
    /\ UNCHANGED bulk

(* An update remembers whether the row it read was enabled.                  *)
To(n, op) == req' = [req EXCEPT ![n] =
    [op |-> op, enabled |-> op \in {"remove", "keep"} /\ ~node[n].disabled]]
Go(n, op) == req' = [req EXCEPT ![n].op = op]
Answer(n) == req' = [req EXCEPT ![n] = Idle]

CreateNode(n) ==
    /\ Call("create")
    /\ node[n].row = "new" /\ config # 0
    /\ node' = [node EXCEPT ![n] = [Blank("live") EXCEPT !.profile = TRUE]]
    /\ To(n, "bind")
    /\ UNCHANGED <<config, start, stop, RequestVars, history>>

RestartNode(n) ==
    /\ Call("restart")
    /\ req[n].op = "none" /\ Live(n) /\ ~node[n].disabled
    /\ To(n, "start")
    /\ UNCHANGED <<node, config, start, stop, RequestVars, history>>

DeleteNode(n) ==
    /\ Call("delete")
    /\ req[n].op = "none" /\ Live(n)
    /\ deleting' = deleting \cup {n}
    /\ UNCHANGED <<node, agent, config, req, start, stop, check, profileJobs, bounds, history>>

(* With a profile and inbounds, or with neither.                             *)
UpdateNode(n) ==
    /\ Call("update")
    /\ req[n].op = "none" /\ Live(n)
    /\ \/ config # 0 /\ To(n, "remove")
       \/ To(n, "keep")
    /\ UNCHANGED <<node, config, start, stop, RequestVars, history>>

EnableNode(n) ==
    /\ Call("enable")
    /\ req[n].op = "none" /\ Live(n)
    /\ To(n, IF Startable(n) THEN "enable" ELSE "clear")
    /\ UNCHANGED <<node, config, start, stop, RequestVars, history>>

DisableNode(n) ==
    /\ Call("disable")
    /\ req[n].op = "none" /\ Live(n)
    /\ node' = [node EXCEPT ![n] = IF Startable(n) THEN Off(@) ELSE Cleared(@)]
    /\ To(n, "stop")
    /\ clean' = IF start[n] = NoJob /\ stop[n] = "none" /\ check[n] = NoCheck /\ n \notin restart.nodes
                THEN clean \cup {n} ELSE clean \ {n}
    /\ UNCHANGED <<config, start, stop, RequestVars, orphans, overlapped>>

(* The rest of a request.  Removing the inbounds and adding the new ones are *)
(* two statements.                                                           *)
WriteNode(n) ==
    /\ \/ /\ req[n].op = "bind" /\ Live(n)
          /\ node' = [node EXCEPT ![n].bound = config # 0]
          /\ Go(n, "start")
       \/ /\ req[n].op = "remove"
          /\ node' = [node EXCEPT ![n].bound = FALSE]
          /\ Go(n, "add")
       \/ /\ req[n].op = "add" /\ Live(n) /\ config # 0
          /\ node' = [node EXCEPT ![n].bound = TRUE]
          /\ Go(n, "row")
       \/ /\ \/ req[n].op = "row" /\ config # 0
             \/ req[n].op = "keep"
          /\ Live(n)
          /\ node' = IF req[n].op = "row" THEN [node EXCEPT ![n].profile = TRUE] ELSE node
          /\ IF req[n].enabled THEN To(n, "start") ELSE Answer(n)
       \/ /\ req[n].op = "enable" /\ Live(n)
          /\ node' = [node EXCEPT ![n].disabled = FALSE]
          /\ Go(n, "start")
       \/ /\ req[n].op = "clear" /\ Live(n)
          /\ node' = [node EXCEPT ![n] = Cleared(@)]
          /\ Answer(n)
    /\ clean' = IF req[n].op \in {"enable", "clear"} THEN clean \ {n} ELSE clean
    /\ UNCHANGED <<config, bulk, calls, start, stop, RequestVars, orphans, overlapped>>

QueueJob(n) ==
    /\ \/ req[n].op = "start" /\ QueueStart(n) /\ UNCHANGED stop
       \/ req[n].op = "stop" /\ QueueStop(n) /\ UNCHANGED start
    /\ Answer(n)
    /\ UNCHANGED <<node, config, bulk, calls, RequestVars, history>>

(* Refused input, a row or a profile that is gone, or an error: what was     *)
(* written stays.                                                            *)
RequestFails(n) ==
    /\ req[n].op # "none"
    /\ \/ /\ \/ req[n].op \in {"bind", "add"}
             \/ req[n].op \in {"row", "keep", "enable", "clear"} /\ ~Live(n)
             \/ req[n].op = "row" /\ config = 0
          /\ UNCHANGED bounds
       \/ Mishap
    /\ Answer(n)
    /\ clean' = clean \ {n}
    /\ UNCHANGED <<node, agent, config, bulk, calls, jobs, profileJobs, orphans, overlapped>>

-----------------------------------------------------------------------------
(* Requests on many nodes or on the profile: one at a time.                  *)

BulkVars == <<req, start, deleting, check, paused, all, bounds>>

CallBulk(request) ==
    /\ request \in Asked
    /\ calls < MaxCalls
    /\ calls' = calls + 1
    /\ bulk = NoBulk

Bulk(pc, nodes) == bulk' = [pc |-> pc, nodes |-> nodes]

(* Gives nodes the profile and new inbounds, in three statements.            *)
ModifyProfile ==
    /\ CallBulk("modify")
    /\ config # 0
    /\ \E some \in (SUBSET Nodes) \ {{}} : Bulk("row", some)
    /\ UNCHANGED <<node, agent, config, stop, restart, again, owed, BulkVars, history>>

WriteProfiles ==
    /\ \/ /\ bulk.pc = "row"
          /\ node' = [n \in Nodes |-> IF n \in bulk.nodes /\ Live(n)
                                      THEN [node[n] EXCEPT !.profile = TRUE] ELSE node[n]]
          /\ Bulk("remove", bulk.nodes)
       \/ /\ bulk.pc = "remove"
          /\ node' = [n \in Nodes |-> IF n \in bulk.nodes
                                      THEN [node[n] EXCEPT !.bound = FALSE] ELSE node[n]]
          /\ Bulk("add", bulk.nodes)
       \/ /\ bulk.pc = "add" /\ \A n \in bulk.nodes : Live(n)
          /\ node' = [n \in Nodes |-> IF n \in bulk.nodes
                                      THEN [node[n] EXCEPT !.bound = TRUE] ELSE node[n]]
          /\ Bulk("restart", {})
    /\ UNCHANGED <<agent, config, calls, stop, restart, again, owed, BulkVars, history>>

(* A new version of the profile, in a transaction; the inbounds that it      *)
(* drops leave their nodes.  A change of a squad, whose users the nodes get  *)
(* by a restart too, is a version that drops none.                           *)
EditProfile ==
    /\ CallBulk("edit")
    /\ config \in 1..(MaxVersion - 1)
    /\ config' = config + 1
    /\ \E dropped \in SUBSET {n \in Nodes : node[n].bound} :
        node' = [n \in Nodes |-> IF n \in dropped THEN [node[n] EXCEPT !.bound = FALSE] ELSE node[n]]
    /\ Bulk("restart", {})
    /\ UNCHANGED <<agent, stop, restart, again, owed, BulkVars, history>>

(* Stops the profile's nodes, then deletes it; its inbounds go with it.      *)
DeleteProfile ==
    /\ CallBulk("drop")
    /\ config # 0
    /\ stop' = [n \in Nodes |-> IF Live(n) /\ node[n].profile /\ stop[n] = "none"
                                THEN "waiting" ELSE stop[n]]
    /\ Bulk("drop", {})
    /\ UNCHANGED <<node, agent, config, restart, again, owed, BulkVars, history>>

DropProfile ==
    /\ bulk.pc = "drop"
    /\ config' = 0
    /\ node' = [n \in Nodes |-> [node[n] EXCEPT !.profile = FALSE, !.bound = FALSE]]
    /\ bulk' = NoBulk
    /\ UNCHANGED <<agent, calls, stop, restart, again, owed, BulkVars, history>>

RequestRestart ==
    /\ bulk.pc = "restart"
    /\ AskRestart
    /\ bulk' = NoBulk
    /\ UNCHANGED <<node, agent, config, calls, stop, BulkVars, history>>

RestartAll ==
    /\ CallBulk("restartAll")
    /\ \E n \in Nodes : Live(n) /\ ~node[n].disabled
    /\ all' = TRUE
    /\ UNCHANGED <<node, agent, config, req, bulk, jobs, restart, paused, again, owed, bounds, history>>

BulkFails ==
    /\ bulk.pc # "none"
    /\ \/ bulk.pc = "add" /\ (\E n \in bulk.nodes : ~Live(n)) /\ UNCHANGED bounds
       \/ Mishap
    /\ bulk' = NoBulk
    /\ UNCHANGED <<node, agent, config, req, calls, jobs, profileJobs, history>>

-----------------------------------------------------------------------------
(* The nodes.                                                                *)

AgentVars == <<node, config, requests, jobs, profileJobs, history>>

AgentGone(n) ==
    /\ Outage
    /\ agent[n].up
    /\ agent' = [agent EXCEPT ![n].up = FALSE]
    /\ UNCHANGED AgentVars

(* A network outage leaves xray running, a reboot does not.                  *)
AgentBack(n) ==
    /\ ~agent[n].up
    /\ \E version \in {0, agent[n].runs} : agent' = [agent EXCEPT ![n] = [up |-> TRUE, runs |-> version]]
    /\ UNCHANGED <<AgentVars, bounds>>

XrayDies(n) ==
    /\ Outage
    /\ agent[n].runs # 0
    /\ Runs(n, 0)
    /\ UNCHANGED AgentVars

-----------------------------------------------------------------------------

StartStep(n) ==
    StartRead(n) \/ StartClear(n) \/ StartHalt(n) \/ StartFlag(n) \/ StartPrepare(n)
        \/ StartSend(n) \/ StartFinish(n)
StopStep(n) == StopXray(n) \/ StopWrite(n) \/ DeleteRow(n)
CheckStep(n) == CheckProbe(n) \/ CheckWrite(n)
RestartStep ==
    \/ RestartPause \/ RestartSelect \/ RestartRead \/ RestartResume
    \/ \E n \in Nodes : RestartMark(n) \/ RestartHalt(n) \/ RestartSend(n) \/ RestartWrite(n)
RequestStep(n) == WriteNode(n) \/ QueueJob(n) \/ RequestFails(n)
BulkStep == WriteProfiles \/ DropProfile \/ RequestRestart \/ BulkFails

NewRequest ==
    \/ \E n \in Nodes :
        \/ CreateNode(n) \/ RestartNode(n) \/ DeleteNode(n)
        \/ UpdateNode(n) \/ EnableNode(n) \/ DisableNode(n)
    \/ ModifyProfile \/ EditProfile \/ DeleteProfile \/ RestartAll

Next ==
    \/ \E n \in Nodes :
        \/ StartStep(n) \/ StartCrash(n)
        \/ StopStep(n) \/ StopCrash(n)
        \/ CheckStep(n) \/ CheckCrash(n)
        \/ RestartSkip(n)
        \/ RequestStep(n)
        \/ AgentGone(n) \/ AgentBack(n) \/ XrayDies(n)
    \/ CheckAll
    \/ RestartStep \/ RestartCrash
    \/ StartAll \/ AskAgain \/ SchedulerRestarts
    \/ NewRequest \/ BulkStep

Spec == Init /\ [][Next]_vars

(* The workers of starts, checks and restarts work and the cron of the check *)
(* ticks.  Nobody has to make a request, or to go on with it; stops, and the *)
(* restarts that are asked again, may wait; an agent may stay away.          *)
FairSpec ==
    /\ Spec
    /\ \A n \in Nodes : WF_vars(StartStep(n)) /\ WF_vars(CheckStep(n))
    /\ WF_vars(CheckAll) /\ WF_vars(RestartStep)

-----------------------------------------------------------------------------
(* Properties.                                                               *)

Owned(n) ==
    \/ start[n].pc \in Flagged
    \/ restart.pc = "mark" /\ n \in restart.bound \ restart.todo
    \/ restart.pc = "work" /\ n \in restart.todo \cup restart.up \cup restart.down

(* isConnecting hides a node from the health check and from startNode, so a  *)
(* row carries it only while a job will still clear it, or its job died.     *)
ConnectingHasOwner == \A n \in Nodes : node[n].connecting => Owned(n) \/ n \in orphans

(* A restart that was asked for, and deduplicated into one that had already  *)
(* read the nodes, is asked for again; a scheduler that forgets restarts all. *)
RestartNotLost == owed => restart.pc \in {"waiting", "select"} \/ again \/ all

(* A node that was disabled while no start, check or restart of it was under *)
(* way, and that answered, is stopped once its stopNode job is done, and      *)
(* nothing brings it up before it is enabled.                                *)
DisabledIsStopped ==
    \A n \in clean :
        Live(n) /\ req[n].op # "stop" /\ stop[n] = "none" =>
            node[n].disabled /\ ~node[n].connected /\ agent[n].runs = 0

Settled(n) ==
    /\ start[n] = NoJob /\ stop[n] = "none" /\ check[n] = NoCheck /\ req[n] = Idle
    /\ restart.pc = "none" /\ bulk.pc = "none" /\ ~again /\ ~all

(* When nothing is under way, an enabled node of the profile that is shown   *)
(* connected runs the current version, if its xray runs; unless a startNode  *)
(* job of the node, which a restart does not wait for, held a configuration  *)
(* when a restart left the node out or read its own, and no later startNode  *)
(* job has read one.                                                         *)
ConnectedIsCurrent ==
    \A n \in Nodes \ overlapped :
        mishaps = 0 /\ Settled(n) /\ Startable(n) /\ ~node[n].disabled /\ node[n].connected =>
            agent[n].runs \in {0, config}

(* "Failed to get active node inbounds tags": the restart starts only nodes  *)
(* whose active inbounds it has collected.                                   *)
StartedHasInbounds == restart.pc = "work" => restart.todo \subseteq restart.bound

(* An enabled node that has inbounds and answers is connected again and      *)
(* again, whatever it and its profile went through, unless the job that was  *)
(* to clear isConnecting, or the restart that was to resume the queue, died. *)
Wanted(n) ==
    /\ Live(n) /\ ~node[n].disabled /\ Startable(n) /\ agent[n].up
    /\ n \notin orphans /\ ~(paused /\ restart.pc = "none")
NodeComesUp == \A n \in Nodes : []<>(Wanted(n) => node[n].connected)
=============================================================================
