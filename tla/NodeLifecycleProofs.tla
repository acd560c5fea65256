------------------------ MODULE NodeLifecycleProofs ------------------------
(* Proofs about NodeLifecycle for every set of nodes, every request and      *)
(* every bound.                                                             *)
EXTENDS NodeLifecycle, TLAPS

-----------------------------------------------------------------------------
(* Types, one variable at a time.                                           *)

StartJob == [pc : {"none", "waiting", "clear", "halt", "flag", "flagged", "send", "sent", "failed"},
             version : 0..MaxVersion]
CheckJob == [pc : {"none", "waiting", "alive", "noinfo", "lost"}, was : BOOLEAN]
RestartJob == [pc : {"none", "waiting", "select", "mark", "work", "resume"},
               nodes : SUBSET Nodes, bound : SUBSET Nodes, todo : SUBSET Nodes,
               halt : SUBSET Nodes, up : SUBSET Nodes, down : SUBSET Nodes,
               version : 0..MaxVersion]

NodesOK == /\ node \in [Nodes -> Row]
           /\ \A n \in Nodes : node[n].row # "live" => node[n] = Blank(node[n].row)
AgentsOK == agent \in [Nodes -> [up : BOOLEAN, runs : 0..MaxVersion]]
ConfigOK == config \in 0..MaxVersion
RequestsOK == req \in [Nodes -> [op : Request, enabled : BOOLEAN]]
BulkOK == bulk \in [pc : {"none", "row", "remove", "add", "restart", "drop"}, nodes : SUBSET Nodes]
StartsOK == start \in [Nodes -> StartJob]
StopsOK == stop \in [Nodes -> {"none", "waiting", "stopped"}]
DeletingOK == deleting \in SUBSET Nodes
ChecksOK == check \in [Nodes -> CheckJob]
RestartOK == restart \in RestartJob /\ restart.bound \subseteq restart.nodes
FlagsOK == {paused, all, again, owed} \subseteq BOOLEAN
BoundsOK == {calls, outages, mishaps} \subseteq Nat
HistoryOK == orphans \in SUBSET Nodes /\ clean \in SUBSET Nodes /\ overlapped \in SUBSET Nodes

Parts ==
    /\ NodesOK /\ AgentsOK /\ ConfigOK /\ RequestsOK /\ BulkOK /\ StartsOK /\ StopsOK
    /\ DeletingOK /\ ChecksOK /\ RestartOK /\ FlagsOK /\ BoundsOK /\ HistoryOK

LEMMA TypeParts == TypeOK <=> Parts
BY DEF TypeOK, Parts, NodesOK, AgentsOK, ConfigOK, RequestsOK, BulkOK, StartsOK, StopsOK,
       DeletingOK, ChecksOK, RestartOK, FlagsOK, BoundsOK, HistoryOK, StartJob, CheckJob, RestartJob

(* What a step leaves alone keeps its type.                                 *)
LEMMA Kept ==
    ASSUME Parts
    PROVE  /\ UNCHANGED node => NodesOK'
           /\ UNCHANGED agent => AgentsOK'
           /\ UNCHANGED config => ConfigOK'
           /\ UNCHANGED req => RequestsOK'
           /\ UNCHANGED bulk => BulkOK'
           /\ UNCHANGED start => StartsOK'
           /\ UNCHANGED stop => StopsOK'
           /\ UNCHANGED deleting => DeletingOK'
           /\ UNCHANGED check => ChecksOK'
           /\ UNCHANGED restart => RestartOK'
           /\ UNCHANGED <<paused, all, again, owed>> => FlagsOK'
           /\ UNCHANGED <<calls, outages, mishaps>> => BoundsOK'
           /\ UNCHANGED <<orphans, clean, overlapped>> => HistoryOK'
BY DEF Parts, NodesOK, AgentsOK, ConfigOK, RequestsOK, BulkOK, StartsOK, StopsOK,
       DeletingOK, ChecksOK, RestartOK, FlagsOK, BoundsOK, HistoryOK

-----------------------------------------------------------------------------
(* Writes of a row.                                                         *)

LEMMA RowWrites ==
    ASSUME NEW r \in Row
    PROVE  /\ Down(r) \in Row /\ Down(r).row = r.row
           /\ Off(r) \in Row /\ Off(r).row = r.row
           /\ Cleared(r) \in Row /\ Cleared(r).row = r.row
           /\ Connecting(r) \in Row /\ Connecting(r).row = r.row
           /\ Up(r) \in Row /\ Up(r).row = r.row
           /\ \A b \in BOOLEAN :
                /\ [r EXCEPT !.connected = b] \in Row /\ [r EXCEPT !.connected = b].row = r.row
                /\ [r EXCEPT !.disabled = b] \in Row /\ [r EXCEPT !.disabled = b].row = r.row
                /\ [r EXCEPT !.bound = b] \in Row /\ [r EXCEPT !.bound = b].row = r.row
                /\ [r EXCEPT !.profile = b] \in Row /\ [r EXCEPT !.profile = b].row = r.row
BY DEF Row, Down, Off, Cleared, Connecting, Up

LEMMA RowType ==
    ASSUME Parts, NEW n \in Nodes
    PROVE  node[n] \in Row
BY DEF Parts, NodesOK

LEMMA PutType ==
    ASSUME Parts, NEW n \in Nodes, NEW r \in Row, Live(n) => r.row = "live", Put(n, r)
    PROVE  NodesOK'
<1>1. CASE Live(n)
  <2>1. node' = [node EXCEPT ![n] = r] /\ r.row = "live"
    BY <1>1 DEF Put
  <2>. QED
    BY <2>1 DEF Parts, NodesOK
<1>2. CASE ~Live(n)
  BY <1>2 DEF Put, Parts, NodesOK
<1>. QED
  BY <1>1, <1>2

LEMMA JobTypes ==
    ASSUME NEW version \in 0..MaxVersion, NEW pc \in {"none", "waiting", "clear", "halt", "flag",
                                                    "flagged", "send", "sent", "failed"}
    PROVE  Job(pc, version) \in StartJob /\ NoJob \in StartJob
BY NodeAssumption DEF Job, NoJob, StartJob

LEMMA QueueTypes ==
    ASSUME Parts, NEW n \in Nodes
    PROVE  QueueStart(n) => StartsOK'
BY JobTypes, NodeAssumption DEF Parts, StartsOK, QueueStart

LEMMA StopTypes ==
    ASSUME Parts, NEW n \in Nodes
    PROVE  QueueStop(n) => StopsOK'
BY DEF Parts, StopsOK, QueueStop

LEMMA StartTypes ==
    ASSUME Parts, NEW n \in Nodes, NEW job \in StartJob, start' = [start EXCEPT ![n] = job]
    PROVE  StartsOK'
BY DEF Parts, StartsOK

LEMMA RunsTypes ==
    ASSUME Parts, NEW n \in Nodes, NEW version \in 0..MaxVersion, Runs(n, version)
    PROVE  AgentsOK'
BY DEF Parts, AgentsOK, Runs

LEMMA FaultTypes ==
    ASSUME Parts, Mishap \/ Outage \/ UNCHANGED bounds, UNCHANGED calls
    PROVE  BoundsOK'
BY DEF Parts, BoundsOK, Mishap, Outage, bounds

-----------------------------------------------------------------------------
(* The startNode job.                                                       *)

LEMMA StartStepTypes ==
    ASSUME Parts, NEW n \in Nodes, StartStep(n) \/ StartCrash(n)
    PROVE  Parts'
<1>0. /\ 0 \in 0..MaxVersion /\ config \in 0..MaxVersion
      /\ node[n] \in Row /\ start[n] \in StartJob /\ start[n].version \in 0..MaxVersion
  BY NodeAssumption, RowType DEF Parts, ConfigOK, StartsOK, StartJob
<1>1. CASE StartRead(n)
  <2>1. StartsOK'
    BY <1>0, <1>1, JobTypes, StartTypes DEF StartRead
  <2>. QED
    BY <1>1, <2>1, Kept DEF StartRead, StartVars, requests, profileJobs, bounds, history, Parts
<1>2. CASE StartClear(n)
  <2>1. StartsOK'
    BY <1>0, <1>2, JobTypes, StartTypes DEF StartClear
  <2>2. NodesOK'
    BY <1>0, <1>2, RowWrites, PutType DEF StartClear, Live
  <2>. QED
    BY <1>2, <2>1, <2>2, Kept DEF StartClear, StartVars, requests, profileJobs, bounds, history, Parts
<1>3. CASE StartHalt(n)
  <2>1. StartsOK'
    BY <1>0, <1>3, JobTypes, StartTypes DEF StartHalt
  <2>2. StopsOK'
    BY <1>3, StopTypes DEF StartHalt
  <2>. QED
    BY <1>3, <2>1, <2>2, Kept DEF StartHalt, StartVars, requests, profileJobs, bounds, history, Parts
<1>4. CASE StartFlag(n)
  <2>1. StartsOK'
    BY <1>0, <1>4, JobTypes, StartTypes DEF StartFlag
  <2>2. NodesOK'
    BY <1>0, <1>4, RowWrites, PutType DEF StartFlag, Live
  <2>. QED
    BY <1>4, <2>1, <2>2, Kept DEF StartFlag, StartVars, requests, profileJobs, bounds, history, Parts
<1>5. CASE StartPrepare(n)
  <2>1. StartsOK'
    BY <1>0, <1>5, JobTypes, StartTypes DEF StartPrepare
  <2>2. orphans' \in SUBSET Nodes /\ overlapped' \in SUBSET Nodes /\ UNCHANGED clean
    BY <1>5 DEF StartPrepare, Parts, HistoryOK
  <2>3. HistoryOK'
    BY <2>2 DEF Parts, HistoryOK
  <2>4. BoundsOK'
    BY <1>5, FaultTypes DEF StartPrepare, StartVars, requests
  <2>. QED
    BY <1>5, <2>1, <2>3, <2>4, Kept DEF StartPrepare, StartVars, requests, profileJobs, Parts
<1>6. CASE StartSend(n)
  <2>1. StartsOK'
    BY <1>0, <1>6, JobTypes, StartTypes DEF StartSend
  <2>2. AgentsOK'
    BY <1>0, <1>6, RunsTypes, Kept DEF StartSend
  <2>3. BoundsOK'
    BY <1>6, FaultTypes DEF StartSend, StartVars, requests
  <2>. QED
    BY <1>6, <2>1, <2>2, <2>3, Kept DEF StartSend, StartVars, requests, profileJobs, history, Parts
<1>7. CASE StartFinish(n)
  <2>1. StartsOK'
    BY <1>0, <1>7, JobTypes, StartTypes DEF StartFinish
  <2>2. NodesOK'
    BY <1>0, <1>7, RowWrites, PutType DEF StartFinish, Live
  <2>. QED
    BY <1>7, <2>1, <2>2, Kept DEF StartFinish, StartVars, requests, profileJobs, bounds, history, Parts
<1>8. CASE StartCrash(n)
  <2>1. StartsOK'
    BY <1>0, <1>8, JobTypes, StartTypes DEF StartCrash
  <2>2. HistoryOK'
    BY <1>8 DEF StartCrash, Parts, HistoryOK
  <2>3. BoundsOK'
    BY <1>8, FaultTypes DEF StartCrash, StartVars, requests
  <2>. QED
    BY <1>8, <2>1, <2>2, <2>3, Kept DEF StartCrash, StartVars, requests, profileJobs, Parts
<1>. QED
  BY <1>1, <1>2, <1>3, <1>4, <1>5, <1>6, <1>7, <1>8 DEF StartStep

-----------------------------------------------------------------------------
(* The stopNode jobs and the health check.                                  *)

LEMMA StopStepTypes ==
    ASSUME Parts, NEW n \in Nodes, StopStep(n) \/ StopCrash(n)
    PROVE  Parts'
<1>0. 0 \in 0..MaxVersion /\ node[n] \in Row /\ clean \in SUBSET Nodes /\ deleting \in SUBSET Nodes
  BY NodeAssumption, RowType DEF Parts, HistoryOK, DeletingOK
<1>1. CASE StopXray(n)
  <2>1. StopsOK'
    BY <1>1 DEF StopXray, Parts, StopsOK
  <2>2. AgentsOK'
    BY <1>0, <1>1, RunsTypes, Kept DEF StopXray
  <2>3. BoundsOK'
    BY <1>1, FaultTypes DEF StopXray, StopVars, requests
  <2>4. clean' \in SUBSET Nodes /\ UNCHANGED <<orphans, overlapped>>
    BY <1>0, <1>1 DEF StopXray
  <2>5. HistoryOK'
    BY <2>4 DEF Parts, HistoryOK
  <2>. QED
    BY <1>1, <2>1, <2>2, <2>3, <2>5, Kept DEF StopXray, StopVars, requests, profileJobs, Parts
<1>2. CASE StopWrite(n)
  <2>1. StopsOK'
    BY <1>2 DEF StopWrite, Parts, StopsOK
  <2>2. NodesOK'
    BY <1>0, <1>2, RowWrites, PutType DEF StopWrite, Live
  <2>. QED
    BY <1>2, <2>1, <2>2, Kept DEF StopWrite, StopVars, requests, profileJobs, bounds, history, Parts
<1>3. CASE DeleteRow(n)
  <2>0. Blank("gone") \in Row /\ Blank("gone").row = "gone"
    BY DEF Row, Blank
  <2>1. NodesOK'
    BY <1>3, <2>0 DEF DeleteRow, Parts, NodesOK
  <2>2. DeletingOK'
    BY <1>0, <1>3 DEF DeleteRow, DeletingOK
  <2>3. BoundsOK'
    BY <1>3, FaultTypes DEF DeleteRow, StopVars, requests
  <2>. QED
    BY <1>3, <2>1, <2>2, <2>3, Kept DEF DeleteRow, StopVars, requests, profileJobs, history, Parts
<1>4. CASE StopCrash(n)
  <2>1. StopsOK'
    BY <1>4 DEF StopCrash, Parts, StopsOK
  <2>2. BoundsOK'
    BY <1>4, FaultTypes DEF StopCrash, StopVars, requests
  <2>3. HistoryOK'
    BY <1>4 DEF StopCrash, Parts, HistoryOK
  <2>. QED
    BY <1>4, <2>1, <2>2, <2>3, Kept DEF StopCrash, StopVars, requests, profileJobs, Parts
<1>. QED
  BY <1>1, <1>2, <1>3, <1>4 DEF StopStep

LEMMA CheckToTypes ==
    ASSUME Parts, NEW n \in Nodes, NEW pc \in {"none", "waiting", "alive", "noinfo", "lost"},
           CheckTo(n, pc)
    PROVE  ChecksOK'
BY DEF Parts, ChecksOK, CheckJob, CheckTo, NoCheck

LEMMA CheckStepTypes ==
    ASSUME Parts, NEW n \in Nodes, CheckStep(n) \/ CheckCrash(n)
    PROVE  Parts'
<1>1. CASE CheckProbe(n)
  <2>1. ChecksOK'
    BY <1>1, CheckToTypes, NodeAssumption DEF CheckProbe
  <2>. QED
    BY <1>1, <2>1, Kept DEF CheckProbe, CheckVars, requests, profileJobs, bounds, history, Parts
<1>2. CASE CheckWrite(n)
  <2>1. ChecksOK'
    BY <1>2, CheckToTypes DEF CheckWrite
  <2>2. StartsOK'
    BY <1>2, QueueTypes, Kept DEF CheckWrite
  <2>3. NodesOK'
    BY <1>2, RowType, RowWrites, PutType DEF CheckWrite, Live
  <2>. QED
    BY <1>2, <2>1, <2>2, <2>3, Kept DEF CheckWrite, CheckVars, requests, profileJobs, bounds, history, Parts
<1>3. CASE CheckCrash(n)
  <2>1. ChecksOK'
    BY <1>3, CheckToTypes DEF CheckCrash
  <2>2. BoundsOK'
    BY <1>3, FaultTypes DEF CheckCrash, CheckVars, requests
  <2>. QED
    BY <1>3, <2>1, <2>2, Kept DEF CheckCrash, CheckVars, requests, profileJobs, history, Parts
<1>. QED
  BY <1>1, <1>2, <1>3 DEF CheckStep

LEMMA CheckAllTypes ==
    ASSUME Parts, CheckAll
    PROVE  Parts'
<1>1. \A n \in Nodes : check[n] \in CheckJob /\ [pc |-> "waiting", was |-> node[n].connected] \in CheckJob
  BY RowType DEF Parts, ChecksOK, CheckJob, Row
<1>2. ChecksOK'
  BY <1>1 DEF CheckAll, ChecksOK
<1>. QED
  BY <1>2, Kept DEF CheckAll, CheckVars, requests, profileJobs, bounds, history, Parts

-----------------------------------------------------------------------------
(* The restart of the profile's nodes.                                      *)

LEMMA NoRestartType ==
    ASSUME NEW pc \in {"none", "waiting", "select", "mark", "work", "resume"},
           restart' = [NoRestart EXCEPT !.pc = pc]
    PROVE  RestartOK'
BY NodeAssumption DEF NoRestart, RestartOK, RestartJob

LEMMA AskTypes ==
    ASSUME Parts, AskRestart, UNCHANGED <<paused, all>>
    PROVE  RestartOK' /\ FlagsOK'
<1>1. RestartOK'
  BY NoRestartType, Kept DEF AskRestart
<1>2. FlagsOK'
  BY DEF AskRestart, Parts, FlagsOK
<1>. QED
  BY <1>1, <1>2

LEMMA RestartStepTypes ==
    ASSUME Parts, RestartStep \/ RestartCrash \/ \E n \in Nodes : RestartSkip(n)
    PROVE  Parts'
<1>0. /\ restart \in RestartJob /\ restart.bound \subseteq restart.nodes
      /\ config \in 0..MaxVersion /\ restart.version \in 0..MaxVersion /\ 0 \in 0..MaxVersion
      /\ restart.nodes \in SUBSET Nodes /\ restart.bound \in SUBSET Nodes
      /\ orphans \in SUBSET Nodes /\ overlapped \in SUBSET Nodes
  BY NodeAssumption DEF Parts, RestartOK, RestartJob, ConfigOK, HistoryOK
<1>1. CASE RestartPause
  <2>1. RestartOK'
    BY <1>0, <1>1 DEF RestartPause, RestartOK, RestartJob
  <2>2. FlagsOK'
    BY <1>1 DEF RestartPause, NodeVars, RestartVars, Parts, FlagsOK
  <2>. QED
    BY <1>1, <2>1, <2>2, Kept DEF RestartPause, NodeVars, RestartVars, requests, bounds, history, Parts
<1>2. CASE RestartSelect
  <2>1. RestartOK'
    <3>1. PICK found \in SUBSET Nodes :
            restart' = [restart EXCEPT !.pc = "mark", !.nodes = found, !.todo = found,
                                       !.bound = {n \in found : node[n].bound}]
      BY <1>2 DEF RestartSelect
    <3>. QED
      BY <1>0, <3>1 DEF RestartOK, RestartJob
  <2>2. FlagsOK'
    BY <1>2 DEF RestartSelect, NodeVars, RestartVars, Parts, FlagsOK
  <2>3. HistoryOK'
    BY <1>0, <1>2 DEF RestartSelect, Parts, HistoryOK
  <2>. QED
    BY <1>2, <2>1, <2>2, <2>3, Kept DEF RestartSelect, NodeVars, RestartVars, requests, bounds, Parts
<1>3. CASE RestartRead
  <2>1. RestartOK'
    <3>1. CASE restart' = [restart EXCEPT !.pc = "work", !.todo = restart.nodes, !.version = config]
      BY <1>0, <3>1 DEF RestartOK, RestartJob
    <3>. QED
      BY <1>3, <3>1, NoRestartType DEF RestartRead
  <2>2. HistoryOK'
    BY <1>0, <1>3 DEF RestartRead, Parts, HistoryOK
  <2>. QED
    BY <1>3, <2>1, <2>2, Kept DEF RestartRead, NodeVars, RestartVars, requests, bounds, Parts
<1>4. CASE RestartResume
  <2>1. RestartOK'
    BY <1>4, NodeAssumption DEF RestartResume, NoRestart, RestartOK, RestartJob
  <2>2. FlagsOK'
    BY <1>4 DEF RestartResume, NodeVars, RestartVars, Parts, FlagsOK
  <2>. QED
    BY <1>4, <2>1, <2>2, Kept DEF RestartResume, NodeVars, RestartVars, requests, bounds, history, Parts
<1>5. ASSUME NEW n \in Nodes, RestartMark(n)
      PROVE  Parts'
  <2>1. RestartOK'
    BY <1>0, <1>5 DEF RestartMark, RestartOK, RestartJob
  <2>2. NodesOK'
    BY <1>5, RowType, RowWrites, PutType DEF RestartMark, Live
  <2>. QED
    BY <1>5, <2>1, <2>2, Kept DEF RestartMark, RestartVars, requests, bounds, history, Parts
<1>6. ASSUME NEW n \in Nodes, RestartHalt(n)
      PROVE  Parts'
  <2>1. RestartOK'
    BY <1>0, <1>6 DEF RestartHalt, RestartOK, RestartJob
  <2>2. StopsOK'
    BY <1>6, StopTypes DEF RestartHalt
  <2>. QED
    BY <1>6, <2>1, <2>2, Kept DEF RestartHalt, RestartVars, requests, bounds, history, Parts
<1>7. ASSUME NEW n \in Nodes, RestartSend(n)
      PROVE  Parts'
  <2>1. RestartOK'
    <3>1. \/ restart' = [restart EXCEPT !.todo = @ \ {n}, !.up = @ \cup {n}]
          \/ restart' = [restart EXCEPT !.todo = @ \ {n}, !.down = @ \cup {n}]
      BY <1>7 DEF RestartSend
    <3>2. /\ restart.todo \ {n} \in SUBSET Nodes
          /\ restart.up \cup {n} \in SUBSET Nodes
          /\ restart.down \cup {n} \in SUBSET Nodes
      BY <1>0, <1>7 DEF RestartJob
    <3>3. /\ [restart EXCEPT !.todo = @ \ {n}, !.up = @ \cup {n}] \in RestartJob
          /\ [restart EXCEPT !.todo = @ \ {n}, !.down = @ \cup {n}] \in RestartJob
      BY <1>0, <3>2 DEF RestartJob
    <3>4. restart'.bound = restart.bound /\ restart'.nodes = restart.nodes
      BY <1>0, <3>1 DEF RestartJob
    <3>. QED
      BY <1>0, <3>1, <3>3, <3>4 DEF RestartOK
  <2>2. agent[n].runs \in 0..MaxVersion
    BY DEF Parts, AgentsOK
  <2>3. AgentsOK'
    BY <1>0, <1>7, <2>2, RunsTypes, Kept DEF RestartSend
  <2>4. BoundsOK'
    BY <1>7, FaultTypes DEF RestartSend, RestartVars, requests
  <2>. QED
    BY <1>7, <2>1, <2>3, <2>4, Kept DEF RestartSend, RestartVars, requests, history, Parts
<1>8. ASSUME NEW n \in Nodes, RestartWrite(n)
      PROVE  Parts'
  <2>1. RestartOK'
    BY <1>0, <1>8 DEF RestartWrite, RestartOK, RestartJob
  <2>2. NodesOK'
    BY <1>8, RowType, RowWrites, PutType DEF RestartWrite, Live
  <2>. QED
    BY <1>8, <2>1, <2>2, Kept DEF RestartWrite, RestartVars, requests, bounds, history, Parts
<1>9. ASSUME NEW n \in Nodes, RestartSkip(n)
      PROVE  Parts'
  <2>1. RestartOK'
    BY <1>0, <1>9 DEF RestartSkip, RestartOK, RestartJob
  <2>2. HistoryOK'
    BY <1>9 DEF RestartSkip, Parts, HistoryOK
  <2>3. BoundsOK'
    BY <1>9, FaultTypes DEF RestartSkip, NodeVars, RestartVars, requests
  <2>. QED
    BY <1>9, <2>1, <2>2, <2>3, Kept DEF RestartSkip, NodeVars, RestartVars, requests, Parts
<1>10. CASE RestartCrash
  <2>1. RestartOK'
    BY <1>10, NoRestartType DEF RestartCrash
  <2>2. HistoryOK'
    BY <1>0, <1>10 DEF RestartCrash, Parts, HistoryOK
  <2>3. BoundsOK'
    BY <1>10, FaultTypes DEF RestartCrash, NodeVars, RestartVars, requests
  <2>4. FlagsOK'
    BY <1>10 DEF RestartCrash, NodeVars, RestartVars, Parts, FlagsOK
  <2>. QED
    BY <1>10, <2>1, <2>2, <2>3, <2>4, Kept DEF RestartCrash, NodeVars, RestartVars, requests, Parts
<1>. QED
  BY <1>1, <1>2, <1>3, <1>4, <1>5, <1>6, <1>7, <1>8, <1>9, <1>10 DEF RestartStep

LEMMA SchedulerTypes ==
    ASSUME Parts, StartAll \/ AskAgain \/ SchedulerRestarts
    PROVE  Parts'
<1>1. CASE StartAll
  <2>1. FlagsOK'
    BY <1>1 DEF StartAll, AskRestart, Parts, FlagsOK
  <2>2. RestartOK'
    BY <1>1, NoRestartType, Kept DEF StartAll, AskRestart
  <2>. QED
    BY <1>1, <2>1, <2>2, Kept DEF StartAll, requests, jobs, bounds, history, Parts
<1>2. CASE AskAgain
  <2>1. FlagsOK'
    BY <1>2 DEF AskAgain, Parts, FlagsOK
  <2>2. RestartOK'
    BY <1>2, NoRestartType, Kept DEF AskAgain
  <2>. QED
    BY <1>2, <2>1, <2>2, Kept DEF AskAgain, requests, jobs, bounds, history, Parts
<1>3. CASE SchedulerRestarts
  <2>1. FlagsOK'
    BY <1>3 DEF SchedulerRestarts, Parts, FlagsOK
  <2>2. BoundsOK'
    BY <1>3, FaultTypes DEF SchedulerRestarts, requests
  <2>. QED
    BY <1>3, <2>1, <2>2, Kept DEF SchedulerRestarts, requests, jobs, history, Parts
<1>. QED
  BY <1>1, <1>2, <1>3

-----------------------------------------------------------------------------
(* Requests.                                                                *)

LEMMA ToTypes ==
    ASSUME Parts, NEW n \in Nodes, NEW op \in Request
    PROVE  /\ To(n, op) => RequestsOK'
           /\ Go(n, op) => RequestsOK'
           /\ Answer(n) => RequestsOK'
<1>1. [op |-> op, enabled |-> op \in {"remove", "keep"} /\ ~node[n].disabled]
        \in [op : Request, enabled : BOOLEAN]
  OBVIOUS
<1>2. Idle \in [op : Request, enabled : BOOLEAN]
  BY DEF Idle, Request
<1>3. To(n, op) => RequestsOK'
  BY <1>1 DEF To, Parts, RequestsOK
<1>4. Go(n, op) => RequestsOK'
  BY DEF Go, Parts, RequestsOK
<1>5. Answer(n) => RequestsOK'
  BY <1>2 DEF Answer, Parts, RequestsOK
<1>. QED
  BY <1>3, <1>4, <1>5

LEMMA OpType == {"none", "bind", "start", "stop", "remove", "add", "row", "keep", "enable", "clear"} = Request
BY DEF Request

LEMMA CallTypes ==
    ASSUME Parts, NEW request, Call(request) \/ CallBulk(request), UNCHANGED bounds
    PROVE  BoundsOK'
BY DEF Parts, BoundsOK, Call, CallBulk, bounds

LEMMA NodeWrite ==
    ASSUME Parts, NEW n \in Nodes, NEW r \in Row, Live(n), r.row = "live",
           node' = [node EXCEPT ![n] = r]
    PROVE  NodesOK'
BY DEF Parts, NodesOK

LEMMA NewRequestTypes ==
    ASSUME Parts, NEW n \in Nodes,
           \/ CreateNode(n) \/ RestartNode(n) \/ DeleteNode(n)
           \/ UpdateNode(n) \/ EnableNode(n) \/ DisableNode(n)
    PROVE  Parts'
<1>0. node[n] \in Row /\ clean \in SUBSET Nodes /\ deleting \in SUBSET Nodes
  BY RowType DEF Parts, HistoryOK, DeletingOK
<1>1. CASE CreateNode(n)
  <2>1. RequestsOK'
    BY <1>1, OpType, ToTypes DEF CreateNode
  <2>0. Blank("live") \in Row /\ Blank("live").row = "live"
    BY DEF Row, Blank
  <2>2. [Blank("live") EXCEPT !.profile = TRUE] \in Row
        /\ [Blank("live") EXCEPT !.profile = TRUE].row = "live"
    BY <2>0, RowWrites
  <2>3. NodesOK'
    <3>1. node' = [node EXCEPT ![n] = [Blank("live") EXCEPT !.profile = TRUE]]
      BY <1>1 DEF CreateNode
    <3>2. PICK r \in Row : r.row = "live" /\ node' = [node EXCEPT ![n] = r]
      BY <2>2, <3>1
    <3>. QED
      BY <3>2 DEF Parts, NodesOK
  <2>4. BoundsOK'
    BY <1>1, CallTypes DEF CreateNode, RequestVars
  <2>. QED
    BY <1>1, <2>1, <2>3, <2>4, Kept DEF CreateNode, Call, RequestVars, profileJobs, history, Parts
<1>2. CASE RestartNode(n)
  <2>1. RequestsOK'
    BY <1>2, OpType, ToTypes DEF RestartNode
  <2>2. BoundsOK'
    BY <1>2, CallTypes DEF RestartNode, RequestVars
  <2>. QED
    BY <1>2, <2>1, <2>2, Kept DEF RestartNode, Call, RequestVars, profileJobs, history, Parts
<1>3. CASE DeleteNode(n)
  <2>1. DeletingOK'
    BY <1>0, <1>3 DEF DeleteNode, DeletingOK
  <2>2. BoundsOK'
    BY <1>3, CallTypes DEF DeleteNode
  <2>. QED
    BY <1>3, <2>1, <2>2, Kept DEF DeleteNode, Call, profileJobs, history, Parts
<1>4. CASE UpdateNode(n)
  <2>1. RequestsOK'
    BY <1>4, OpType, ToTypes DEF UpdateNode
  <2>2. BoundsOK'
    BY <1>4, CallTypes DEF UpdateNode, RequestVars
  <2>. QED
    BY <1>4, <2>1, <2>2, Kept DEF UpdateNode, Call, RequestVars, profileJobs, history, Parts
<1>5. CASE EnableNode(n)
  <2>1. RequestsOK'
    BY <1>5, OpType, ToTypes DEF EnableNode
  <2>2. BoundsOK'
    BY <1>5, CallTypes DEF EnableNode, RequestVars
  <2>. QED
    BY <1>5, <2>1, <2>2, Kept DEF EnableNode, Call, RequestVars, profileJobs, history, Parts
<1>6. CASE DisableNode(n)
  <2>1. RequestsOK'
    BY <1>6, OpType, ToTypes DEF DisableNode
  <2>2. PICK r \in {Off(node[n]), Cleared(node[n])} : node' = [node EXCEPT ![n] = r]
    BY <1>6 DEF DisableNode
  <2>3. NodesOK'
    <3>1. Live(n) /\ node[n].row = "live"
      BY <1>6 DEF DisableNode, Live
    <3>2. r \in Row /\ r.row = "live"
      BY <1>0, <2>2, <3>1, RowWrites
    <3>. QED
      BY <2>2, <3>1, <3>2, NodeWrite
  <2>4. BoundsOK'
    BY <1>6, CallTypes DEF DisableNode, RequestVars
  <2>5. clean' \in SUBSET Nodes /\ UNCHANGED <<orphans, overlapped>>
    BY <1>0, <1>6 DEF DisableNode
  <2>6. HistoryOK'
    BY <2>5 DEF Parts, HistoryOK
  <2>. QED
    BY <1>6, <2>1, <2>3, <2>4, <2>6, Kept DEF DisableNode, Call, RequestVars, profileJobs, Parts
<1>. QED
  BY <1>1, <1>2, <1>3, <1>4, <1>5, <1>6

LEMMA WriteNodeTypes ==
    ASSUME Parts, NEW n \in Nodes, WriteNode(n)
    PROVE  Parts'
<1>0. node[n] \in Row /\ clean \in SUBSET Nodes /\ (config # 0) \in BOOLEAN
      /\ (~Live(n) => node[n] = Blank(node[n].row))
  BY RowType DEF Parts, HistoryOK, NodesOK, Live
<1>1. RequestsOK'
  BY OpType, ToTypes DEF WriteNode
<1>2. NodesOK'
  <2>1. CASE UNCHANGED node
    BY <2>1, Kept
  <2>2. CASE node' = [node EXCEPT ![n].bound = FALSE] /\ ~Live(n)
    <3>1. node[n].bound = FALSE
      BY <1>0, <2>2 DEF Blank
    <3>2. UNCHANGED node
      BY <2>2, <3>1, <1>0 DEF Parts, NodesOK, Row
    <3>. QED
      BY <3>2, Kept
  <2>3. CASE Live(n) /\ ~UNCHANGED node
    <3>1. PICK r \in Row : r.row = "live" /\ node' = [node EXCEPT ![n] = r]
      <4>1. \E b \in BOOLEAN : \/ node' = [node EXCEPT ![n].bound = b]
                              \/ node' = [node EXCEPT ![n].profile = b]
                              \/ node' = [node EXCEPT ![n].disabled = b]
                              \/ node' = [node EXCEPT ![n] = Cleared(@)]
        BY <1>0, <2>3 DEF WriteNode
      <4>. QED
        BY <1>0, <2>3, <4>1, RowWrites DEF Live
    <3>. QED
      BY <2>3, <3>1, NodeWrite
  <2>. QED
    BY <2>1, <2>2, <2>3 DEF WriteNode
<1>3. clean' \in SUBSET Nodes /\ UNCHANGED <<orphans, overlapped>>
  BY <1>0 DEF WriteNode
<1>4. HistoryOK'
  BY <1>3 DEF Parts, HistoryOK
<1>. QED
  BY <1>1, <1>2, <1>4, Kept DEF WriteNode, RequestVars, profileJobs, bounds, Parts

LEMMA RequestStepTypes ==
    ASSUME Parts, NEW n \in Nodes, RequestStep(n)
    PROVE  Parts'
<1>1. CASE QueueJob(n)
  <2>1. RequestsOK'
    BY <1>1, OpType, ToTypes DEF QueueJob
  <2>2. StartsOK' /\ StopsOK'
    BY <1>1, QueueTypes, StopTypes, Kept DEF QueueJob
  <2>. QED
    BY <1>1, <2>1, <2>2, Kept DEF QueueJob, RequestVars, profileJobs, bounds, history, Parts
<1>2. CASE RequestFails(n)
  <2>1. RequestsOK'
    BY <1>2, OpType, ToTypes DEF RequestFails
  <2>2. BoundsOK'
    BY <1>2, FaultTypes DEF RequestFails
  <2>3. HistoryOK'
    BY <1>2 DEF RequestFails, Parts, HistoryOK
  <2>. QED
    BY <1>2, <2>1, <2>2, <2>3, Kept DEF RequestFails, jobs, profileJobs, Parts
<1>. QED
  BY <1>1, <1>2, WriteNodeTypes DEF RequestStep

LEMMA BulkTypes ==
    ASSUME Parts, NEW pc \in {"none", "row", "remove", "add", "restart", "drop"},
           NEW nodes \in SUBSET Nodes, Bulk(pc, nodes) \/ bulk' = NoBulk
    PROVE  BulkOK'
BY DEF Bulk, NoBulk, BulkOK

(* Several rows written at once, each left alone or written as one is.       *)
LEMMA RowsWrite ==
    ASSUME Parts, NEW rows \in [Nodes -> Row],
           \A n \in Nodes : rows[n].row # "live" => rows[n] = Blank(rows[n].row),
           node' = rows
    PROVE  NodesOK'
BY DEF NodesOK

(* A row without a profile or without inbounds: a blank row has neither.     *)
LEMMA Unbound ==
    ASSUME Parts, NEW n \in Nodes
    PROVE  /\ [node[n] EXCEPT !.bound = FALSE] \in Row
           /\ [node[n] EXCEPT !.bound = FALSE].row = node[n].row
           /\ [node[n] EXCEPT !.profile = FALSE, !.bound = FALSE] \in Row
           /\ [node[n] EXCEPT !.profile = FALSE, !.bound = FALSE].row = node[n].row
           /\ ~Live(n) => /\ [node[n] EXCEPT !.bound = FALSE] = node[n]
                          /\ [node[n] EXCEPT !.profile = FALSE, !.bound = FALSE] = node[n]
<1>1. node[n] \in Row /\ (~Live(n) => node[n] = Blank(node[n].row))
  BY RowType DEF Parts, NodesOK, Live
<1>2. ~Live(n) => node[n].bound = FALSE /\ node[n].profile = FALSE
  BY <1>1 DEF Blank
<1>. QED
  BY <1>1, <1>2 DEF Row

LEMMA WriteProfilesTypes ==
    ASSUME Parts, WriteProfiles
    PROVE  Parts'
<1>0. /\ bulk.nodes \in SUBSET Nodes
      /\ \A n \in Nodes : node[n] \in Row /\ (node[n].row # "live" => node[n] = Blank(node[n].row))
  BY DEF Parts, BulkOK, NodesOK
<1>1. BulkOK'
  BY <1>0, BulkTypes DEF WriteProfiles
<1>2. NodesOK'
  <2>1. CASE node' = [n \in Nodes |-> IF n \in bulk.nodes /\ Live(n)
                                     THEN [node[n] EXCEPT !.profile = TRUE] ELSE node[n]]
    <3>1. \A n \in Nodes : Live(n) => [node[n] EXCEPT !.profile = TRUE] \in Row
                                   /\ [node[n] EXCEPT !.profile = TRUE].row = "live"
      BY <1>0, RowWrites DEF Live
    <3>. QED
      BY <1>0, <2>1, <3>1 DEF NodesOK
  <2>2. CASE node' = [n \in Nodes |-> IF n \in bulk.nodes
                                     THEN [node[n] EXCEPT !.bound = FALSE] ELSE node[n]]
    BY <1>0, <2>2, Unbound DEF NodesOK, Live
  <2>3. CASE /\ \A n \in bulk.nodes : Live(n)
             /\ node' = [n \in Nodes |-> IF n \in bulk.nodes
                                     THEN [node[n] EXCEPT !.bound = TRUE] ELSE node[n]]
    <3>1. \A n \in Nodes : Live(n) => [node[n] EXCEPT !.bound = TRUE] \in Row
                                   /\ [node[n] EXCEPT !.bound = TRUE].row = "live"
      BY <1>0, RowWrites DEF Live
    <3>. QED
      BY <1>0, <2>3, <3>1 DEF NodesOK
  <2>. QED
    BY <2>1, <2>2, <2>3 DEF WriteProfiles
<1>. QED
  BY <1>1, <1>2, Kept DEF WriteProfiles, BulkVars, bounds, history, Parts

LEMMA BulkRequestTypes ==
    ASSUME Parts, ModifyProfile \/ EditProfile \/ DeleteProfile \/ RestartAll
    PROVE  Parts'
<1>1. CASE ModifyProfile
  <2>1. BulkOK'
    BY <1>1, BulkTypes DEF ModifyProfile
  <2>2. BoundsOK'
    BY <1>1, CallTypes DEF ModifyProfile, BulkVars
  <2>. QED
    BY <1>1, <2>1, <2>2, Kept DEF ModifyProfile, BulkVars, history, Parts
<1>2. CASE EditProfile
  <2>1. BulkOK'
    BY <1>2, BulkTypes DEF EditProfile
  <2>2. BoundsOK'
    BY <1>2, CallTypes DEF EditProfile, BulkVars
  <2>3. ConfigOK'
    BY <1>2, NodeAssumption DEF EditProfile, Parts, ConfigOK
  <2>4. NodesOK'
    <3>1. PICK dropped \in SUBSET Nodes :
            node' = [n \in Nodes |-> IF n \in dropped THEN [node[n] EXCEPT !.bound = FALSE] ELSE node[n]]
      BY <1>2 DEF EditProfile
    <3>2. \A n \in Nodes : node[n] \in Row /\ (node[n].row # "live" => node[n] = Blank(node[n].row))
      BY DEF Parts, NodesOK
    <3>. QED
      BY <3>1, <3>2, Unbound DEF NodesOK, Live
  <2>. QED
    BY <1>2, <2>1, <2>2, <2>3, <2>4, Kept DEF EditProfile, BulkVars, history, Parts
<1>3. CASE DeleteProfile
  <2>1. BulkOK'
    BY <1>3, BulkTypes DEF DeleteProfile
  <2>2. BoundsOK'
    BY <1>3, CallTypes DEF DeleteProfile, BulkVars
  <2>3. StopsOK'
    BY <1>3 DEF DeleteProfile, Parts, StopsOK
  <2>. QED
    BY <1>3, <2>1, <2>2, <2>3, Kept DEF DeleteProfile, BulkVars, history, Parts
<1>4. CASE RestartAll
  <2>1. FlagsOK'
    BY <1>4 DEF RestartAll, Parts, FlagsOK
  <2>2. BoundsOK'
    BY <1>4, CallTypes DEF RestartAll
  <2>. QED
    BY <1>4, <2>1, <2>2, Kept DEF RestartAll, jobs, history, Parts
<1>. QED
  BY <1>1, <1>2, <1>3, <1>4

LEMMA BulkStepTypes ==
    ASSUME Parts, BulkStep
    PROVE  Parts'
<1>1. CASE DropProfile
  <2>1. BulkOK'
    BY <1>1, BulkTypes DEF DropProfile
  <2>0. 0 \in 0..MaxVersion
    BY NodeAssumption
  <2>2. ConfigOK'
    BY <1>1, <2>0 DEF DropProfile, ConfigOK
  <2>3. \A n \in Nodes : node[n] \in Row /\ (node[n].row # "live" => node[n] = Blank(node[n].row))
    BY DEF Parts, NodesOK
  <2>4. NodesOK'
    BY <1>1, <2>3, Unbound DEF DropProfile, NodesOK, Live
  <2>. QED
    BY <1>1, <2>1, <2>2, <2>4, Kept DEF DropProfile, BulkVars, bounds, history, Parts
<1>2. CASE RequestRestart
  <2>1. BulkOK'
    BY <1>2, BulkTypes DEF RequestRestart
  <2>2. RestartOK' /\ FlagsOK'
    BY <1>2, AskTypes DEF RequestRestart, BulkVars
  <2>. QED
    BY <1>2, <2>1, <2>2, Kept DEF RequestRestart, BulkVars, bounds, history, Parts
<1>3. CASE BulkFails
  <2>1. BulkOK'
    BY <1>3, BulkTypes DEF BulkFails
  <2>2. BoundsOK'
    BY <1>3, FaultTypes DEF BulkFails
  <2>. QED
    BY <1>3, <2>1, <2>2, Kept DEF BulkFails, jobs, profileJobs, history, Parts
<1>. QED
  BY <1>1, <1>2, <1>3, WriteProfilesTypes DEF BulkStep

-----------------------------------------------------------------------------
(* The nodes, and the theorem.                                              *)

LEMMA AgentTypes ==
    ASSUME Parts, NEW n \in Nodes, AgentGone(n) \/ AgentBack(n) \/ XrayDies(n)
    PROVE  Parts'
<1>0. 0 \in 0..MaxVersion /\ agent[n] \in [up : BOOLEAN, runs : 0..MaxVersion]
  BY NodeAssumption DEF Parts, AgentsOK
<1>1. AgentsOK'
  <2>1. CASE AgentGone(n)
    BY <1>0, <2>1 DEF AgentGone, Parts, AgentsOK
  <2>2. CASE AgentBack(n)
    <3>1. PICK version \in 0..MaxVersion : agent' = [agent EXCEPT ![n] = [up |-> TRUE, runs |-> version]]
      BY <1>0, <2>2 DEF AgentBack
    <3>. QED
      BY <3>1 DEF Parts, AgentsOK
  <2>3. CASE XrayDies(n)
    BY <1>0, <2>3, RunsTypes DEF XrayDies
  <2>. QED
    BY <2>1, <2>2, <2>3
<1>2. BoundsOK'
  BY FaultTypes DEF AgentGone, AgentBack, XrayDies, AgentVars, requests
<1>. QED
  BY <1>1, <1>2, Kept DEF AgentGone, AgentBack, XrayDies, AgentVars, requests, jobs, profileJobs, history, Parts

LEMMA InitTypes == Init => Parts
<1>1. SUFFICES ASSUME Init PROVE Parts
  OBVIOUS
<1>2. /\ Blank("new") \in Row /\ Blank("new").row = "new"
      /\ Connected \in Row /\ Connected.row = "live"
      /\ Disabled \in Row /\ Disabled.row = "live"
  BY DEF Blank, Connected, Disabled, Row
<1>3. NodesOK
  BY <1>1, <1>2 DEF Init, NodesOK
<1>4. AgentsOK /\ ConfigOK
  BY <1>1, NodeAssumption DEF Init, AgentsOK, ConfigOK
<1>5. RequestsOK /\ BulkOK
  BY <1>1 DEF Init, RequestsOK, BulkOK, Idle, Request, NoBulk
<1>6. StartsOK /\ StopsOK /\ DeletingOK /\ ChecksOK
  BY <1>1, JobTypes, NodeAssumption DEF Init, StartsOK, StopsOK, DeletingOK, ChecksOK, CheckJob, NoCheck
<1>7. RestartOK
  BY <1>1, NodeAssumption DEF Init, RestartOK, RestartJob, NoRestart
<1>8. FlagsOK
  BY <1>1 DEF Init, FlagsOK
<1>9. BoundsOK /\ HistoryOK
  BY <1>1 DEF Init, BoundsOK, HistoryOK
<1>. QED
  BY <1>3, <1>4, <1>5, <1>6, <1>7, <1>8, <1>9 DEF Parts

LEMMA NextTypes ==
    ASSUME Parts, Next
    PROVE  Parts'
BY StartStepTypes, StopStepTypes, CheckStepTypes, CheckAllTypes, RestartStepTypes, SchedulerTypes,
   NewRequestTypes, RequestStepTypes, BulkRequestTypes, BulkStepTypes, AgentTypes
   DEF Next, NewRequest

(* Rows, jobs and requests keep their types; a row that is not there is      *)
(* blank, whichever job still writes to it.                                  *)
THEOREM TypeCorrect == Spec => []TypeOK
<1>1. Init => Parts
  BY InitTypes
<1>2. Parts /\ [Next]_vars => Parts'
  <2>1. Parts /\ UNCHANGED vars => Parts'
    BY Kept DEF vars, requests, jobs, profileJobs, bounds, history, Parts
  <2>. QED
    BY <2>1, NextTypes
<1>3. Parts => TypeOK
  BY TypeParts
<1>. QED
  BY <1>1, <1>2, <1>3, PTL DEF Spec

-----------------------------------------------------------------------------
(* No restart is lost.                                                      *)

LEMMA AskKeeps ==
    ASSUME AskRestart
    PROVE  RestartNotLost'
BY DEF AskRestart, RestartNotLost, NoRestart

LEMMA NotLostKept ==
    ASSUME RestartNotLost, restart'.pc = restart.pc \/ restart'.pc \in {"waiting", "select"},
           UNCHANGED <<again, owed>>, all' = all \/ all' = TRUE
    PROVE  RestartNotLost'
BY DEF RestartNotLost

LEMMA RestartPc ==
    ASSUME Parts, NEW n \in Nodes,
           RestartMark(n) \/ RestartHalt(n) \/ RestartSend(n) \/ RestartWrite(n) \/ RestartSkip(n)
    PROVE  restart'.pc = restart.pc /\ UNCHANGED <<again, owed, all>>
<1>1. restart \in RestartJob
  BY DEF Parts, RestartOK
<1>2. CASE RestartMark(n)
  BY <1>1, <1>2 DEF RestartMark, RestartVars, RestartJob
<1>3. CASE RestartHalt(n)
  BY <1>1, <1>3 DEF RestartHalt, RestartVars, RestartJob
<1>4. CASE RestartSend(n)
  BY <1>1, <1>4 DEF RestartSend, RestartVars, RestartJob
<1>5. CASE RestartWrite(n)
  BY <1>1, <1>5 DEF RestartWrite, RestartVars, RestartJob
<1>6. CASE RestartSkip(n)
  BY <1>1, <1>6 DEF RestartSkip, NodeVars, RestartVars, RestartJob
<1>. QED
  BY <1>2, <1>3, <1>4, <1>5, <1>6

LEMMA NotLostInRestart ==
    ASSUME Parts, RestartNotLost,
           RestartStep \/ RestartCrash \/ \E n \in Nodes : RestartSkip(n)
    PROVE  RestartNotLost'
<1>0. restart \in RestartJob
  BY DEF Parts, RestartOK
<1>1. CASE RestartPause
  BY <1>0, <1>1, NotLostKept DEF RestartPause, NodeVars, RestartVars, RestartJob
<1>2. CASE RestartSelect
  BY <1>2 DEF RestartSelect, RestartNotLost
<1>3. CASE RestartRead \/ RestartResume
  <2>1. restart.pc \notin {"waiting", "select"} /\ UNCHANGED <<again, all, owed>>
    BY <1>3 DEF RestartRead, RestartResume, NodeVars, RestartVars
  <2>. QED
    BY <2>1 DEF RestartNotLost
<1>4. CASE RestartCrash
  <2>1. PICK pc \in {"resume", "waiting", "none"} :
          /\ restart' = [NoRestart EXCEPT !.pc = pc]
          /\ owed' = (owed /\ (restart.pc = "select" => pc = "waiting"))
    BY <1>4 DEF RestartCrash
  <2>2. restart'.pc = pc /\ restart.pc \in {"select", "mark", "work"} /\ UNCHANGED <<again, all>>
    BY <1>4, <2>1 DEF RestartCrash, NoRestart, NodeVars, RestartVars
  <2>. QED
    BY <2>1, <2>2 DEF RestartNotLost
<1>5. CASE \E n \in Nodes : RestartMark(n) \/ RestartHalt(n) \/ RestartSend(n)
                          \/ RestartWrite(n) \/ RestartSkip(n)
  BY <1>5, RestartPc, NotLostKept
<1>. QED
  BY <1>1, <1>2, <1>3, <1>4, <1>5 DEF RestartStep

LEMMA NotLostInScheduler ==
    ASSUME RestartNotLost, StartAll \/ AskAgain \/ SchedulerRestarts
    PROVE  RestartNotLost'
<1>1. CASE StartAll
  BY <1>1, AskKeeps DEF StartAll, RestartNotLost
<1>2. CASE AskAgain
  <2>1. CASE restart.pc = "none"
    BY <1>2, <2>1 DEF AskAgain, RestartNotLost, NoRestart
  <2>2. CASE restart.pc # "none"
    BY <1>2, <2>2 DEF AskAgain, RestartNotLost
  <2>. QED
    BY <2>1, <2>2
<1>3. CASE SchedulerRestarts
  BY <1>3 DEF SchedulerRestarts, RestartNotLost
<1>. QED
  BY <1>1, <1>2, <1>3

LEMMA NotLostElsewhere ==
    ASSUME RestartNotLost, NEW n \in Nodes,
           \/ StartStep(n) \/ StartCrash(n) \/ StopStep(n) \/ StopCrash(n)
           \/ CheckStep(n) \/ CheckCrash(n) \/ CheckAll
           \/ RequestStep(n) \/ NewRequest
           \/ AgentGone(n) \/ AgentBack(n) \/ XrayDies(n)
    PROVE  RestartNotLost'
<1>1. CASE StartStep(n) \/ StartCrash(n)
  BY <1>1, NotLostKept DEF StartStep, StartRead, StartClear, StartHalt, StartFlag, StartPrepare,
     StartSend, StartFinish, StartCrash, StartVars, profileJobs
<1>2. CASE StopStep(n) \/ StopCrash(n)
  BY <1>2, NotLostKept DEF StopStep, StopXray, StopWrite, DeleteRow, StopCrash, StopVars, profileJobs
<1>3. CASE CheckStep(n) \/ CheckCrash(n) \/ CheckAll
  BY <1>3, NotLostKept DEF CheckStep, CheckProbe, CheckWrite, CheckCrash, CheckAll, CheckVars, profileJobs
<1>4. CASE RequestStep(n)
  BY <1>4, NotLostKept DEF RequestStep, WriteNode, QueueJob, RequestFails, RequestVars, profileJobs
<1>5. CASE NewRequest
  <2>1. CASE \E m \in Nodes : \/ CreateNode(m) \/ RestartNode(m) \/ DeleteNode(m)
                             \/ UpdateNode(m) \/ EnableNode(m) \/ DisableNode(m)
    BY <2>1, NotLostKept DEF CreateNode, RestartNode, DeleteNode, UpdateNode, EnableNode, DisableNode,
       RequestVars, profileJobs
  <2>2. CASE ModifyProfile \/ EditProfile \/ DeleteProfile \/ RestartAll
    BY <2>2, NotLostKept DEF ModifyProfile, EditProfile, DeleteProfile, RestartAll, BulkVars
  <2>. QED
    BY <1>5, <2>1, <2>2 DEF NewRequest
<1>6. CASE AgentGone(n) \/ AgentBack(n) \/ XrayDies(n)
  BY <1>6, NotLostKept DEF AgentGone, AgentBack, XrayDies, AgentVars, profileJobs
<1>. QED
  BY <1>1, <1>2, <1>3, <1>4, <1>5, <1>6

LEMMA NotLostInBulk ==
    ASSUME RestartNotLost, BulkStep
    PROVE  RestartNotLost'
<1>1. CASE RequestRestart
  BY <1>1, AskKeeps DEF RequestRestart
<1>2. CASE WriteProfiles \/ DropProfile \/ BulkFails
  BY <1>2, NotLostKept DEF WriteProfiles, DropProfile, BulkFails, BulkVars, profileJobs
<1>. QED
  BY <1>1, <1>2 DEF BulkStep

(* However restarts are asked for, deduplicated, crash and are asked for     *)
(* again, and however often the scheduler forgets, one that was asked for is *)
(* still to come.                                                           *)
THEOREM NotLost == Spec => []RestartNotLost
<1>1. Init => Parts /\ RestartNotLost
  BY InitTypes DEF Init, RestartNotLost
<1>2. (Parts /\ RestartNotLost) /\ [Next]_vars => (Parts /\ RestartNotLost)'
  <2>1. ASSUME Parts, RestartNotLost, Next
        PROVE  RestartNotLost'
    <3>1. CASE RestartStep \/ RestartCrash \/ \E n \in Nodes : RestartSkip(n)
      BY <2>1, <3>1, NotLostInRestart
    <3>2. CASE StartAll \/ AskAgain \/ SchedulerRestarts
      BY <2>1, <3>2, NotLostInScheduler
    <3>3. CASE BulkStep
      BY <2>1, <3>3, NotLostInBulk
    <3>4. CASE NewRequest \/ CheckAll
      <4>1. CASE Nodes = {}
        BY <2>1, <3>4, <4>1, NotLostKept DEF NewRequest, CheckAll, CheckVars, profileJobs,
           ModifyProfile, EditProfile, DeleteProfile, RestartAll, BulkVars
      <4>. QED
        BY <2>1, <3>4, <4>1, NotLostElsewhere
    <3>5. CASE \E n \in Nodes :
            \/ StartStep(n) \/ StartCrash(n) \/ StopStep(n) \/ StopCrash(n)
            \/ CheckStep(n) \/ CheckCrash(n) \/ RequestStep(n)
            \/ AgentGone(n) \/ AgentBack(n) \/ XrayDies(n)
      BY <2>1, <3>5, NotLostElsewhere
    <3>. QED
      BY <2>1, <3>1, <3>2, <3>3, <3>4, <3>5 DEF Next
  <2>2. ASSUME Parts, RestartNotLost, UNCHANGED vars
        PROVE  RestartNotLost'
    BY <2>2, NotLostKept DEF vars, profileJobs
  <2>3. Parts /\ [Next]_vars => Parts'
    BY NextTypes, Kept DEF vars, requests, jobs, profileJobs, bounds, history, Parts
  <2>. QED
    BY <2>1, <2>2, <2>3
<1>. QED
  BY <1>1, <1>2, PTL DEF Spec

-----------------------------------------------------------------------------
(* A connecting node has a job that will clear it.  While the restart works, *)
(* the nodes that it set connecting are the bound ones it has not written;   *)
(* the others it starts may be connecting only by their startNode job.       *)

ByRestart(n) ==
    \/ restart.pc = "mark" /\ n \in restart.bound \ restart.todo
    \/ restart.pc = "work" /\ n \in restart.bound /\ n \in restart.todo \cup restart.up \cup restart.down
Held(n) == start[n].pc \in Flagged \/ n \in orphans \/ ByRestart(n)
AllHeld == \A n \in Nodes : node[n].connecting => Held(n)

LEMMA HeldIsOwned == AllHeld => ConnectingHasOwner
BY DEF AllHeld, Held, ByRestart, ConnectingHasOwner, Owned

(* A step may not set isConnecting, end a job that holds it, or release it.  *)
LEMMA HeldKept ==
    ASSUME AllHeld,
           \A n \in Nodes : node'[n].connecting => node[n].connecting,
           \A n \in Nodes : start[n].pc \in Flagged => start'[n].pc \in Flagged,
           orphans \subseteq orphans',
           UNCHANGED restart
    PROVE  AllHeld'
BY DEF AllHeld, Held, ByRestart

LEMMA RowConnecting ==
    ASSUME NEW r \in Row
    PROVE  /\ ~Down(r).connecting /\ ~Off(r).connecting /\ ~Cleared(r).connecting /\ ~Up(r).connecting
           /\ \A b \in BOOLEAN :
                /\ [r EXCEPT !.connected = b].connecting = r.connecting
                /\ [r EXCEPT !.disabled = b].connecting = r.connecting
                /\ [r EXCEPT !.bound = b].connecting = r.connecting
                /\ [r EXCEPT !.profile = b].connecting = r.connecting
                /\ [r EXCEPT !.profile = b, !.bound = b].connecting = r.connecting
BY DEF Row, Down, Off, Cleared, Up

LEMMA GoneIsNotConnecting ==
    ASSUME Parts, NEW n \in Nodes, ~Live(n)
    PROVE  ~node[n].connecting
BY DEF Parts, NodesOK, Live, Blank

(* A row is written: the others stay as they are, and it is not set.         *)
LEMMA PutConnecting ==
    ASSUME Parts, NEW m \in Nodes, NEW r \in Row, Put(m, r) \/ node' = [node EXCEPT ![m] = r]
    PROVE  /\ \A n \in Nodes \ {m} : node'[n] = node[n]
           /\ node'[m].connecting => node[m].connecting \/ r.connecting
           /\ ~r.connecting => ~node'[m].connecting
BY GoneIsNotConnecting DEF Put, Parts, NodesOK

LEMMA StartOf ==
    ASSUME Parts, NEW m \in Nodes, NEW job, start' = [start EXCEPT ![m] = job]
    PROVE  start'[m] = job /\ \A n \in Nodes \ {m} : start'[n] = start[n]
BY DEF Parts, StartsOK

LEMMA QueueStartOf ==
    ASSUME Parts, NEW m \in Nodes, QueueStart(m)
    PROVE  \A n \in Nodes : start[n].pc \in Flagged => start'[n] = start[n]
<1>1. CASE start[m] = NoJob
  <2>1. start[m].pc \notin Flagged
    BY <1>1 DEF NoJob, Job, Flagged
  <2>2. \A n \in Nodes \ {m} : start'[n] = start[n]
    BY <1>1, StartOf DEF QueueStart
  <2>. QED
    BY <2>1, <2>2
<1>2. CASE start[m] # NoJob
  BY <1>2 DEF QueueStart
<1>. QED
  BY <1>1, <1>2

LEMMA HeldInStart ==
    ASSUME Parts, AllHeld, NEW m \in Nodes, StartStep(m) \/ StartCrash(m)
    PROVE  AllHeld'
<1>0. /\ node[m] \in Row /\ start[m] \in StartJob /\ UNCHANGED restart
      /\ \A pc, version : Job(pc, version).pc = pc
      /\ NoJob.pc = "none"
  BY RowType DEF Parts, StartsOK, StartStep, StartRead, StartClear, StartHalt, StartFlag, StartPrepare,
     StartSend, StartFinish, StartCrash, StartVars, profileJobs, NoJob, Job
<1>1. CASE StartRead(m) \/ StartHalt(m)
  <2>1. start[m].pc \notin Flagged /\ UNCHANGED <<node, orphans>>
    BY <1>1 DEF StartRead, StartHalt, Flagged, history
  <2>2. \A n \in Nodes \ {m} : start'[n] = start[n]
    BY <1>1, StartOf DEF StartRead, StartHalt
  <2>. QED
    BY <1>0, <2>1, <2>2, HeldKept
<1>2. CASE StartClear(m)
  <2>1. start[m].pc \notin Flagged /\ UNCHANGED orphans
    BY <1>2 DEF StartClear, Flagged, history
  <2>2. \A n \in Nodes \ {m} : start'[n] = start[n]
    BY <1>2, StartOf DEF StartClear
  <2>3. \A n \in Nodes : node'[n].connecting => node[n].connecting
    <3>1. Cleared(node[m]) \in Row /\ ~Cleared(node[m]).connecting /\ Put(m, Cleared(node[m]))
      BY <1>0, <1>2, RowWrites, RowConnecting DEF StartClear
    <3>2. (\A n \in Nodes \ {m} : node'[n] = node[n]) /\ ~node'[m].connecting
      BY <3>1, PutConnecting
    <3>. QED
      BY <3>2
  <2>. QED
    BY <1>0, <2>1, <2>2, <2>3, HeldKept
<1>3. CASE StartFlag(m)
  <2>0. start'[m] = Job("flagged", 0) /\ (\A n \in Nodes \ {m} : start'[n] = start[n])
    BY <1>3, StartOf DEF StartFlag
  <2>1. start'[m].pc \in Flagged /\ UNCHANGED orphans
    BY <1>3, <2>0 DEF StartFlag, Job, Flagged, history
  <2>2. \A n \in Nodes \ {m} : node'[n] = node[n]
    BY <1>0, <1>3, RowWrites, PutConnecting DEF StartFlag
  <2>. QED
    BY <1>0, <2>0, <2>1, <2>2 DEF AllHeld, Held, ByRestart
<1>4. CASE StartPrepare(m)
  <2>1. \/ start'[m].pc \in Flagged /\ UNCHANGED orphans
        \/ orphans' = orphans \cup {m}
    BY <1>0, <1>4, StartOf DEF StartPrepare, Flagged
  <2>2. (\A n \in Nodes \ {m} : start'[n] = start[n]) /\ UNCHANGED node
    BY <1>4, StartOf DEF StartPrepare
  <2>. QED
    BY <1>0, <2>1, <2>2 DEF AllHeld, Held, ByRestart
<1>5. CASE StartSend(m)
  <2>1. start'[m].pc \in Flagged /\ (\A n \in Nodes \ {m} : start'[n] = start[n])
    BY <1>0, <1>5, StartOf DEF StartSend, Flagged
  <2>2. UNCHANGED <<node, orphans>>
    BY <1>5 DEF StartSend, history
  <2>. QED
    BY <1>0, <2>1, <2>2, HeldKept
<1>6. CASE StartFinish(m)
  <2>1. (\A n \in Nodes \ {m} : start'[n] = start[n]) /\ UNCHANGED orphans
    BY <1>6, StartOf DEF StartFinish, history
  <2>2. (\A n \in Nodes \ {m} : node'[n] = node[n]) /\ ~node'[m].connecting
    BY <1>0, <1>6, RowWrites, RowConnecting, PutConnecting DEF StartFinish
  <2>. QED
    BY <1>0, <2>1, <2>2 DEF AllHeld, Held, ByRestart
<1>7. CASE StartCrash(m)
  <2>1. (\A n \in Nodes \ {m} : start'[n] = start[n]) /\ UNCHANGED node
    BY <1>7, StartOf DEF StartCrash
  <2>2. orphans \subseteq orphans' /\ (start[m].pc \in Flagged => m \in orphans')
    BY <1>7 DEF StartCrash
  <2>. QED
    BY <1>0, <2>1, <2>2 DEF AllHeld, Held, ByRestart
<1>. QED
  BY <1>1, <1>2, <1>3, <1>4, <1>5, <1>6, <1>7 DEF StartStep

LEMMA HeldInStop ==
    ASSUME Parts, AllHeld, NEW m \in Nodes, StopStep(m) \/ StopCrash(m)
    PROVE  AllHeld'
<1>1. UNCHANGED <<start, restart, orphans>>
  BY DEF StopStep, StopXray, StopWrite, DeleteRow, StopCrash, StopVars, profileJobs, history
<1>2. \A n \in Nodes : node'[n].connecting => node[n].connecting
  <2>1. CASE StopWrite(m)
    <3>1. Off(node[m]) \in Row /\ ~Off(node[m]).connecting /\ Put(m, Off(node[m]))
      BY <2>1, RowType, RowWrites, RowConnecting DEF StopWrite
    <3>2. (\A n \in Nodes \ {m} : node'[n] = node[n]) /\ ~node'[m].connecting
      BY <3>1, PutConnecting
    <3>. QED
      BY <3>2
  <2>2. CASE DeleteRow(m)
    <3>1. Blank("gone") \in Row /\ ~Blank("gone").connecting
      BY DEF Blank, Row
    <3>2. UNCHANGED node \/ node' = [node EXCEPT ![m] = Blank("gone")]
      BY <2>2 DEF DeleteRow
    <3>. QED
      BY <3>1, <3>2 DEF Parts, NodesOK
  <2>3. CASE StopXray(m) \/ StopCrash(m)
    BY <2>3 DEF StopXray, StopCrash
  <2>. QED
    BY <2>1, <2>2, <2>3 DEF StopStep
<1>. QED
  BY <1>1, <1>2, HeldKept

LEMMA HeldInCheck ==
    ASSUME Parts, AllHeld, NEW m \in Nodes, CheckStep(m) \/ CheckCrash(m)
    PROVE  AllHeld'
<1>1. UNCHANGED <<restart, orphans>>
  BY DEF CheckStep, CheckProbe, CheckWrite, CheckCrash, CheckVars, profileJobs, history
<1>2. \A n \in Nodes : start[n].pc \in Flagged => start'[n].pc \in Flagged
  BY QueueStartOf DEF CheckStep, CheckProbe, CheckWrite, CheckCrash
<1>3. \A n \in Nodes : node'[n].connecting => node[n].connecting
  <2>1. CASE CheckWrite(m)
    <3>1. PICK r \in Row : r.connecting = node[m].connecting /\ Put(m, r)
      BY <2>1, RowType, RowWrites, RowConnecting DEF CheckWrite
    <3>. QED
      BY <3>1, PutConnecting
  <2>. QED
    BY <2>1 DEF CheckStep, CheckProbe, CheckCrash
<1>. QED
  BY <1>1, <1>2, <1>3, HeldKept

LEMMA HeldInRequest ==
    ASSUME Parts, AllHeld, NEW m \in Nodes,
           \/ RequestStep(m) \/ CreateNode(m) \/ RestartNode(m) \/ DeleteNode(m)
           \/ UpdateNode(m) \/ EnableNode(m) \/ DisableNode(m)
    PROVE  AllHeld'
<1>0. node[m] \in Row /\ (config # 0) \in BOOLEAN
  BY RowType
<1>1. UNCHANGED <<restart, orphans>>
  BY DEF RequestStep, WriteNode, QueueJob, RequestFails, CreateNode, RestartNode, DeleteNode,
     UpdateNode, EnableNode, DisableNode, RequestVars, profileJobs, history
<1>2. \A n \in Nodes : start[n].pc \in Flagged => start'[n].pc \in Flagged
  <2>1. UNCHANGED start \/ QueueStart(m)
    BY DEF RequestStep, WriteNode, QueueJob, RequestFails, CreateNode, RestartNode, DeleteNode,
       UpdateNode, EnableNode, DisableNode, jobs
  <2>. QED
    BY <2>1, QueueStartOf
<1>3. \A n \in Nodes : node'[n].connecting => node[n].connecting
  <2>1. CASE UNCHANGED node
    BY <2>1
  <2>2. CASE CreateNode(m)
    <3>1. Blank("live") \in Row /\ ~Blank("live").connecting
      BY DEF Blank, Row
    <3>2. PICK r \in Row : ~r.connecting /\ node' = [node EXCEPT ![m] = r]
      <4>1. node' = [node EXCEPT ![m] = [Blank("live") EXCEPT !.profile = TRUE]]
        BY <2>2 DEF CreateNode
      <4>. QED
        BY <3>1, <4>1, RowWrites, RowConnecting
    <3>. QED
      BY <3>2, PutConnecting
  <2>3. CASE DisableNode(m)
    <3>1. PICK r \in {Off(node[m]), Cleared(node[m])} : node' = [node EXCEPT ![m] = r]
      BY <2>3 DEF DisableNode
    <3>2. /\ Off(node[m]) \in Row /\ ~Off(node[m]).connecting
          /\ Cleared(node[m]) \in Row /\ ~Cleared(node[m]).connecting
      BY <1>0, RowWrites, RowConnecting
    <3>. QED
      BY <3>1, <3>2, PutConnecting
  <2>4. CASE WriteNode(m)
    <3>1. \/ UNCHANGED node
          \/ \E b \in BOOLEAN : \/ node' = [node EXCEPT ![m].bound = b]
                               \/ node' = [node EXCEPT ![m].profile = b]
                               \/ node' = [node EXCEPT ![m].disabled = b]
          \/ node' = [node EXCEPT ![m] = Cleared(@)]
      BY <1>0, <2>4 DEF WriteNode
    <3>2. CASE UNCHANGED node
      BY <3>2
    <3>3. CASE ~UNCHANGED node
      <4>1. PICK r \in Row : (r.connecting => node[m].connecting) /\ node' = [node EXCEPT ![m] = r]
        BY <1>0, <3>1, <3>3, RowWrites, RowConnecting
      <4>. QED
        BY <4>1, PutConnecting
    <3>. QED
      BY <3>2, <3>3
  <2>. QED
    BY <2>1, <2>2, <2>3, <2>4 DEF RequestStep, QueueJob, RequestFails, RestartNode, DeleteNode,
       UpdateNode, EnableNode
<1>. QED
  BY <1>1, <1>2, <1>3, HeldKept

LEMMA HeldInRequests ==
    ASSUME Parts, AllHeld,
           \/ ModifyProfile \/ EditProfile \/ DeleteProfile \/ RestartAll
           \/ WriteProfiles \/ DropProfile \/ BulkFails
    PROVE  AllHeld'
<1>1. UNCHANGED <<restart, start, orphans>>
  BY DEF ModifyProfile, EditProfile, DeleteProfile, RestartAll, WriteProfiles, DropProfile, BulkFails,
     BulkVars, jobs, profileJobs, history
<1>2. \A n \in Nodes : node'[n].connecting => node[n].connecting
  <2>1. \A n \in Nodes : \A b \in BOOLEAN :
            /\ [node[n] EXCEPT !.bound = b].connecting = node[n].connecting
            /\ [node[n] EXCEPT !.profile = b].connecting = node[n].connecting
            /\ [node[n] EXCEPT !.profile = b, !.bound = b].connecting = node[n].connecting
    BY RowType, RowConnecting
  <2>2. CASE WriteProfiles
    BY <2>1, <2>2 DEF WriteProfiles
  <2>3. CASE EditProfile
    BY <2>1, <2>3 DEF EditProfile
  <2>4. CASE DropProfile
    BY <2>1, <2>4 DEF DropProfile
  <2>5. CASE UNCHANGED node
    BY <2>5
  <2>. QED
    BY <2>2, <2>3, <2>4, <2>5 DEF ModifyProfile, DeleteProfile, RestartAll, BulkFails
<1>. QED
  BY <1>1, <1>2, HeldKept

(* A restart that is none of a profile's nodes yet holds none of them.       *)
LEMMA HeldByNone ==
    ASSUME AllHeld, UNCHANGED <<node, start, orphans>>,
           restart.pc \notin {"mark", "work"}
    PROVE  AllHeld'
BY DEF AllHeld, Held, ByRestart

LEMMA HeldInAsk ==
    ASSUME AllHeld, UNCHANGED <<node, start, orphans>>, AskRestart \/ UNCHANGED restart
    PROVE  AllHeld'
BY DEF AllHeld, Held, ByRestart, AskRestart

LEMMA HeldInRestart ==
    ASSUME Parts, AllHeld,
           RestartStep \/ RestartCrash \/ \E n \in Nodes : RestartSkip(n)
    PROVE  AllHeld'
<1>0. restart \in RestartJob /\ restart.bound \subseteq restart.nodes /\ UNCHANGED start
  BY DEF Parts, RestartOK, RestartStep, RestartPause, RestartSelect, RestartRead, RestartResume,
     RestartMark, RestartHalt, RestartSend, RestartWrite, RestartSkip, RestartCrash, NodeVars, RestartVars
<1>1. CASE RestartPause \/ RestartSelect
  BY <1>0, <1>1, HeldByNone DEF RestartPause, RestartSelect, NodeVars, history
<1>2. CASE RestartRead
  <2>1. CASE restart' = [restart EXCEPT !.pc = "work", !.todo = restart.nodes, !.version = config]
             /\ UNCHANGED orphans
    <3>1. restart'.pc = "work" /\ restart'.bound = restart.bound /\ restart'.todo = restart.nodes
      BY <1>0, <2>1 DEF RestartJob
    <3>2. restart.pc = "mark" /\ UNCHANGED node
      BY <1>2 DEF RestartRead, NodeVars
    <3>. QED
      BY <1>0, <2>1, <3>1, <3>2 DEF AllHeld, Held, ByRestart
  <2>2. CASE orphans' = orphans \cup restart.bound
    BY <1>0, <1>2, <2>2 DEF RestartRead, NodeVars, AllHeld, Held, ByRestart
  <2>. QED
    BY <1>2, <2>1, <2>2 DEF RestartRead
<1>3. CASE RestartResume
  BY <1>0, <1>3 DEF RestartResume, NodeVars, history, AllHeld, Held, ByRestart
<1>4. CASE RestartCrash
  BY <1>0, <1>4 DEF RestartCrash, NodeVars, AllHeld, Held, ByRestart
<1>5. ASSUME NEW m \in Nodes, RestartMark(m)
      PROVE  AllHeld'
  <2>1. /\ restart'.pc = "mark" /\ restart'.bound = restart.bound /\ restart'.todo = restart.todo \ {m}
        /\ restart.pc = "mark" /\ UNCHANGED orphans
    BY <1>0, <1>5 DEF RestartMark, RestartJob, history
  <2>2. CASE m \in restart.bound
    <3>1. Connecting(node[m]) \in Row /\ Put(m, Connecting(node[m]))
      BY <1>5, <2>2, RowType, RowWrites DEF RestartMark
    <3>2. \A n \in Nodes \ {m} : node'[n] = node[n]
      BY <3>1, PutConnecting
    <3>. QED
      BY <1>0, <2>1, <2>2, <3>2 DEF AllHeld, Held, ByRestart
  <2>3. CASE m \notin restart.bound
    <3>1. Cleared(node[m]) \in Row /\ ~Cleared(node[m]).connecting /\ Put(m, Cleared(node[m]))
      BY <1>5, <2>3, RowType, RowWrites, RowConnecting DEF RestartMark
    <3>2. (\A n \in Nodes \ {m} : node'[n] = node[n]) /\ ~node'[m].connecting
      BY <3>1, PutConnecting
    <3>. QED
      BY <1>0, <2>1, <3>2 DEF AllHeld, Held, ByRestart
  <2>. QED
    BY <2>2, <2>3
<1>6. ASSUME NEW m \in Nodes, RestartHalt(m)
      PROVE  AllHeld'
  <2>1. /\ restart'.pc = restart.pc /\ restart'.bound = restart.bound /\ restart'.todo = restart.todo
        /\ restart.pc = "mark" /\ UNCHANGED <<node, orphans>>
    BY <1>0, <1>6 DEF RestartHalt, RestartJob, history
  <2>. QED
    BY <1>0, <2>1 DEF AllHeld, Held, ByRestart
<1>7. ASSUME NEW m \in Nodes, RestartSend(m)
      PROVE  AllHeld'
  <2>1. \/ restart' = [restart EXCEPT !.todo = @ \ {m}, !.up = @ \cup {m}]
        \/ restart' = [restart EXCEPT !.todo = @ \ {m}, !.down = @ \cup {m}]
    BY <1>7 DEF RestartSend
  <2>2. restart'.todo \cup restart'.up \cup restart'.down
            = restart.todo \cup restart.up \cup restart.down
    <3>1. m \in restart.todo
      BY <1>7 DEF RestartSend
    <3>2. /\ restart'.todo = restart.todo \ {m}
          /\ \/ restart'.up = restart.up \cup {m} /\ restart'.down = restart.down
             \/ restart'.up = restart.up /\ restart'.down = restart.down \cup {m}
      BY <1>0, <2>1 DEF RestartJob
    <3>. QED
      BY <3>1, <3>2
  <2>3. restart'.pc = "work" /\ restart.pc = "work" /\ restart'.bound = restart.bound
        /\ UNCHANGED <<node, orphans>>
    BY <1>0, <1>7, <2>1 DEF RestartSend, RestartJob, history
  <2>. QED
    BY <1>0, <2>2, <2>3 DEF AllHeld, Held, ByRestart
<1>8. ASSUME NEW m \in Nodes, RestartWrite(m)
      PROVE  AllHeld'
  <2>1. /\ restart'.pc = "work" /\ restart.pc = "work" /\ restart'.bound = restart.bound
        /\ restart'.todo = restart.todo /\ restart'.up = restart.up \ {m}
        /\ restart'.down = restart.down \ {m} /\ UNCHANGED orphans
    BY <1>0, <1>8 DEF RestartWrite, RestartJob, history
  <2>2. PICK r \in Row : ~r.connecting /\ Put(m, r)
    BY <1>8, RowType, RowWrites, RowConnecting DEF RestartWrite
  <2>3. (\A n \in Nodes \ {m} : node'[n] = node[n]) /\ ~node'[m].connecting
    BY <2>2, PutConnecting
  <2>. QED
    BY <1>0, <2>1, <2>3 DEF AllHeld, Held, ByRestart
<1>9. ASSUME NEW m \in Nodes, RestartSkip(m)
      PROVE  AllHeld'
  <2>1. /\ restart'.pc = "work" /\ restart.pc = "work" /\ restart'.bound = restart.bound
        /\ restart'.todo = restart.todo \ {m} /\ restart'.up = restart.up \ {m}
        /\ restart'.down = restart.down \ {m}
        /\ orphans' = orphans \cup {m} /\ UNCHANGED node
    BY <1>0, <1>9 DEF RestartSkip, RestartJob, NodeVars
  <2>. QED
    BY <1>0, <2>1 DEF AllHeld, Held, ByRestart
<1>. QED
  BY <1>1, <1>2, <1>3, <1>4, <1>5, <1>6, <1>7, <1>8, <1>9 DEF RestartStep

LEMMA HeldInScheduler ==
    ASSUME Parts, AllHeld, StartAll \/ AskAgain \/ SchedulerRestarts \/ RequestRestart \/ CheckAll
    PROVE  AllHeld'
<1>1. UNCHANGED <<node, start, orphans>>
  BY DEF StartAll, AskAgain, SchedulerRestarts, RequestRestart, CheckAll, BulkVars, jobs, history
<1>2. CASE AskAgain
  BY <1>1, <1>2, HeldByNone, HeldInAsk DEF AskAgain
<1>3. CASE StartAll \/ SchedulerRestarts \/ RequestRestart \/ CheckAll
  BY <1>1, <1>3, HeldInAsk DEF StartAll, SchedulerRestarts, RequestRestart, CheckAll, CheckVars, profileJobs
<1>. QED
  BY <1>2, <1>3

LEMMA AlwaysHeld == Spec => [](Parts /\ AllHeld)
<1>1. Init => Parts /\ AllHeld
  <2>1. Init => \A n \in Nodes : ~node[n].connecting
    <3>1. ~Blank("new").connecting /\ ~Connected.connecting /\ ~Disabled.connecting
      BY DEF Blank, Connected, Disabled
    <3>. QED
      BY <3>1 DEF Init
  <2>. QED
    BY <2>1, InitTypes DEF AllHeld
<1>2. (Parts /\ AllHeld) /\ [Next]_vars => (Parts /\ AllHeld)'
  <2>1. ASSUME Parts, AllHeld, Next
        PROVE  AllHeld'
    <3>1. CASE \E n \in Nodes : StartStep(n) \/ StartCrash(n)
      BY <2>1, <3>1, HeldInStart
    <3>2. CASE \E n \in Nodes : StopStep(n) \/ StopCrash(n)
      BY <2>1, <3>2, HeldInStop
    <3>3. CASE \E n \in Nodes : CheckStep(n) \/ CheckCrash(n)
      BY <2>1, <3>3, HeldInCheck
    <3>4. CASE RestartStep \/ RestartCrash \/ \E n \in Nodes : RestartSkip(n)
      BY <2>1, <3>4, HeldInRestart
    <3>5. CASE \E n \in Nodes : \/ RequestStep(n) \/ CreateNode(n) \/ RestartNode(n) \/ DeleteNode(n)
                               \/ UpdateNode(n) \/ EnableNode(n) \/ DisableNode(n)
      BY <2>1, <3>5, HeldInRequest
    <3>6. CASE \/ ModifyProfile \/ EditProfile \/ DeleteProfile \/ RestartAll
               \/ WriteProfiles \/ DropProfile \/ BulkFails
      BY <2>1, <3>6, HeldInRequests
    <3>7. CASE StartAll \/ AskAgain \/ SchedulerRestarts \/ RequestRestart \/ CheckAll
      BY <2>1, <3>7, HeldInScheduler
    <3>8. CASE \E n \in Nodes : AgentGone(n) \/ AgentBack(n) \/ XrayDies(n)
      BY <2>1, <3>8, HeldKept DEF AgentGone, AgentBack, XrayDies, AgentVars, jobs, profileJobs, history
    <3>. QED
      BY <2>1, <3>1, <3>2, <3>3, <3>4, <3>5, <3>6, <3>7, <3>8 DEF Next, NewRequest, BulkStep
  <2>2. ASSUME Parts, AllHeld, UNCHANGED vars
        PROVE  AllHeld'
    BY <2>2, HeldKept DEF vars, jobs, profileJobs, history
  <2>3. Parts /\ [Next]_vars => Parts'
    BY NextTypes, Kept DEF vars, requests, jobs, profileJobs, bounds, history, Parts
  <2>. QED
    BY <2>1, <2>2, <2>3
<1>. QED
  BY <1>1, <1>2, PTL DEF Spec

(* A row is connecting only while a startNode job or the profile's restart   *)
(* will still clear it, or after such a job died: no interleaving of jobs,    *)
(* requests and deletions leaves it set.                                     *)
THEOREM ConnectingIsOwned == Spec => []ConnectingHasOwner
<1>1. Parts /\ AllHeld => ConnectingHasOwner
  BY HeldIsOwned
<1>. QED
  BY <1>1, AlwaysHeld, PTL

-----------------------------------------------------------------------------
(* What one node's jobs, requests and outages leave alone.                   *)

OfNode(m) ==
    \/ StartStep(m) \/ StartCrash(m) \/ StopStep(m) \/ StopCrash(m)
    \/ CheckStep(m) \/ CheckCrash(m) \/ RequestStep(m)
    \/ CreateNode(m) \/ RestartNode(m) \/ DeleteNode(m)
    \/ UpdateNode(m) \/ EnableNode(m) \/ DisableNode(m)
    \/ AgentGone(m) \/ AgentBack(m) \/ XrayDies(m)
OfRestart(m) == RestartMark(m) \/ RestartHalt(m) \/ RestartSend(m) \/ RestartWrite(m) \/ RestartSkip(m)

Untouched(n) ==
    /\ node'[n] = node[n] /\ agent'[n] = agent[n] /\ req'[n] = req[n]
    /\ start'[n] = start[n] /\ stop'[n] = stop[n] /\ check'[n] = check[n]
    /\ n \in clean' => n \in clean
    /\ n \in overlapped' <=> n \in overlapped

LEMMA OfNodeFrame ==
    ASSUME NEW m \in Nodes, OfNode(m)
    PROVE  UNCHANGED <<config, bulk, restart, paused, all, again>>
BY DEF OfNode, StartStep, StartRead, StartClear, StartHalt, StartFlag, StartPrepare,
   StartSend, StartFinish, StartCrash, StartVars, StopStep, StopXray, StopWrite, DeleteRow,
   StopCrash, StopVars, CheckStep, CheckProbe, CheckWrite, CheckCrash, CheckVars, RequestStep,
   WriteNode, QueueJob, RequestFails, CreateNode, RestartNode, DeleteNode, UpdateNode,
   EnableNode, DisableNode, Call, RequestVars, AgentGone, AgentBack, XrayDies, AgentVars, profileJobs,
   requests

LEMMA OfRestartFrame ==
    ASSUME NEW m \in Nodes, OfRestart(m)
    PROVE  UNCHANGED <<config, bulk, paused, all, again, req, start, check>>
BY DEF OfRestart, RestartMark, RestartHalt, RestartSend, RestartWrite, RestartSkip, NodeVars, RestartVars,
   requests

LEMMA OthersUntouched ==
    ASSUME Parts, NEW m \in Nodes, OfNode(m) \/ OfRestart(m), NEW n \in Nodes \ {m}
    PROVE  Untouched(n)
<1>0. /\ \A r : Put(m, r) => node'[n] = node[n]
      /\ QueueStart(m) => start'[n] = start[n]
      /\ QueueStop(m) => stop'[n] = stop[n]
      /\ \A version : Runs(m, version) => agent'[n] = agent[n]
      /\ \A pc : CheckTo(m, pc) => check'[n] = check[n]
      /\ \A op : (To(m, op) \/ Go(m, op) \/ Answer(m)) => req'[n] = req[n]
  BY DEF Parts, NodesOK, StartsOK, StopsOK, AgentsOK, ChecksOK, RequestsOK, Put, QueueStart, QueueStop,
     Runs, CheckTo, To, Go, Answer
<1>. USE DEF Untouched, requests, jobs, profileJobs, history
<1>1. CASE StartStep(m) \/ StartCrash(m)
  BY <1>0, <1>1 DEF StartStep, StartRead, StartClear, StartHalt, StartFlag, StartPrepare,
     StartSend, StartFinish, StartCrash, StartVars, Parts, StartsOK
<1>2. CASE StopStep(m) \/ StopCrash(m)
  BY <1>0, <1>2 DEF StopStep, StopXray, StopWrite, DeleteRow, StopCrash, StopVars, Parts, StopsOK, NodesOK
<1>3. CASE CheckStep(m) \/ CheckCrash(m)
  BY <1>0, <1>3 DEF CheckStep, CheckProbe, CheckWrite, CheckCrash, CheckVars
<1>4. CASE RequestStep(m)
  BY <1>0, <1>4 DEF RequestStep, WriteNode, QueueJob, RequestFails, RequestVars, Parts, NodesOK
<1>5. CASE \/ CreateNode(m) \/ RestartNode(m) \/ DeleteNode(m)
           \/ UpdateNode(m) \/ EnableNode(m) \/ DisableNode(m)
  BY <1>0, <1>5 DEF CreateNode, RestartNode, DeleteNode, UpdateNode, EnableNode, DisableNode,
     RequestVars, Parts, NodesOK
<1>6. CASE AgentGone(m) \/ AgentBack(m) \/ XrayDies(m)
  BY <1>0, <1>6 DEF AgentGone, AgentBack, XrayDies, AgentVars, Parts, AgentsOK
<1>7. CASE OfRestart(m)
  BY <1>0, <1>7 DEF OfRestart, RestartMark, RestartHalt, RestartSend, RestartWrite, RestartSkip,
     NodeVars, RestartVars
<1>. QED
  BY <1>1, <1>2, <1>3, <1>4, <1>5, <1>6, <1>7 DEF OfNode

-----------------------------------------------------------------------------
(* A node disabled in peace is stopped.  No job that could start it is under  *)
(* way, the restart has not selected it, and its stop is requested, queued    *)
(* or done.                                                                  *)

AtRest(n) ==
    /\ node[n].disabled /\ ~node[n].connected
    /\ start[n] = NoJob /\ check[n] = NoCheck /\ n \notin restart.nodes
    /\ req[n].op \notin {"start", "bind"} /\ ~req[n].enabled
    /\ req[n].op = "stop" \/ stop[n] = "waiting" \/ agent[n].runs = 0
    /\ stop[n] = "stopped" => agent[n].runs = 0
Stopped(n) == node[n].row # "new" /\ (Live(n) => AtRest(n))
Selected ==
    /\ restart.todo \cup restart.halt \cup restart.up \cup restart.down \subseteq restart.nodes
    /\ restart.pc # "mark" => restart.halt = {}
    /\ restart.pc # "work" => restart.up = {} /\ restart.down = {}
AllStopped == Selected /\ \A n \in clean : Stopped(n)

LEMMA StoppedUntouched ==
    ASSUME NEW n \in Nodes, Stopped(n), Untouched(n), n \notin restart.nodes => n \notin restart'.nodes
    PROVE  Stopped(n)'
BY DEF Stopped, AtRest, Live, Untouched

LEMMA StoppedGone ==
    ASSUME NEW n \in Nodes, Stopped(n), ~Live(n), node'[n] = node[n]
    PROVE  Stopped(n)'
BY DEF Stopped, Live

LEMMA RowParts ==
    ASSUME NEW r \in Row
    PROVE  /\ Off(r).row = r.row /\ Cleared(r).row = r.row /\ Down(r).row = r.row
           /\ Up(r).row = r.row /\ Connecting(r).row = r.row
           /\ Off(r).disabled /\ ~Off(r).connected
           /\ Cleared(r).disabled /\ ~Cleared(r).connected /\ ~Cleared(r).profile
           /\ ~Down(r).connected /\ Down(r).disabled = r.disabled
           /\ Down(r).profile = r.profile /\ Down(r).bound = r.bound
           /\ Up(r).disabled = r.disabled /\ Up(r).profile = r.profile /\ Up(r).bound = r.bound
           /\ Connecting(r).connected = r.connected /\ Connecting(r).disabled = r.disabled
           /\ Connecting(r).profile = r.profile /\ Connecting(r).bound = r.bound
BY DEF Row, Off, Cleared, Down, Up, Connecting

LEMMA StoppedInStart ==
    ASSUME Parts, NEW m \in Nodes, Stopped(m), StartStep(m) \/ StartCrash(m)
    PROVE  Stopped(m)'
<1>1. CASE ~Live(m)
  <2>1. node'[m] = node[m]
    BY <1>1 DEF StartStep, StartRead, StartClear, StartHalt, StartFlag, StartPrepare, StartSend,
       StartFinish, StartCrash, Put
  <2>. QED
    BY <1>1, <2>1, StoppedGone
<1>2. CASE Live(m)
  <2>1. start[m].pc = "none"
    BY <1>2 DEF Stopped, AtRest, NoJob, Job
  <2>. QED
    BY <2>1 DEF StartStep, StartRead, StartClear, StartHalt, StartFlag, StartPrepare, StartSend,
       StartFinish, StartCrash
<1>. QED
  BY <1>1, <1>2

LEMMA StoppedInStop ==
    ASSUME Parts, NEW m \in Nodes, Stopped(m), StopStep(m) \/ StopCrash(m), m \in clean'
    PROVE  Stopped(m)'
<1>0. /\ node[m] \in Row /\ stop[m] \in {"none", "waiting", "stopped"}
      /\ agent[m] \in [up : BOOLEAN, runs : 0..MaxVersion]
      /\ UNCHANGED <<start, check, req, restart>>
  BY RowType DEF Parts, StopsOK, AgentsOK, StopStep, StopXray, StopWrite, DeleteRow, StopCrash,
     StopVars, requests, profileJobs
<1>1. CASE StopXray(m)
  <2>1. CASE Live(m)
    <3>1. /\ stop'[m] = "stopped" /\ agent'[m].runs = 0 /\ node'[m] = node[m]
      BY <1>0, <1>1, <2>1 DEF StopXray, Runs, Parts, StopsOK, AgentsOK
    <3>. QED
      BY <1>0, <3>1 DEF Stopped, AtRest, Live
  <2>2. CASE ~Live(m)
    BY <1>1, <2>2, StoppedGone DEF StopXray
  <2>. QED
    BY <2>1, <2>2
<1>2. CASE StopWrite(m)
  <2>1. CASE Live(m)
    <3>1. node'[m] = Off(node[m]) /\ stop'[m] = "none" /\ agent'[m] = agent[m] /\ stop[m] = "stopped"
      BY <1>0, <1>2, <2>1 DEF StopWrite, Put, Parts, StopsOK, NodesOK
    <3>2. node'[m].row = node[m].row /\ node'[m].disabled /\ ~node'[m].connected
      BY <1>0, <3>1, RowParts
    <3>. QED
      BY <1>0, <2>1, <3>1, <3>2 DEF Stopped, AtRest, Live
  <2>2. CASE ~Live(m)
    BY <1>2, <2>2, StoppedGone DEF StopWrite, Put
  <2>. QED
    BY <2>1, <2>2
<1>3. CASE DeleteRow(m)
  <2>1. /\ agent'[m] = agent[m] /\ stop'[m] = stop[m]
        /\ node'[m] = node[m] \/ node'[m] = Blank("gone")
    BY <1>3 DEF DeleteRow, Parts, NodesOK
  <2>2. Blank("gone").row = "gone"
    BY DEF Blank
  <2>. QED
    BY <1>0, <2>1, <2>2 DEF Stopped, AtRest, Live
<1>4. CASE StopCrash(m)
  BY <1>4 DEF StopCrash
<1>. QED
  BY <1>1, <1>2, <1>3, <1>4 DEF StopStep

LEMMA StoppedInCheck ==
    ASSUME Parts, NEW m \in Nodes, Stopped(m), CheckStep(m) \/ CheckCrash(m)
    PROVE  Stopped(m)'
<1>1. CASE ~Live(m)
  <2>1. node'[m] = node[m]
    BY <1>1 DEF CheckStep, CheckProbe, CheckWrite, CheckCrash, Put
  <2>. QED
    BY <1>1, <2>1, StoppedGone
<1>2. CASE Live(m)
  <2>1. check[m].pc = "none"
    BY <1>2 DEF Stopped, AtRest, NoCheck
  <2>. QED
    BY <2>1 DEF CheckStep, CheckProbe, CheckWrite, CheckCrash
<1>. QED
  BY <1>1, <1>2

LEMMA StoppedInAgent ==
    ASSUME Parts, NEW m \in Nodes, Stopped(m), AgentGone(m) \/ AgentBack(m) \/ XrayDies(m)
    PROVE  Stopped(m)'
<1>1. agent'[m].runs \in {0, agent[m].runs}
  BY DEF AgentGone, AgentBack, XrayDies, Runs, Parts, AgentsOK
<1>2. UNCHANGED <<node, start, check, req, stop, restart>>
  BY DEF AgentGone, AgentBack, XrayDies, AgentVars, jobs, requests, profileJobs
<1>. QED
  BY <1>1, <1>2 DEF Stopped, AtRest, Live

(* What the writes of a request under way make of it.                        *)
LEMMA RequestOf ==
    ASSUME Parts, NEW m \in Nodes
    PROVE  /\ \A op : To(m, op) => /\ req'[m].op = op
                                   /\ req'[m].enabled => ~node[m].disabled
                                   /\ op \in {"remove", "keep"} /\ ~req'[m].enabled => node[m].disabled
           /\ \A op : Go(m, op) => req'[m].op = op /\ req'[m].enabled = req[m].enabled
           /\ Answer(m) => req'[m] = Idle
<1>1. \A op : To(m, op) => req'[m] = [op |-> op, enabled |-> op \in {"remove", "keep"} /\ ~node[m].disabled]
  BY DEF To, Parts, RequestsOK
<1>2. \A op : To(m, op) => /\ req'[m].op = op
                           /\ req'[m].enabled => ~node[m].disabled
                           /\ op \in {"remove", "keep"} /\ ~req'[m].enabled => node[m].disabled
  <2>1. ASSUME NEW op, To(m, op)
        PROVE  /\ req'[m].op = op
               /\ req'[m].enabled => ~node[m].disabled
               /\ op \in {"remove", "keep"} /\ ~req'[m].enabled => node[m].disabled
    <3>1. CASE op \in {"remove", "keep"} /\ ~node[m].disabled
      <4>1. req'[m] = [op |-> op, enabled |-> TRUE]
        BY <1>1, <2>1, <3>1
      <4>. QED
        BY <3>1, <4>1
    <3>2. CASE ~(op \in {"remove", "keep"} /\ ~node[m].disabled)
      <4>1. req'[m] = [op |-> op, enabled |-> FALSE]
        BY <1>1, <2>1, <3>2
      <4>. QED
        BY <3>2, <4>1
    <3>. QED
      BY <3>1, <3>2
  <2>. QED
    BY <2>1
<1>3. \A op : Go(m, op) => req'[m].op = op /\ req'[m].enabled = req[m].enabled
  BY DEF Go, Parts, RequestsOK
<1>4. Answer(m) => req'[m] = Idle
  BY DEF Answer, Parts, RequestsOK
<1>. QED
  BY ONLY <1>2, <1>3, <1>4

LEMMA StoppedInRequest ==
    ASSUME Parts, NEW m \in Nodes, m \in clean => Stopped(m), Selected, m \in clean',
           \/ RequestStep(m) \/ CreateNode(m) \/ RestartNode(m) \/ DeleteNode(m)
           \/ UpdateNode(m) \/ EnableNode(m) \/ DisableNode(m)
    PROVE  Stopped(m)'
<1>0. /\ node[m] \in Row /\ stop[m] \in {"none", "waiting", "stopped"}
      /\ req[m] \in [op : Request, enabled : BOOLEAN]
      /\ UNCHANGED <<check, restart, agent>>
  BY RowType DEF Parts, StopsOK, RequestsOK, RequestStep, WriteNode, QueueJob, RequestFails,
     CreateNode, RestartNode, DeleteNode, UpdateNode, EnableNode, DisableNode, RequestVars,
     jobs, profileJobs
<1>2. CASE DisableNode(m)
  <2>1. start[m] = NoJob /\ stop[m] = "none" /\ check[m] = NoCheck /\ m \notin restart.nodes
    BY <1>2 DEF DisableNode
  <2>2. node'[m] \in {Off(node[m]), Cleared(node[m])} /\ Live(m)
    BY <1>2 DEF DisableNode, Parts, NodesOK
  <2>3. node'[m].row = "live" /\ node'[m].disabled /\ ~node'[m].connected
    BY <1>0, <2>2, RowParts DEF Live
  <2>4. req'[m].op = "stop" /\ ~req'[m].enabled
    BY <1>2, <1>0 DEF DisableNode, To, Parts, RequestsOK
  <2>5. UNCHANGED <<start, stop>>
    BY <1>2 DEF DisableNode
  <2>. QED
    BY <1>0, <2>1, <2>3, <2>4, <2>5 DEF Stopped, AtRest
<1>3. CASE ~DisableNode(m) /\ ~Live(m)
  <2>1. m \in clean
    BY <1>3 DEF RequestStep, WriteNode, QueueJob, RequestFails, CreateNode, RestartNode, DeleteNode,
       UpdateNode, EnableNode, history
  <2>2. node'[m].row = node[m].row
    <3>1. CASE CreateNode(m)
      BY <2>1, <3>1 DEF CreateNode, Stopped
    <3>2. CASE WriteNode(m)
      BY <1>0, <1>3, <3>2, Unbound DEF WriteNode, Parts, NodesOK
    <3>. QED
      BY <1>3, <3>1, <3>2 DEF RequestStep, QueueJob, RequestFails, RestartNode, DeleteNode,
         UpdateNode, EnableNode
  <2>. QED
    BY <1>3, <2>1, <2>2 DEF Stopped, Live
<1>4. CASE ~DisableNode(m) /\ Live(m)
  <2>1. m \in clean /\ AtRest(m) /\ Stopped(m)
    BY <1>4 DEF RequestStep, WriteNode, QueueJob, RequestFails, CreateNode, RestartNode, DeleteNode,
       UpdateNode, EnableNode, history, Stopped
  <2>2. CASE CreateNode(m) \/ RestartNode(m)
    BY <1>4, <2>1, <2>2 DEF CreateNode, RestartNode, Live, AtRest
  <2>3. CASE DeleteNode(m)
    BY <1>0, <2>1, <2>3 DEF DeleteNode, Stopped, AtRest, Live
  <2>4. CASE UpdateNode(m) \/ EnableNode(m)
    <3>1. /\ req'[m].op \notin {"start", "bind"} /\ (req'[m].enabled => ~node[m].disabled)
          /\ req[m].op = "none" /\ UNCHANGED <<node, start, stop>>
      BY RequestOf, <2>4 DEF UpdateNode, EnableNode
    <3>. QED
      BY <1>0, <2>1, <3>1 DEF Stopped, AtRest, Live
  <2>5. CASE WriteNode(m)
    <3>1. /\ req[m].op \in {"remove", "add", "row", "keep"} /\ ~req[m].enabled
          /\ UNCHANGED <<start, stop>>
      BY <2>1, <2>5 DEF WriteNode, AtRest
    <3>2. /\ req'[m].op \notin {"start", "bind"} /\ ~req'[m].enabled
      BY RequestOf, <2>5, <3>1 DEF WriteNode, Idle
    <3>3. /\ node'[m].row = node[m].row /\ node'[m].disabled = node[m].disabled
          /\ node'[m].connected = node[m].connected
      BY <1>0, <2>5, <3>1 DEF WriteNode, Parts, NodesOK, Row
    <3>. QED
      BY <1>0, <2>1, <3>1, <3>2, <3>3 DEF Stopped, AtRest, Live
  <2>6. CASE QueueJob(m)
    <3>1. req[m].op = "stop" /\ req'[m] = Idle /\ QueueStop(m) /\ UNCHANGED <<node, start>>
      BY RequestOf, <2>1, <2>6 DEF QueueJob, AtRest
    <3>2. stop'[m] = "waiting" \/ (stop'[m] = "stopped" /\ stop[m] = "stopped")
      BY <1>0, <3>1 DEF QueueStop, Parts, StopsOK
    <3>. QED
      BY <1>0, <2>1, <3>1, <3>2 DEF Stopped, AtRest, Live, Idle
  <2>7. CASE RequestFails(m)
    BY <2>7 DEF RequestFails
  <2>. QED
    BY <1>4, <2>2, <2>3, <2>4, <2>5, <2>6, <2>7 DEF RequestStep
<1>. QED
  BY <1>2, <1>3, <1>4

(* How far the restart gets in a step.                                       *)
LEMMA PauseShape ==
    ASSUME Parts, RestartPause
    PROVE  /\ restart.pc = "waiting" /\ restart'.pc = "select" /\ restart'.nodes = restart.nodes
           /\ restart'.bound = restart.bound /\ restart'.todo = restart.todo
           /\ restart'.halt = restart.halt /\ restart'.up = restart.up
           /\ restart'.down = restart.down
<1>1. restart \in RestartJob
  BY DEF Parts, RestartOK
<1>. QED
  BY <1>1 DEF RestartPause, RestartJob

LEMMA SelectShape ==
    ASSUME Parts, RestartSelect
    PROVE  /\ restart.pc = "select" /\ restart'.pc = "mark" /\ restart'.todo = restart'.nodes
           /\ restart'.nodes = {n \in Nodes : Live(n) /\ ~node[n].disabled /\ node[n].profile}
           /\ restart'.bound = {n \in restart'.nodes : node[n].bound}
           /\ restart'.halt = restart.halt /\ restart'.up = restart.up
           /\ restart'.down = restart.down
<1>1. restart \in RestartJob
  BY DEF Parts, RestartOK
<1>. QED
  BY <1>1 DEF RestartSelect, RestartJob

LEMMA ReadShape ==
    ASSUME Parts, RestartRead
    PROVE  /\ restart.pc = "mark" /\ restart.todo = {} /\ restart.halt = {}
           /\ \/ /\ restart.bound # {} /\ config # 0
                 /\ restart'.pc = "work" /\ restart'.nodes = restart.nodes
                 /\ restart'.bound = restart.bound /\ restart'.todo = restart.nodes
                 /\ restart'.halt = restart.halt /\ restart'.up = restart.up
                 /\ restart'.down = restart.down /\ restart'.version = config
              \/ /\ restart.bound = {} \/ config = 0
                 /\ restart' = [NoRestart EXCEPT !.pc = "resume"]
<1>1. restart \in RestartJob
  BY DEF Parts, RestartOK
<1>. QED
  BY <1>1 DEF RestartRead, RestartJob

LEMMA MarkShape ==
    ASSUME Parts, NEW m \in Nodes, RestartMark(m)
    PROVE  /\ restart.pc = "mark" /\ restart'.pc = "mark" /\ restart'.nodes = restart.nodes
           /\ restart'.bound = restart.bound /\ restart'.todo = restart.todo \ {m}
           /\ restart'.halt = {m} \ restart.bound /\ restart'.up = restart.up
           /\ restart'.down = restart.down
<1>1. restart \in RestartJob
  BY DEF Parts, RestartOK
<1>. QED
  BY <1>1 DEF RestartMark, RestartJob

LEMMA HaltShape ==
    ASSUME Parts, NEW m \in Nodes, RestartHalt(m)
    PROVE  /\ restart.pc = "mark" /\ restart'.pc = "mark" /\ restart'.nodes = restart.nodes
           /\ restart'.bound = restart.bound /\ restart'.todo = restart.todo
           /\ restart'.halt = {} /\ restart'.up = restart.up
           /\ restart'.down = restart.down
<1>1. restart \in RestartJob
  BY DEF Parts, RestartOK
<1>. QED
  BY <1>1 DEF RestartHalt, RestartJob

LEMMA SendShape ==
    ASSUME Parts, NEW m \in Nodes, RestartSend(m)
    PROVE  /\ restart.pc = "work" /\ restart'.pc = "work" /\ restart'.nodes = restart.nodes
           /\ restart'.version = restart.version /\ m \in restart.todo
           /\ restart'.bound = restart.bound /\ restart'.todo = restart.todo \ {m}
           /\ restart'.halt = restart.halt
           /\ \/ /\ restart'.up = restart.up \cup {m} /\ restart'.down = restart.down
                 /\ Runs(m, restart.version) /\ UNCHANGED mishaps
              \/ /\ restart'.up = restart.up /\ restart'.down = restart.down \cup {m}
                 /\ UNCHANGED agent /\ ~agent[m].up
              \/ /\ restart'.up = restart.up /\ restart'.down = restart.down \cup {m}
                 /\ Mishap
<1>1. restart \in RestartJob
  BY DEF Parts, RestartOK
<1>. QED
  BY <1>1 DEF RestartSend, RestartJob, bounds

LEMMA WriteShape ==
    ASSUME Parts, NEW m \in Nodes, RestartWrite(m)
    PROVE  /\ restart.pc = "work" /\ restart'.pc = "work" /\ restart'.nodes = restart.nodes
           /\ restart'.version = restart.version
           /\ restart'.bound = restart.bound /\ restart'.todo = restart.todo
           /\ restart'.halt = restart.halt /\ restart'.up = restart.up \ {m}
           /\ restart'.down = restart.down \ {m}
<1>1. restart \in RestartJob
  BY DEF Parts, RestartOK
<1>. QED
  BY <1>1 DEF RestartWrite, RestartJob

LEMMA SkipShape ==
    ASSUME Parts, NEW m \in Nodes, RestartSkip(m)
    PROVE  /\ restart.pc = "work" /\ restart'.pc = "work" /\ restart'.nodes = restart.nodes
           /\ restart'.bound = restart.bound /\ restart'.todo = restart.todo \ {m}
           /\ restart'.halt = restart.halt /\ restart'.up = restart.up \ {m}
           /\ restart'.down = restart.down \ {m} /\ Mishap
<1>1. restart \in RestartJob
  BY DEF Parts, RestartOK
<1>. QED
  BY <1>1 DEF RestartSkip, RestartJob

LEMMA StoppedInRestart ==
    ASSUME Parts, AllStopped, RestartStep \/ RestartCrash \/ \E n \in Nodes : RestartSkip(n)
    PROVE  AllStopped'
<1>0. /\ restart \in RestartJob /\ UNCHANGED <<clean, start, check, req>>
      /\ \A n \in Nodes : node[n] \in Row /\ (node[n].row # "live" => node[n] = Blank(node[n].row))
  BY DEF Parts, NodesOK, RestartOK, RestartStep, RestartPause, RestartSelect, RestartRead, RestartResume,
     RestartMark, RestartHalt, RestartSend, RestartWrite, RestartSkip, RestartCrash, NodeVars,
     RestartVars, history, requests
<1>1. CASE RestartPause \/ RestartSelect \/ RestartRead \/ RestartResume \/ RestartCrash
  <2>1. UNCHANGED <<node, agent, stop>>
    BY <1>1 DEF RestartPause, RestartSelect, RestartRead, RestartResume, RestartCrash, NodeVars
  <2>2. Selected' /\ restart'.nodes \subseteq restart.nodes \cup {n \in Nodes : ~node[n].disabled}
    <3>1. CASE RestartPause
      BY <3>1, PauseShape DEF AllStopped, Selected
    <3>2. CASE RestartSelect
      <4>1. restart.pc = "select" /\ restart'.up = restart.up /\ restart'.down = restart.down
            /\ restart'.halt = restart.halt
        BY <3>2, SelectShape
      <4>2. restart.halt = {} /\ restart.up = {} /\ restart.down = {}
        BY <4>1 DEF AllStopped, Selected
      <4>. QED
        BY <3>2, <4>1, <4>2, SelectShape DEF Selected
    <3>3. CASE RestartRead
      BY <3>3, ReadShape DEF AllStopped, Selected, NoRestart
    <3>4. CASE RestartResume \/ RestartCrash
      BY <3>4 DEF RestartResume, RestartCrash, Selected, NoRestart
    <3>. QED
      BY <1>1, <3>1, <3>2, <3>3, <3>4
  <2>3. ASSUME NEW n \in clean, n \in restart'.nodes, Live(n)
        PROVE  FALSE
    BY <2>2, <2>3 DEF AllStopped, Stopped, AtRest
  <2>. QED
    BY <1>0, <2>1, <2>2, <2>3 DEF AllStopped, Stopped, AtRest, Live
<1>2. ASSUME NEW m \in Nodes, OfRestart(m)
      PROVE  AllStopped'
  <2>1. m \in restart.nodes
    BY <1>2 DEF OfRestart, RestartMark, RestartHalt, RestartSend, RestartWrite, RestartSkip,
       AllStopped, Selected
  <2>2. Selected' /\ restart'.nodes = restart.nodes
    BY <1>2, <2>1, MarkShape, HaltShape, SendShape, WriteShape, SkipShape DEF OfRestart, AllStopped, Selected
  <2>3. ASSUME NEW n \in clean, n # m
        PROVE  Stopped(n)'
    <3>1. n \in Nodes /\ Stopped(n)
      BY <2>3 DEF AllStopped, Parts, HistoryOK
    <3>2. Untouched(n)
      BY <1>2, <2>3, <3>1, OthersUntouched
    <3>. QED
      BY <2>2, <3>1, <3>2, StoppedUntouched
  <2>4. ASSUME m \in clean
        PROVE  Stopped(m)'
    <3>1. Stopped(m) /\ ~Live(m)
      BY <2>1, <2>4 DEF AllStopped, Stopped, AtRest
    <3>2. node'[m] = node[m]
      BY <1>2, <3>1 DEF OfRestart, RestartMark, RestartHalt, RestartSend, RestartWrite, RestartSkip,
         NodeVars, Put
    <3>. QED
      BY <3>1, <3>2, StoppedGone
  <2>. QED
    BY <1>0, <2>2, <2>3, <2>4 DEF AllStopped
<1>. QED
  BY <1>1, <1>2 DEF RestartStep, OfRestart

(* What touches no job, and of the rows only their profile and inbounds.     *)
LEMMA StoppedKept ==
    ASSUME AllStopped, UNCHANGED <<clean, start, req, agent>>,
           restart'.nodes = restart.nodes \/ restart' = [NoRestart EXCEPT !.pc = "waiting"],
           restart' = restart \/ restart' = [NoRestart EXCEPT !.pc = "waiting"],
           \A n \in clean : /\ node'[n].row = node[n].row /\ node'[n].disabled = node[n].disabled
                            /\ node'[n].connected = node[n].connected
                            /\ stop'[n] = stop[n] \/ stop'[n] = "waiting"
                            /\ AtRest(n) /\ Live(n) => check'[n] = check[n]
    PROVE  AllStopped'
<1>1. restart' = restart \/ restart'.nodes = {}
  BY DEF NoRestart
<1>2. Selected'
  BY DEF AllStopped, Selected, NoRestart
<1>. QED
  BY <1>1, <1>2 DEF AllStopped, Stopped, AtRest, Live

LEMMA StoppedElsewhere ==
    ASSUME Parts, AllStopped,
           \/ CheckAll \/ StartAll \/ AskAgain \/ SchedulerRestarts
           \/ ModifyProfile \/ EditProfile \/ DeleteProfile \/ RestartAll \/ BulkStep
    PROVE  AllStopped'
<1>0. /\ clean \subseteq Nodes
      /\ \A n \in Nodes : node[n] \in Row /\ stop[n] \in {"none", "waiting", "stopped"}
  BY DEF Parts, NodesOK, StopsOK, HistoryOK
<1>1. CASE CheckAll
  <2>1. \A n \in clean : AtRest(n) /\ Live(n) => check'[n] = check[n]
    BY <1>0, <1>1 DEF CheckAll, AtRest
  <2>. QED
    BY <1>1, <2>1, StoppedKept DEF CheckAll, CheckVars, requests, profileJobs, history
<1>2. CASE StartAll \/ AskAgain \/ SchedulerRestarts \/ RestartAll
  BY <1>2, StoppedKept DEF StartAll, AskAgain, SchedulerRestarts, RestartAll, AskRestart, requests,
     jobs, history
<1>3. CASE ModifyProfile \/ RequestRestart \/ BulkFails
  BY <1>3, StoppedKept DEF ModifyProfile, RequestRestart, BulkFails, AskRestart, BulkVars,
     jobs, profileJobs, history
<1>4. CASE DeleteProfile
  <2>1. \A n \in clean : stop'[n] = stop[n] \/ stop'[n] = "waiting"
    BY <1>0, <1>4 DEF DeleteProfile
  <2>. QED
    BY <1>4, <2>1, StoppedKept DEF DeleteProfile, BulkVars, history
<1>5. CASE EditProfile \/ WriteProfiles \/ DropProfile
  <2>1. \A n \in clean : /\ node'[n].row = node[n].row /\ node'[n].disabled = node[n].disabled
                         /\ node'[n].connected = node[n].connected
    <3>1. \A n \in clean :
            node'[n] \in {node[n], [node[n] EXCEPT !.bound = FALSE], [node[n] EXCEPT !.bound = TRUE],
                          [node[n] EXCEPT !.profile = TRUE],
                          [node[n] EXCEPT !.profile = FALSE, !.bound = FALSE]}
      <4>1. CASE EditProfile
        BY <1>0, <4>1 DEF EditProfile
      <4>2. CASE WriteProfiles
        BY <1>0, <4>2 DEF WriteProfiles
      <4>3. CASE DropProfile
        BY <1>0, <4>3 DEF DropProfile
      <4>. QED
        BY <1>5, <4>1, <4>2, <4>3
    <3>. QED
      BY <1>0, <3>1 DEF Row
  <2>. QED
    BY <1>5, <2>1, StoppedKept DEF EditProfile, WriteProfiles, DropProfile, BulkVars, history
<1>. QED
  BY <1>1, <1>2, <1>3, <1>4, <1>5 DEF BulkStep

LEMMA AlwaysStopped == Spec => [](Parts /\ AllStopped)
<1>1. Init => Parts /\ AllStopped
  <2>1. ASSUME Init
        PROVE  AllStopped
    <3>1. \A n \in clean : n \in Nodes /\ node[n] = Disabled
      <4>1. \A n \in Nodes : node[n].disabled => node[n] = Disabled
        BY <2>1 DEF Init, Blank, Connected
      <4>. QED
        BY <2>1, <4>1 DEF Init
    <3>2. Disabled.row = "live" /\ Disabled.disabled /\ ~Disabled.connected
      BY DEF Disabled, Connected
    <3>3. \A n \in clean : Stopped(n)
      BY <2>1, <3>1, <3>2 DEF Init, Stopped, AtRest, NoRestart, Idle
    <3>4. Selected
      BY <2>1 DEF Init, Selected, NoRestart
    <3>. QED
      BY <3>3, <3>4 DEF AllStopped
  <2>. QED
    BY <2>1, InitTypes
<1>2. (Parts /\ AllStopped) /\ [Next]_vars => (Parts /\ AllStopped)'
  <2>1. ASSUME Parts, AllStopped, Next
        PROVE  AllStopped'
    <3>1. ASSUME NEW m \in Nodes, OfNode(m)
          PROVE  AllStopped'
      <4>1. UNCHANGED restart
        BY <3>1, OfNodeFrame
      <4>2. clean' \subseteq clean \cup {m} /\ clean \subseteq Nodes
        <5>1. clean' \subseteq Nodes /\ clean \subseteq Nodes
          BY <2>1, NextTypes DEF Parts, HistoryOK
        <5>2. \A n \in Nodes \ {m} : n \in clean' => n \in clean
          BY <2>1, <3>1, OthersUntouched DEF Untouched
        <5>. QED
          BY <5>1, <5>2
      <4>3. ASSUME NEW n \in clean', n # m
            PROVE  Stopped(n)'
        <5>1. n \in Nodes /\ Stopped(n)
          BY <2>1, <4>2, <4>3 DEF AllStopped
        <5>2. Untouched(n)
          BY <2>1, <3>1, <4>3, <5>1, OthersUntouched
        <5>. QED
          BY <4>1, <5>1, <5>2, StoppedUntouched
      <4>4. ASSUME m \in clean'
            PROVE  Stopped(m)'
        <5>1. CASE \/ RequestStep(m) \/ CreateNode(m) \/ RestartNode(m) \/ DeleteNode(m)
                   \/ UpdateNode(m) \/ EnableNode(m) \/ DisableNode(m)
          BY <2>1, <4>4, <5>1, StoppedInRequest DEF AllStopped
        <5>2. CASE StartStep(m) \/ StartCrash(m) \/ StopStep(m) \/ StopCrash(m) \/ CheckStep(m)
                   \/ CheckCrash(m) \/ AgentGone(m) \/ AgentBack(m) \/ XrayDies(m)
          <6>1. m \in clean
            BY <4>4, <5>2 DEF StartStep, StartRead, StartClear, StartHalt, StartFlag, StartPrepare,
               StartSend, StartFinish, StartCrash, StopStep, StopXray, StopWrite, DeleteRow,
               StopCrash, CheckStep, CheckProbe, CheckWrite, CheckCrash, AgentGone, AgentBack, XrayDies,
               AgentVars, history
          <6>. QED
            BY <2>1, <4>4, <5>2, <6>1, StoppedInStart, StoppedInStop, StoppedInCheck, StoppedInAgent
               DEF AllStopped
        <5>. QED
          BY <3>1, <5>1, <5>2 DEF OfNode
      <4>5. Selected'
        BY <2>1, <4>1 DEF AllStopped, Selected
      <4>. QED
        BY <4>3, <4>4, <4>5 DEF AllStopped
    <3>2. CASE RestartStep \/ RestartCrash \/ \E n \in Nodes : RestartSkip(n)
      BY <2>1, <3>2, StoppedInRestart
    <3>3. CASE \/ CheckAll \/ StartAll \/ AskAgain \/ SchedulerRestarts
               \/ ModifyProfile \/ EditProfile \/ DeleteProfile \/ RestartAll \/ BulkStep
      BY <2>1, <3>3, StoppedElsewhere
    <3>. QED
      BY <2>1, <3>1, <3>2, <3>3 DEF Next, NewRequest, OfNode
  <2>2. ASSUME Parts, AllStopped, UNCHANGED vars
        PROVE  AllStopped'
    BY <2>2, StoppedKept DEF vars, requests, jobs, profileJobs, history
  <2>3. Parts /\ [Next]_vars => Parts'
    BY NextTypes, Kept DEF vars, requests, jobs, profileJobs, bounds, history, Parts
  <2>. QED
    BY <2>1, <2>2, <2>3
<1>. QED
  BY <1>1, <1>2, PTL DEF Spec

(* Whatever requests, jobs and outages follow, a node that was disabled while *)
(* nothing else was under way on it, and that its stop reached, does not run  *)
(* and is not shown connected until it is enabled.                           *)
THEOREM DisabledStaysStopped == Spec => []DisabledIsStopped
<1>1. Parts /\ AllStopped => DisabledIsStopped
  BY DEF Parts, StopsOK, AllStopped, Stopped, AtRest, DisabledIsStopped
<1>. QED
  BY <1>1, AlwaysStopped, PTL

-----------------------------------------------------------------------------
(* The ground that the versions stand on: an empty slot has no job, a node   *)
(* is in one place of the restart, an update of a disabled node has noticed  *)
(* so, a deleted profile has no nodes, and while nothing failed a restart    *)
(* under way keeps the queues paused.                                        *)

Slots == \A n \in Nodes : start[n].pc = "none" => start[n] = NoJob
Apart ==
    restart.pc = "work" => /\ restart.todo \cap (restart.up \cup restart.down) = {}
                           /\ restart.up \cap restart.down = {}
Noticed(n) ==
    req[n].op \in {"remove", "add", "row", "keep"} /\ ~req[n].enabled => node[n].disabled \/ ~Live(n)
Dropped ==
    config = 0 => bulk.pc \notin {"row", "remove", "add"} /\ \A n \in Nodes : ~node[n].profile
Waits == mishaps = 0 /\ restart.pc \in {"select", "mark", "work", "resume"} => paused
Ground == Slots /\ Apart /\ (\A n \in Nodes : Noticed(n)) /\ Dropped /\ Waits

(* What every write of a job does to a row: it takes something away.         *)
Fades(n) ==
    /\ Live(n)' => Live(n)
    /\ node[n].disabled => node'[n].disabled \/ ~Live(n)'
    /\ node'[n].profile => node[n].profile
    /\ node'[n].bound => node[n].bound

LEMMA SameFades ==
    ASSUME NEW n \in Nodes, node'[n] = node[n]
    PROVE  Fades(n)
BY DEF Fades, Live

LEMMA PutFades ==
    ASSUME Parts, NEW m \in Nodes, NEW r,
           Put(m, r), r.disabled \/ r.disabled = node[m].disabled,
           r.row = node[m].row, r.profile => node[m].profile, r.bound => node[m].bound
    PROVE  Fades(m)
<1>1. node'[m] = node[m] \/ node'[m] = r
  BY DEF Put, Parts, NodesOK
<1>. QED
  BY <1>1 DEF Fades, Live

LEMMA WritesFade ==
    ASSUME Parts, NEW m \in Nodes,
           \/ \E w \in {Off(node[m]), Cleared(node[m]), Connecting(node[m]), Up(node[m]), Down(node[m])} :
                Put(m, w)
           \/ \E b \in BOOLEAN : Put(m, [node[m] EXCEPT !.connected = b])
    PROVE  Fades(m)
<1>1. node[m] \in Row
  BY RowType
<1>2. ASSUME NEW r, \/ r \in {Off(node[m]), Cleared(node[m]), Connecting(node[m]), Up(node[m]), Down(node[m])}
                    \/ \E b \in BOOLEAN : r = [node[m] EXCEPT !.connected = b]
      PROVE  /\ r.disabled \/ r.disabled = node[m].disabled
             /\ r.row = node[m].row /\ (r.profile => node[m].profile) /\ (r.bound => node[m].bound)
  BY <1>1, <1>2 DEF Row, Off, Cleared, Connecting, Up, Down
<1>. QED
  BY <1>2, PutFades

LEMMA JobsFade ==
    ASSUME Parts, NEW m \in Nodes,
           \/ StartStep(m) \/ StartCrash(m) \/ StopStep(m) \/ StopCrash(m)
           \/ CheckStep(m) \/ CheckCrash(m) \/ AgentGone(m) \/ AgentBack(m) \/ XrayDies(m)
           \/ OfRestart(m)
    PROVE  Fades(m)
<1>1. CASE StartStep(m) \/ StartCrash(m)
  BY <1>1, WritesFade, SameFades DEF StartStep, StartRead, StartClear, StartHalt, StartFlag,
     StartPrepare, StartSend, StartFinish, StartCrash
<1>2. CASE StopXray(m) \/ StopWrite(m) \/ StopCrash(m)
  BY <1>2, WritesFade, SameFades DEF StopXray, StopWrite, StopCrash
<1>3. CASE DeleteRow(m)
  <2>1. node'[m] = node[m] \/ node'[m] = Blank("gone")
    BY <1>3 DEF DeleteRow, Parts, NodesOK
  <2>. QED
    BY <2>1, SameFades DEF Fades, Blank, Live
<1>4. CASE CheckStep(m) \/ CheckCrash(m)
  <2>1. CASE CheckWrite(m)
    <3>1. (check[m].pc = "alive") \in BOOLEAN
      OBVIOUS
    <3>. QED
      BY <2>1, <3>1, WritesFade DEF CheckWrite
  <2>2. CASE ~CheckWrite(m)
    BY <1>4, <2>2, SameFades DEF CheckStep, CheckProbe, CheckCrash
  <2>. QED
    BY <2>1, <2>2
<1>5. CASE AgentGone(m) \/ AgentBack(m) \/ XrayDies(m)
  BY <1>5, SameFades DEF AgentGone, AgentBack, XrayDies, AgentVars
<1>6. CASE OfRestart(m)
  BY <1>6, WritesFade, SameFades DEF OfRestart, RestartMark, RestartHalt, RestartSend, RestartWrite,
     RestartSkip, NodeVars
<1>. QED
  BY <1>1, <1>2, <1>3, <1>4, <1>5, <1>6 DEF StopStep

LEMMA NoMishap ==
    ASSUME Parts, mishaps' = 0, Mishap \/ Outage \/ UNCHANGED bounds
    PROVE  ~Mishap /\ mishaps = 0
BY DEF Parts, BoundsOK, Mishap, Outage, bounds

(* What the steps of a job make of its slot.                                 *)
LEMMA SlotInStart ==
    ASSUME Parts, NEW m \in Nodes, StartStep(m) \/ StartCrash(m)
    PROVE  start'[m].pc = "none" => start'[m] = NoJob
<1>1. \A job : start' = [start EXCEPT ![m] = job] => start'[m] = job
  BY DEF Parts, StartsOK
<1>2. /\ \A pc, version : Job(pc, version).pc = pc
      /\ NoJob.pc = "none"
  BY DEF Job, NoJob
<1>3. CASE StartRead(m)
  BY <1>1, <1>2, <1>3 DEF StartRead
<1>4. CASE StartHalt(m) \/ StartFinish(m)
  BY <1>1, <1>4 DEF StartHalt, StartFinish
<1>5. CASE StartClear(m) \/ StartFlag(m)
  BY <1>1, <1>2, <1>5 DEF StartClear, StartFlag
<1>6. CASE StartPrepare(m)
  BY <1>1, <1>2, <1>6 DEF StartPrepare
<1>7. CASE StartSend(m)
  BY <1>1, <1>2, <1>7 DEF StartSend
<1>8. CASE StartCrash(m)
  BY <1>1, <1>2, <1>8 DEF StartCrash
<1>. QED
  BY <1>3, <1>4, <1>5, <1>6, <1>7, <1>8 DEF StartStep

LEMMA SlotQueued ==
    ASSUME Parts, Slots, NEW m \in Nodes, QueueStart(m)
    PROVE  start'[m].pc # "none" /\ (start'[m] = start[m] \/ start'[m] = Job("waiting", 0))
<1>1. start'[m] = IF start[m] = NoJob THEN Job("waiting", 0) ELSE start[m]
  BY DEF QueueStart, Parts, StartsOK
<1>2. Job("waiting", 0).pc = "waiting"
  BY DEF Job
<1>. QED
  BY <1>1, <1>2 DEF Slots

LEMMA SlotsInNode ==
    ASSUME Parts, Slots, NEW m \in Nodes, OfNode(m)
    PROVE  Slots'
<1>1. \A n \in Nodes \ {m} : start'[n] = start[n]
  BY OthersUntouched DEF Untouched
<1>2. start'[m].pc = "none" => start'[m] = NoJob
  <2>1. CASE StartStep(m) \/ StartCrash(m)
    BY <2>1, SlotInStart
  <2>2. CASE CheckWrite(m) \/ QueueJob(m)
    BY <2>2, SlotQueued DEF CheckWrite, QueueJob, Slots
  <2>3. CASE UNCHANGED start
    BY <2>3 DEF Slots
  <2>. QED
    BY <2>1, <2>2, <2>3 DEF OfNode, StopStep, StopXray, StopWrite, DeleteRow,
       StopCrash, StopVars, CheckStep, CheckProbe, CheckCrash, RequestStep,
       WriteNode, RequestFails, CreateNode, RestartNode, DeleteNode, UpdateNode,
       EnableNode, DisableNode, AgentGone, AgentBack, XrayDies, AgentVars, jobs
<1>. QED
  BY <1>1, <1>2 DEF Slots

(* The rows and the request of a node whose request goes on.                 *)
LEMMA NoticedInRequest ==
    ASSUME Parts, NEW m \in Nodes, Noticed(m),
           \/ RequestStep(m) \/ CreateNode(m) \/ RestartNode(m) \/ DeleteNode(m)
           \/ UpdateNode(m) \/ EnableNode(m) \/ DisableNode(m)
    PROVE  Noticed(m)'
<1>1. node[m] \in Row
  BY RowType
<1>2. Idle.op = "none"
  BY DEF Idle
<1>3. CASE CreateNode(m) \/ RestartNode(m) \/ DisableNode(m) \/ EnableNode(m)
  BY <1>3, RequestOf DEF CreateNode, RestartNode, DisableNode, EnableNode, Noticed
<1>4. CASE DeleteNode(m)
  BY <1>4 DEF DeleteNode, Noticed, Live
<1>5. CASE UpdateNode(m)
  <2>1. req'[m].op \in {"remove", "keep"} /\ (~req'[m].enabled => node[m].disabled) /\ node' = node
    BY <1>5, RequestOf DEF UpdateNode
  <2>. QED
    BY <2>1 DEF Noticed
<1>6. CASE WriteNode(m)
  <2>1. CASE req[m].op \in {"remove", "add"}
    <3>1. /\ req'[m].op \in {"add", "row"} /\ req'[m].enabled = req[m].enabled
          /\ node'[m].disabled = node[m].disabled /\ node'[m].row = node[m].row
      BY <1>1, <1>6, <2>1, RequestOf DEF WriteNode, Parts, NodesOK, Row
    <3>. QED
      BY <2>1, <3>1 DEF Noticed, Live
  <2>2. CASE req[m].op \notin {"remove", "add"}
    <3>1. req'[m].op \in {"start", "none"}
      BY <1>2, <1>6, <2>2, RequestOf DEF WriteNode
    <3>. QED
      BY <3>1 DEF Noticed
  <2>. QED
    BY <2>1, <2>2
<1>7. CASE QueueJob(m) \/ RequestFails(m)
  BY <1>2, <1>7, RequestOf DEF QueueJob, RequestFails, Noticed
<1>. QED
  BY <1>3, <1>4, <1>5, <1>6, <1>7 DEF RequestStep

LEMMA NoticedFades ==
    ASSUME NEW n \in Nodes, Noticed(n), Fades(n), req'[n] = req[n]
    PROVE  Noticed(n)'
BY DEF Noticed, Fades, Live

LEMMA NodeFaults ==
    ASSUME NEW m \in Nodes, OfNode(m)
    PROVE  Mishap \/ Outage \/ UNCHANGED bounds
BY DEF OfNode, StartStep, StartRead, StartClear, StartHalt, StartFlag, StartPrepare,
   StartSend, StartFinish, StartCrash, StopStep, StopXray, StopWrite, DeleteRow,
   StopCrash, CheckStep, CheckProbe, CheckWrite, CheckCrash, RequestStep,
   WriteNode, QueueJob, RequestFails, CreateNode, RestartNode, DeleteNode, UpdateNode,
   EnableNode, DisableNode, RequestVars, AgentGone, AgentBack, XrayDies

LEMMA GroundInNode ==
    ASSUME Parts, Ground, NEW m \in Nodes, OfNode(m)
    PROVE  Ground'
<1>0. UNCHANGED <<config, bulk, restart, paused>>
  BY OfNodeFrame
<1>1. Slots'
  BY SlotsInNode DEF Ground
<1>2. \A n \in Nodes \ {m} : Untouched(n)
  BY OthersUntouched
<1>3. CASE \/ RequestStep(m) \/ CreateNode(m) \/ RestartNode(m) \/ DeleteNode(m)
           \/ UpdateNode(m) \/ EnableNode(m) \/ DisableNode(m)
  <2>1. Noticed(m)'
    BY <1>3, NoticedInRequest DEF Ground
  <2>2. config = 0 /\ ~node[m].profile => ~node'[m].profile
    <3>1. node[m] \in Row
      BY RowType
    <3>2. CASE CreateNode(m)
      BY <3>2 DEF CreateNode
    <3>3. CASE DisableNode(m)
      BY <3>1, <3>3 DEF DisableNode, Off, Cleared, Down, Row, Parts, NodesOK
    <3>4. CASE WriteNode(m)
      BY <3>1, <3>4 DEF WriteNode, Off, Cleared, Down, Row, Parts, NodesOK
    <3>. QED
      BY <1>3, <3>2, <3>3, <3>4 DEF RequestStep, QueueJob, RequestFails, RestartNode, DeleteNode,
         UpdateNode, EnableNode
  <2>. QED
    BY <1>0, <1>1, <1>2, <2>1, <2>2, NodeFaults, NoMishap
       DEF Ground, Untouched, Apart, Noticed, Dropped, Waits, Live
<1>4. CASE \/ StartStep(m) \/ StartCrash(m) \/ StopStep(m) \/ StopCrash(m)
           \/ CheckStep(m) \/ CheckCrash(m) \/ AgentGone(m) \/ AgentBack(m) \/ XrayDies(m)
  <2>1. Fades(m)
    BY <1>4, JobsFade
  <2>2. req'[m] = req[m]
    BY <1>4 DEF StartStep, StartRead, StartClear, StartHalt, StartFlag, StartPrepare, StartVars,
       StartSend, StartFinish, StartCrash, StopStep, StopXray, StopWrite, DeleteRow, StopVars,
       StopCrash, CheckStep, CheckProbe, CheckWrite, CheckCrash, CheckVars, AgentGone, AgentBack, XrayDies,
       AgentVars, requests
  <2>3. Noticed(m)'
    BY <2>1, <2>2, NoticedFades DEF Ground
  <2>. QED
    BY <1>0, <1>1, <1>2, <2>1, <2>3, NodeFaults, NoMishap
       DEF Ground, Untouched, Apart, Noticed, Dropped, Waits, Live, Fades
<1>. QED
  BY <1>3, <1>4 DEF OfNode

LEMMA RestartFaults ==
    ASSUME Parts, NEW m \in Nodes, OfRestart(m)
    PROVE  Mishap \/ UNCHANGED bounds
<1>1. CASE RestartMark(m) \/ RestartHalt(m) \/ RestartWrite(m)
  BY <1>1 DEF RestartMark, RestartHalt, RestartWrite
<1>2. CASE RestartSend(m)
  BY <1>2 DEF RestartSend
<1>3. CASE RestartSkip(m)
  BY <1>3, SkipShape
<1>. QED
  BY <1>1, <1>2, <1>3 DEF OfRestart

LEMMA GroundInRestart ==
    ASSUME Parts, Ground, Selected, RestartStep \/ RestartCrash \/ \E n \in Nodes : RestartSkip(n)
    PROVE  Ground'
<1>1. CASE RestartPause \/ RestartSelect \/ RestartRead \/ RestartResume \/ RestartCrash
  <2>1. UNCHANGED <<config, bulk, node, req, start>> /\ Selected
    BY <1>1 DEF RestartPause, RestartSelect, RestartRead, RestartResume, RestartCrash, NodeVars,
       RestartVars, requests
  <2>2. Apart'
    <3>1. CASE RestartPause
      BY <3>1, PauseShape DEF Apart
    <3>2. CASE RestartSelect
      BY <3>2, SelectShape DEF Apart
    <3>3. CASE RestartRead
      BY <3>3, ReadShape DEF Apart, Selected, NoRestart
    <3>4. CASE RestartResume \/ RestartCrash
      BY <3>4 DEF RestartResume, RestartCrash, Apart, NoRestart
    <3>. QED
      BY <1>1, <3>1, <3>2, <3>3, <3>4
  <2>3. Waits'
    <3>1. CASE RestartPause
      BY <3>1 DEF RestartPause, Waits
    <3>2. CASE RestartSelect
      BY <3>2, SelectShape DEF RestartSelect, Ground, Waits, bounds
    <3>3. CASE RestartRead
      BY <3>3, ReadShape DEF RestartRead, Ground, Waits, bounds
    <3>4. CASE RestartResume
      BY <3>4 DEF RestartResume, Waits, NoRestart
    <3>5. CASE RestartCrash
      BY <3>5, NoMishap DEF RestartCrash, Waits
    <3>. QED
      BY <1>1, <3>1, <3>2, <3>3, <3>4, <3>5
  <2>. QED
    BY <2>1, <2>2, <2>3 DEF Ground, Slots, Noticed, Dropped, Live
<1>2. ASSUME NEW m \in Nodes, OfRestart(m)
      PROVE  Ground'
  <2>1. UNCHANGED <<config, bulk, paused, all, again, req, start, check>>
    BY <1>2, OfRestartFrame
  <2>2. Fades(m) /\ \A n \in Nodes \ {m} : Untouched(n)
    BY <1>2, JobsFade, OthersUntouched
  <2>3. \A n \in Nodes : Noticed(n)'
    BY <2>1, <2>2, NoticedFades DEF Ground, Untouched, Noticed, Live
  <2>4. Apart'
    BY <1>2, MarkShape, HaltShape, SendShape, WriteShape, SkipShape DEF OfRestart, Ground, Apart
  <2>5. restart'.pc = restart.pc /\ (Mishap \/ Outage \/ UNCHANGED bounds)
    <3>1. restart'.pc = restart.pc
      BY <1>2, MarkShape, HaltShape, SendShape, WriteShape, SkipShape DEF OfRestart
    <3>2. Mishap \/ UNCHANGED bounds
      BY <1>2, RestartFaults
    <3>. QED
      BY <3>1, <3>2
  <2>6. Waits'
    BY <2>1, <2>5, NoMishap DEF Ground, Waits
  <2>. QED
    BY <2>1, <2>2, <2>3, <2>4, <2>6 DEF Ground, Slots, Dropped, Untouched, Fades
<1>. QED
  BY <1>1, <1>2 DEF RestartStep, OfRestart

(* What leaves the jobs of the nodes alone.                                  *)
LEMMA GroundKept ==
    ASSUME Parts, Ground, UNCHANGED <<start, req>>, UNCHANGED paused,
           restart' = restart \/ restart'.pc = "waiting",
           Mishap \/ Outage \/ UNCHANGED bounds,
           \A n \in Nodes : node'[n].row = node[n].row /\ node'[n].disabled = node[n].disabled,
           Dropped'
    PROVE  Ground'
<1>1. Waits'
  BY NoMishap DEF Ground, Waits
<1>. QED
  BY <1>1 DEF Ground, Slots, Apart, Noticed, Live

LEMMA RowsRewritten ==
    ASSUME Parts, EditProfile \/ WriteProfiles \/ DropProfile, NEW n \in Nodes
    PROVE  /\ node'[n].row = node[n].row /\ node'[n].disabled = node[n].disabled
           /\ node'[n].connected = node[n].connected
<1>1. node'[n] \in {node[n], [node[n] EXCEPT !.bound = FALSE], [node[n] EXCEPT !.bound = TRUE],
                   [node[n] EXCEPT !.profile = TRUE], [node[n] EXCEPT !.profile = FALSE, !.bound = FALSE]}
  <2>1. CASE EditProfile
    BY <2>1 DEF EditProfile
  <2>2. CASE WriteProfiles
    BY <2>2 DEF WriteProfiles
  <2>3. CASE DropProfile
    BY <2>3 DEF DropProfile
  <2>. QED
    BY <2>1, <2>2, <2>3
<1>. QED
  BY <1>1, RowType DEF Row

LEMMA GroundElsewhere ==
    ASSUME Parts, Ground,
           \/ CheckAll \/ StartAll \/ AskAgain \/ SchedulerRestarts
           \/ ModifyProfile \/ EditProfile \/ DeleteProfile \/ RestartAll \/ BulkStep
    PROVE  Ground'
<1>1. [NoRestart EXCEPT !.pc = "waiting"].pc = "waiting"
  BY DEF NoRestart
<1>2. CASE CheckAll \/ StartAll \/ AskAgain \/ SchedulerRestarts \/ RestartAll
  <2>1. /\ UNCHANGED <<start, req, paused, node, config, bulk>>
        /\ restart' = restart \/ restart'.pc = "waiting"
        /\ Mishap \/ UNCHANGED bounds
    BY <1>1, <1>2 DEF CheckAll, CheckVars, StartAll, AskAgain, SchedulerRestarts, RestartAll, AskRestart,
       requests, jobs, profileJobs
  <2>. QED
    BY <2>1, GroundKept DEF Ground, Dropped
<1>3. CASE ModifyProfile \/ DeleteProfile \/ RequestRestart \/ BulkFails
  <2>1. /\ UNCHANGED <<start, req, paused, node, config>>
        /\ bulk'.pc \in {"none", "drop"} \/ config # 0
        /\ restart' = restart \/ restart'.pc = "waiting"
        /\ Mishap \/ UNCHANGED bounds
    <3>1. NoBulk.pc = "none" /\ \A pc, nodes : Bulk(pc, nodes) => bulk'.pc = pc
      BY DEF NoBulk, Bulk
    <3>2. CASE ModifyProfile \/ DeleteProfile
      BY <3>1, <3>2 DEF ModifyProfile, DeleteProfile, BulkVars
    <3>3. CASE RequestRestart
      BY <1>1, <3>1, <3>3 DEF RequestRestart, AskRestart, BulkVars
    <3>4. CASE BulkFails
      BY <3>1, <3>4 DEF BulkFails, jobs, profileJobs
    <3>. QED
      BY <1>3, <3>2, <3>3, <3>4
  <2>. QED
    BY <2>1, GroundKept DEF Ground, Dropped
<1>4. CASE EditProfile \/ WriteProfiles \/ DropProfile
  <2>1. UNCHANGED <<start, req, paused, restart, bounds>>
    BY <1>4 DEF EditProfile, WriteProfiles, DropProfile, BulkVars
  <2>2. \A n \in Nodes : node'[n].row = node[n].row /\ node'[n].disabled = node[n].disabled
    BY <1>4, RowsRewritten
  <2>3. Dropped'
    <3>1. CASE DropProfile
      <4>1. \A n \in Nodes : ~node'[n].profile
        <5>1. \A n \in Nodes : node'[n] = [node[n] EXCEPT !.profile = FALSE, !.bound = FALSE]
          BY <3>1 DEF DropProfile
        <5>. QED
          BY <5>1, RowType DEF Row
      <4>2. bulk'.pc = "none"
        BY <3>1 DEF DropProfile, NoBulk
      <4>. QED
        BY <4>1, <4>2 DEF Dropped
    <3>2. CASE EditProfile
      BY <3>2 DEF EditProfile, Dropped, Parts, ConfigOK
    <3>3. CASE WriteProfiles
      <4>1. config' # 0
        BY <3>3 DEF WriteProfiles, Ground, Dropped
      <4>. QED
        BY <4>1 DEF Dropped
    <3>. QED
      BY <1>4, <3>1, <3>2, <3>3
  <2>. QED
    BY <2>1, <2>2, <2>3, GroundKept
<1>. QED
  BY <1>2, <1>3, <1>4 DEF BulkStep

LEMMA AlwaysGround == Spec => []Ground
<1>1. Init => Ground
  <2>1. ASSUME Init
        PROVE  Ground
    <3>1. \A n \in Nodes : start[n] = NoJob /\ req[n].op = "none"
      <4>1. Idle.op = "none"
        BY DEF Idle
      <4>. QED
        BY <2>1, <4>1 DEF Init
    <3>2. config # 0 /\ restart.pc = "none"
      BY <2>1 DEF Init, NoRestart
    <3>. QED
      BY <3>1, <3>2 DEF Ground, Slots, Apart, Noticed, Dropped, Waits
  <2>. QED
    BY <2>1
<1>2. Parts /\ Selected /\ Ground /\ [Next]_vars => Ground'
  <2>1. ASSUME Parts, Selected, Ground, Next
        PROVE  Ground'
    <3>1. ASSUME NEW m \in Nodes, OfNode(m)
          PROVE  Ground'
      BY <2>1, <3>1, GroundInNode
    <3>2. CASE RestartStep \/ RestartCrash \/ \E n \in Nodes : RestartSkip(n)
      BY <2>1, <3>2, GroundInRestart
    <3>3. CASE \/ CheckAll \/ StartAll \/ AskAgain \/ SchedulerRestarts
               \/ ModifyProfile \/ EditProfile \/ DeleteProfile \/ RestartAll \/ BulkStep
      BY <2>1, <3>3, GroundElsewhere
    <3>. QED
      BY <2>1, <3>1, <3>2, <3>3 DEF Next, NewRequest, OfNode
  <2>2. Ground /\ UNCHANGED vars => Ground'
    BY DEF vars, requests, jobs, profileJobs, bounds, Ground, Slots, Apart, Noticed, Dropped, Waits, Live
  <2>. QED
    BY <2>1, <2>2
<1>3. AllStopped => Selected
  BY DEF AllStopped
<1>. QED
  BY <1>1, <1>2, <1>3, AlwaysStopped, PTL DEF Spec

-----------------------------------------------------------------------------
(* Every node that is shown up follows the versions of the profile.  While   *)
(* nothing fails and the profile is there, a node whose xray is behind is    *)
(* taken care of: by a job or a request of its own (Tended), or by a restart *)
(* that is asked for or will still start it (Reached).  A startNode job that *)
(* holds an old version, a restart that holds one, and a node that the       *)
(* restart has started but not written each need a restart to come.          *)

Pending == bulk.pc = "restart" \/ restart.pc \in {"waiting", "select"} \/ again
Behind(n) == agent[n].runs \notin {0, config}
Shown(n) == Startable(n) /\ ~node[n].disabled /\ node[n].connected
Tended(n) ==
    \/ start[n].pc \in {"waiting", "clear", "halt", "flag", "flagged", "failed"}
    \/ start[n].pc = "send" /\ start[n].version = config
    \/ stop[n] # "none"
    \/ req[n].op = "start"
    \/ req[n].op = "row" /\ req[n].enabled
    \/ bulk.pc = "remove" /\ n \in bulk.nodes
Reached(n) ==
    \/ Pending
    \/ restart.pc = "mark" /\ n \in restart.todo \cup restart.bound
    \/ restart.pc = "work" /\ n \in restart.todo \cup restart.down
Late(n) ==
    \/ start[n].pc = "send" /\ start[n].version # config
    \/ start[n].pc = "sent" /\ Behind(n)

ShownFollows(n) == n \notin overlapped /\ Shown(n) /\ Behind(n) => Tended(n) \/ Reached(n)
LateFollows(n) ==
    n \notin overlapped /\ Late(n) => Pending \/ (restart.pc = "mark" /\ n \in restart.bound)
UpFollows(n) ==
    restart.pc = "work" /\ n \in restart.up /\ Behind(n) =>
        Pending \/ (n \in overlapped /\ start[n].pc \notin {"flag", "flagged"})
ReadFollows == restart.pc = "work" /\ restart.version # config => Pending
Follows(n) == ShownFollows(n) /\ LateFollows(n) /\ UpFollows(n)
Calm == mishaps = 0 /\ config # 0
AllFollow == Calm => orphans = {} /\ ReadFollows /\ \A n \in Nodes : Follows(n)

LEMMA PendingFollows ==
    ASSUME Pending'
    PROVE  ReadFollows' /\ \A n : Follows(n)'
BY DEF ReadFollows, Follows, ShownFollows, LateFollows, UpFollows, Reached

(* A node whose start job does not change, and that loses no care.           *)
LEMMA FollowsKept ==
    ASSUME Parts, NEW n \in Nodes, Follows(n), UNCHANGED config,
           Shown(n)' => Shown(n), Tended(n) => Tended(n)', start'[n] = start[n],
           agent'[n].runs \in {0, agent[n].runs},
           n \in overlapped' <=> n \in overlapped,
           Pending => Pending',
           restart.pc = "mark" /\ n \in restart.todo \cup restart.bound =>
                Reached(n)' \/ ~Shown(n)',
           restart.pc = "mark" /\ n \in restart.bound =>
                Pending' \/ (restart'.pc = "mark" /\ n \in restart'.bound) \/ start[n].pc \notin Holding,
           restart.pc = "work" /\ n \in restart.todo \cup restart.down =>
                Reached(n)' \/ ~Shown(n)',
           restart'.pc = "work" /\ n \in restart'.up => restart.pc = "work" /\ n \in restart.up
    PROVE  Follows(n)'
<1>1. Behind(n)' => Behind(n)
  BY DEF Behind
<1>2. Late(n)' => Late(n) /\ start[n].pc \in Holding
  BY <1>1 DEF Late, Holding
<1>3. ShownFollows(n)'
  BY <1>1 DEF Follows, ShownFollows, Reached
<1>4. LateFollows(n)'
  BY <1>2 DEF Follows, LateFollows
<1>5. UpFollows(n)'
  BY <1>1 DEF Follows, UpFollows
<1>. QED
  BY <1>3, <1>4, <1>5 DEF Follows

LEMMA TendedKept ==
    ASSUME NEW n \in Nodes, UNCHANGED config, start'[n] = start[n], Tended(n),
           stop'[n] = stop[n] \/ stop'[n] # "none", req'[n] = req[n],
           bulk' = bulk \/ bulk.pc # "remove"
    PROVE  Tended(n)'
BY DEF Tended

(* A node that a step of a job or a request does not touch.                  *)
LEMMA FollowsUntouched ==
    ASSUME Parts, NEW n \in Nodes, Follows(n), Untouched(n), UNCHANGED <<config, bulk, restart, again>>
    PROVE  Follows(n)'
<1>1. Tended(n) => Tended(n)'
  BY TendedKept DEF Untouched
<1>2. (Pending <=> Pending') /\ (Shown(n)' => Shown(n)) /\ (Reached(n) => Reached(n)')
  BY DEF Pending, Shown, Startable, Untouched, Reached
<1>3. agent'[n].runs = agent[n].runs /\ start'[n] = start[n]
  BY DEF Untouched
<1>. QED
  BY <1>1, <1>2, <1>3, FollowsKept DEF Untouched, Reached

(* What is shown after a write of a row.                                     *)
LEMMA GoneNotShown ==
    ASSUME Parts, NEW n \in Nodes, ~Live(n)
    PROVE  ~Shown(n)
BY DEF Parts, NodesOK, Live, Shown, Startable, Blank

LEMMA PutShown ==
    ASSUME Parts, NEW m \in Nodes, NEW r, Put(m, r)
    PROVE  /\ r.disabled \/ ~r.connected \/ ~r.profile => ~Shown(m)'
           /\ /\ r.profile = node[m].profile /\ r.bound = node[m].bound
              /\ r.disabled = node[m].disabled /\ r.connected = node[m].connected
              => (Shown(m)' => Shown(m))
<1>1. CASE Live(m)
  BY <1>1 DEF Put, Parts, NodesOK, Shown, Startable
<1>2. CASE ~Live(m)
  <2>1. node' = node
    BY <1>2 DEF Put
  <2>. QED
    BY <1>2, <2>1, GoneNotShown DEF Shown, Startable
<1>. QED
  BY <1>1, <1>2

LEMMA SameShown ==
    ASSUME NEW n \in Nodes, node'[n] = node[n]
    PROVE  Shown(n)' <=> Shown(n)
BY DEF Shown, Startable

(* A start job that reads the row finds it connecting only if it is held.    *)
LEMMA FollowsInRead ==
    ASSUME Parts, Ground, Calm, orphans = {}, AllHeld, NEW m \in Nodes, StartRead(m)
    PROVE  Follows(m)'
<1>1. restart.pc \notin {"mark", "work"} /\ restart' = restart
  BY DEF StartRead, Ground, Waits, Calm, StartVars, profileJobs
<1>2. start'[m] = IF ~Live(m) \/ node[m].connecting THEN NoJob
                  ELSE Job(IF Startable(m) THEN "flag" ELSE "clear", 0)
  BY DEF StartRead, Parts, StartsOK
<1>3. start'[m].pc \in {"none", "flag", "clear"} /\ (start'[m].pc = "none" => start'[m] = NoJob)
  BY <1>2 DEF NoJob, Job
<1>4. ~node[m].connecting
  <2>1. start[m].pc = "waiting"
    BY DEF StartRead
  <2>. QED
    BY <1>1, <2>1 DEF AllHeld, Held, ByRestart, Flagged
<1>5. start'[m].pc = "none" => ~Shown(m)'
  <2>1. start'[m].pc = "none" => ~Live(m)
    BY <1>2, <1>4 DEF Job
  <2>. QED
    BY <2>1, GoneNotShown, SameShown DEF StartRead
<1>6. ShownFollows(m)'
  BY <1>3, <1>5 DEF ShownFollows, Tended
<1>7. LateFollows(m)' /\ UpFollows(m)'
  BY <1>1, <1>3 DEF LateFollows, Late, UpFollows
<1>. QED
  BY <1>6, <1>7 DEF Follows

LEMMA FollowsInFlag ==
    ASSUME Parts, NEW m \in Nodes, Follows(m), StartClear(m) \/ StartHalt(m) \/ StartFlag(m)
    PROVE  Follows(m)'
<1>1. /\ UNCHANGED <<config, bulk, restart, again, agent, overlapped>>
      /\ Pending => Pending'
  BY DEF StartClear, StartHalt, StartFlag, StartVars, requests, profileJobs, history, Pending
<1>2. /\ start'[m].pc \in {"halt", "flagged", "none"}
      /\ start'[m].pc = "none" => stop'[m] # "none"
      /\ start'[m].pc # "flagged" => start[m].pc \in {"clear", "halt"}
      /\ start'[m].pc = "flagged" => start[m].pc = "flag"
  <2>1. CASE StartClear(m)
    <3>1. start'[m] = Job("halt", 0) /\ start[m].pc = "clear"
      BY <2>1, StartOf DEF StartClear
    <3>. QED
      BY <3>1 DEF Job
  <2>2. CASE StartHalt(m)
    <3>1. start'[m] = NoJob /\ start[m].pc = "halt"
      BY <2>2, StartOf DEF StartHalt
    <3>2. stop'[m] # "none"
      BY <2>2 DEF StartHalt, QueueStop, Parts, StopsOK
    <3>. QED
      BY <3>1, <3>2 DEF NoJob, Job
  <2>3. CASE StartFlag(m)
    <3>1. start'[m] = Job("flagged", 0) /\ start[m].pc = "flag"
      BY <2>3, StartOf DEF StartFlag
    <3>. QED
      BY <3>1 DEF Job
  <2>. QED
    BY <2>1, <2>2, <2>3
<1>3. ShownFollows(m)'
  BY <1>2 DEF ShownFollows, Tended
<1>4. LateFollows(m)' /\ UpFollows(m)'
  BY <1>1, <1>2 DEF LateFollows, Late, UpFollows, Follows, Behind
<1>. QED
  BY <1>3, <1>4 DEF Follows

LEMMA FollowsInPrepare ==
    ASSUME Parts, Calm, mishaps' = 0, NEW m \in Nodes, Follows(m), StartPrepare(m)
    PROVE  Follows(m)' /\ UNCHANGED orphans
<1>1. /\ UNCHANGED <<config, bulk, restart, again, agent>>
      /\ Pending => Pending'
  BY DEF StartPrepare, StartVars, requests, profileJobs, Pending
<1>2. /\ \/ start'[m] = Job("send", config) /\ m \notin overlapped'
         \/ start'[m] = Job("failed", 0) /\ overlapped' = overlapped
      /\ UNCHANGED orphans
      /\ start[m].pc = "flagged"
  <2>1. mishaps' # mishaps + 1 /\ config # 0
    BY DEF Calm
  <2>. QED
    BY <2>1, StartOf DEF StartPrepare, Mishap
<1>3. \/ start'[m].pc = "send" /\ start'[m].version = config' /\ m \notin overlapped'
      \/ start'[m].pc = "failed" /\ overlapped' = overlapped
  BY <1>1, <1>2 DEF Job
<1>4. ShownFollows(m)'
  BY <1>3 DEF ShownFollows, Tended
<1>5. LateFollows(m)' /\ UpFollows(m)'
  BY <1>1, <1>2, <1>3 DEF LateFollows, Late, UpFollows, Follows, Behind
<1>. QED
  BY <1>2, <1>4, <1>5 DEF Follows

LEMMA FollowsInSend ==
    ASSUME Parts, Calm, mishaps' = 0, NEW m \in Nodes, Follows(m), StartSend(m)
    PROVE  Follows(m)'
<1>1. /\ UNCHANGED <<config, bulk, restart, again, node, overlapped>>
      /\ Pending => Pending'
  BY DEF StartSend, StartVars, requests, profileJobs, Pending, history
<1>2. /\ \/ start'[m] = Job("sent", 0) /\ agent'[m].runs = start[m].version
         \/ start'[m] = Job("failed", 0) /\ agent' = agent
      /\ start[m].pc = "send"
  <2>1. mishaps' # mishaps + 1
    BY DEF Calm
  <2>. QED
    BY <2>1, StartOf DEF StartSend, Mishap, Runs, Parts, AgentsOK
<1>3. CASE start'[m] = Job("sent", 0) /\ agent'[m].runs = start[m].version
  <2>1. start'[m].pc = "sent"
    BY <1>3 DEF Job
  <2>2. Behind(m)' => Late(m)
    BY <1>1, <1>2, <1>3 DEF Behind, Late
  <2>3. m \notin overlapped /\ Behind(m)' => Pending \/ (restart.pc = "mark" /\ m \in restart.bound)
    BY <2>2 DEF Follows, LateFollows
  <2>4. m \notin overlapped' /\ Behind(m)' => Pending' \/ (restart'.pc = "mark" /\ m \in restart'.bound)
    BY <1>1, <2>3
  <2>5. ShownFollows(m)' /\ LateFollows(m)'
    BY <2>1, <2>4 DEF ShownFollows, LateFollows, Reached, Late
  <2>6. UpFollows(m)'
    BY <2>1, <2>4 DEF UpFollows
  <2>. QED
    BY <2>5, <2>6 DEF Follows
<1>4. CASE start'[m] = Job("failed", 0) /\ agent' = agent
  <2>1. start'[m].pc = "failed"
    BY <1>4 DEF Job
  <2>. QED
    BY <1>1, <1>2, <1>4, <2>1 DEF Follows, ShownFollows, LateFollows, UpFollows, Tended, Late, Behind
<1>. QED
  BY <1>2, <1>3, <1>4

LEMMA FollowsInFinish ==
    ASSUME Parts, NEW m \in Nodes, Follows(m), StartFinish(m)
    PROVE  Follows(m)'
<1>1. /\ UNCHANGED <<config, bulk, restart, again, agent, overlapped>>
      /\ Pending => Pending'
  BY DEF StartFinish, StartVars, requests, profileJobs, Pending, history
<1>2. start'[m].pc = "none" /\ start[m].pc \in {"sent", "failed"}
  <2>1. start'[m] = NoJob /\ start[m].pc \in {"sent", "failed"}
    BY StartOf DEF StartFinish
  <2>. QED
    BY <2>1 DEF NoJob, Job
<1>3. start[m].pc = "failed" => ~Shown(m)'
  <2>1. ~Down(node[m]).connected
    BY RowType, RowParts
  <2>. QED
    BY <2>1, PutShown DEF StartFinish
<1>4. Behind(m)' /\ start[m].pc = "sent" => Late(m)
  BY <1>1 DEF Behind, Late
<1>5. ShownFollows(m)'
  BY <1>1, <1>2, <1>3, <1>4 DEF Follows, ShownFollows, LateFollows, Reached
<1>6. LateFollows(m)' /\ UpFollows(m)'
  BY <1>1, <1>2 DEF Follows, LateFollows, UpFollows, Late, Behind
<1>. QED
  BY <1>5, <1>6 DEF Follows

(* Steps of a node that leave its start job as it is, or queue one.          *)
LEMMA FollowsByNode ==
    ASSUME Parts, Slots, NEW m \in Nodes, Follows(m), UNCHANGED <<config, bulk, restart, again, overlapped>>,
           start'[m] = start[m] \/ QueueStart(m), agent'[m].runs \in {0, agent[m].runs},
           ~Shown(m)' \/ start'[m].pc # "none" \/ Tended(m)' \/ (Shown(m) /\ (Tended(m) => Tended(m)'))
    PROVE  Follows(m)'
<1>1. Behind(m)' => Behind(m)
  BY DEF Behind
<1>2. (Pending <=> Pending') /\ (Reached(m) <=> Reached(m)')
  BY DEF Pending, Reached
<1>3. \/ start'[m] = start[m]
      \/ start'[m] = Job("waiting", 0) /\ start[m].pc = "none"
  <2>1. QueueStart(m) => start'[m] = start[m] \/ (start'[m] = Job("waiting", 0) /\ start[m] = NoJob)
    BY DEF QueueStart, Parts, StartsOK
  <2>2. NoJob.pc = "none"
    BY DEF NoJob, Job
  <2>. QED
    BY <2>1, <2>2
<1>4. Job("waiting", 0).pc = "waiting"
  BY DEF Job
<1>5. Late(m)' => Late(m)
  BY <1>1, <1>3, <1>4 DEF Late
<1>6. start'[m].pc # "none" /\ Behind(m)' => Tended(m)' \/ Late(m)
  <2>1. CASE start'[m] = Job("waiting", 0)
    BY <1>4, <2>1 DEF Tended
  <2>2. CASE start'[m] = start[m]
    <3>1. start[m] \in StartJob
      BY DEF Parts, StartsOK
    <3>. QED
      BY <1>1, <2>2, <3>1 DEF Tended, Late, StartJob
  <2>. QED
    BY <1>3, <2>1, <2>2
<1>7. m \notin overlapped /\ Late(m) => Reached(m)
  BY DEF Follows, LateFollows, Reached
<1>8. ShownFollows(m)'
  BY <1>1, <1>2, <1>6, <1>7 DEF Follows, ShownFollows
<1>9. LateFollows(m)'
  BY <1>2, <1>5 DEF Follows, LateFollows
<1>10. UpFollows(m)'
  <2>1. start[m].pc \in {"flag", "flagged"} => start'[m] = start[m]
    BY <1>3
  <2>2. start[m].pc \notin {"flag", "flagged"} => start'[m].pc \notin {"flag", "flagged"}
    BY <1>3, <1>4
  <2>. QED
    BY <1>1, <1>2, <2>1, <2>2 DEF Follows, UpFollows
<1>. QED
  BY <1>8, <1>9, <1>10 DEF Follows

LEMMA FollowsInStop ==
    ASSUME Parts, Ground, Calm, mishaps' = 0, NEW m \in Nodes, Follows(m), StopStep(m)
    PROVE  Follows(m)'
<1>0. UNCHANGED <<config, bulk, restart, again, overlapped, start, req>> /\ Slots
  BY DEF StopStep, StopXray, StopWrite, DeleteRow, StopVars, requests, profileJobs, history, Ground
<1>1. ~Mishap
  BY DEF Mishap, Calm
<1>2. CASE StopXray(m)
  <2>1. agent'[m].runs \in {0, agent[m].runs}
    BY <1>2 DEF StopXray, Runs, Parts, AgentsOK
  <2>2. ~Shown(m)' \/ Tended(m)'
    <3>1. CASE Live(m)
      <4>1. stop'[m] = "stopped"
        BY <1>2, <3>1 DEF StopXray, Parts, StopsOK
      <4>. QED
        BY <4>1 DEF Tended
    <3>2. CASE ~Live(m)
      BY <1>2, <3>2, GoneNotShown, SameShown DEF StopXray
    <3>. QED
      BY <3>1, <3>2
  <2>. QED
    BY <1>0, <2>1, <2>2, FollowsByNode
<1>3. CASE StopWrite(m)
  <2>1. Off(node[m]).disabled
    BY RowType, RowParts
  <2>2. ~Shown(m)' /\ agent' = agent
    BY <1>3, <2>1, PutShown DEF StopWrite
  <2>. QED
    BY <1>0, <2>2, FollowsByNode
<1>4. CASE DeleteRow(m)
  <2>1. ~Live(m)'
    <3>1. Blank("gone").row # "live"
      BY DEF Blank
    <3>. QED
      BY <1>1, <1>4, <3>1 DEF DeleteRow, Live, Parts, NodesOK
  <2>2. ~Shown(m)' /\ agent' = agent
    <3>1. node'[m] = node[m] \/ node'[m] = Blank("gone")
      BY <1>4 DEF DeleteRow, Parts, NodesOK
    <3>2. CASE node'[m] = node[m]
      BY <1>4, <2>1, <3>2, GoneNotShown, SameShown DEF DeleteRow, Live
    <3>3. CASE node'[m] = Blank("gone")
      BY <1>4, <3>3 DEF DeleteRow, Shown, Startable, Blank
    <3>. QED
      BY <3>1, <3>2, <3>3
  <2>. QED
    BY <1>0, <2>2, FollowsByNode
<1>. QED
  BY <1>2, <1>3, <1>4 DEF StopStep

LEMMA FollowsInCheck ==
    ASSUME Parts, Ground, NEW m \in Nodes, Follows(m), CheckStep(m)
    PROVE  Follows(m)'
<1>0. UNCHANGED <<config, bulk, restart, again, overlapped, req, stop, agent>> /\ Slots
  BY DEF CheckStep, CheckProbe, CheckWrite, CheckVars, requests, profileJobs, history, Ground
<1>1. CASE CheckProbe(m)
  <2>1. UNCHANGED <<node, start>>
    BY <1>1 DEF CheckProbe
  <2>2. (Shown(m)' <=> Shown(m)) /\ (Tended(m) => Tended(m)')
    BY <1>0, <2>1, SameShown DEF Tended
  <2>. QED
    BY <1>0, <2>1, <2>2, FollowsByNode
<1>2. CASE CheckWrite(m)
  <2>1. CASE Live(m) /\ check[m].pc = "alive"
    <3>1. QueueStart(m)
      BY <1>2, <2>1 DEF CheckWrite
    <3>2. start'[m].pc # "none"
      BY <1>0, <3>1, SlotQueued
    <3>. QED
      BY <1>0, <3>1, <3>2, FollowsByNode
  <2>2. CASE ~(Live(m) /\ check[m].pc = "alive")
    <3>1. ~Shown(m)'
      <4>1. CASE check[m].pc = "alive"
        <5>1. node'[m] = node[m] /\ ~Live(m)
          BY <1>2, <2>2, <4>1 DEF CheckWrite, Put
        <5>. QED
          BY <5>1, GoneNotShown, SameShown
      <4>2. CASE check[m].pc # "alive"
        <5>1. Put(m, [node[m] EXCEPT !.connected = FALSE])
          BY <1>2, <4>2 DEF CheckWrite
        <5>2. ~[node[m] EXCEPT !.connected = FALSE].connected
          BY RowType DEF Row
        <5>. QED
          BY <5>1, <5>2, PutShown
      <4>. QED
        BY <4>1, <4>2
    <3>2. start'[m] = start[m] \/ QueueStart(m)
      BY <1>2 DEF CheckWrite
    <3>. QED
      BY <1>0, <3>1, <3>2, FollowsByNode
  <2>. QED
    BY <2>1, <2>2
<1>. QED
  BY <1>1, <1>2 DEF CheckStep

LEMMA FollowsInAgent ==
    ASSUME Parts, Ground, NEW m \in Nodes, Follows(m), AgentGone(m) \/ AgentBack(m) \/ XrayDies(m)
    PROVE  Follows(m)'
<1>1. agent'[m].runs \in {0, agent[m].runs}
  BY DEF AgentGone, AgentBack, XrayDies, Runs, Parts, AgentsOK
<1>2. UNCHANGED <<config, bulk, restart, again, overlapped, start, req, stop, node>> /\ Slots
  BY DEF AgentGone, AgentBack, XrayDies, AgentVars, requests, jobs, profileJobs, history, Ground
<1>3. (Shown(m)' <=> Shown(m)) /\ (Tended(m) => Tended(m)')
  BY <1>2, SameShown DEF Tended
<1>. QED
  BY <1>1, <1>2, <1>3, FollowsByNode

LEMMA FollowsInRequest ==
    ASSUME Parts, Ground, Calm, mishaps' = 0, NEW m \in Nodes, Follows(m),
           \/ RequestStep(m) \/ CreateNode(m) \/ RestartNode(m) \/ DeleteNode(m)
           \/ UpdateNode(m) \/ EnableNode(m) \/ DisableNode(m)
    PROVE  Follows(m)'
<1>0. /\ UNCHANGED <<config, bulk, restart, again, overlapped, agent>> /\ Slots
      /\ agent'[m].runs \in {0, agent[m].runs}
  BY DEF RequestStep, WriteNode, QueueJob, RequestFails, CreateNode, RestartNode, DeleteNode, UpdateNode,
     EnableNode, DisableNode, Call, RequestVars, requests, profileJobs, history, Ground
<1>1. node[m] \in Row
  BY RowType
<1>2. Idle.op = "none"
  BY DEF Idle
<1>3. CASE CreateNode(m)
  <2>1. ~Shown(m)'
    BY <1>3 DEF CreateNode, Shown, Startable, Blank, Parts, NodesOK
  <2>2. start' = start
    BY <1>3 DEF CreateNode
  <2>. QED
    BY <1>0, <2>1, <2>2, FollowsByNode
<1>4. CASE RestartNode(m)
  <2>1. Tended(m)' /\ start' = start
    BY <1>4, RequestOf DEF RestartNode, Tended
  <2>. QED
    BY <1>0, <2>1, FollowsByNode
<1>5. CASE DeleteNode(m) \/ UpdateNode(m) \/ EnableNode(m)
  <2>1. /\ UNCHANGED <<node, start, stop>>
        /\ req' = req \/ req[m].op = "none"
    BY <1>5 DEF DeleteNode, UpdateNode, EnableNode
  <2>2. (Shown(m)' <=> Shown(m)) /\ (Tended(m) => Tended(m)')
    BY <1>0, <2>1, SameShown DEF Tended
  <2>. QED
    BY <1>0, <2>1, <2>2, FollowsByNode
<1>6. CASE DisableNode(m)
  <2>1. node'[m] \in {Off(node[m]), Cleared(node[m])}
    BY <1>6 DEF DisableNode, Parts, NodesOK
  <2>2. ~Shown(m)' /\ start' = start
    BY <1>1, <1>6, <2>1, RowParts DEF DisableNode, Shown
  <2>. QED
    BY <1>0, <2>2, FollowsByNode
<1>7. CASE WriteNode(m)
  <2>0. UNCHANGED <<start, stop>>
    BY <1>7 DEF WriteNode
  <2>1. CASE req[m].op \in {"bind", "enable"}
    BY <1>0, <1>7, <2>0, <2>1, RequestOf, FollowsByNode DEF WriteNode, Tended
  <2>2. CASE req[m].op = "remove"
    <3>1. ~Shown(m)'
      BY <1>1, <1>7, <2>2 DEF WriteNode, Shown, Startable, Parts, NodesOK, Row
    <3>. QED
      BY <1>0, <2>0, <3>1, FollowsByNode
  <2>3. CASE req[m].op = "add"
    <3>1. req'[m].op = "row" /\ req'[m].enabled = req[m].enabled /\ Live(m)
      BY <1>7, <2>3, RequestOf DEF WriteNode
    <3>2. CASE req[m].enabled
      BY <1>0, <2>0, <3>1, <3>2, FollowsByNode DEF Tended
    <3>3. CASE ~req[m].enabled
      <4>1. node[m].disabled
        BY <2>3, <3>1, <3>3 DEF Ground, Noticed
      <4>2. node'[m].disabled
        BY <1>1, <1>7, <2>3, <4>1 DEF WriteNode, Parts, NodesOK, Row
      <4>. QED
        BY <1>0, <2>0, <4>2, FollowsByNode DEF Shown
    <3>. QED
      BY <3>2, <3>3
  <2>4. CASE req[m].op \in {"row", "keep"}
    <3>1. CASE req[m].enabled
      <4>1. req'[m].op = "start"
        BY <1>7, <2>4, <3>1, RequestOf DEF WriteNode
      <4>. QED
        BY <1>0, <2>0, <4>1, FollowsByNode DEF Tended
    <3>2. CASE ~req[m].enabled
      <4>1. node[m].disabled
        BY <1>7, <2>4, <3>2 DEF WriteNode, Ground, Noticed
      <4>2. node'[m].disabled
        BY <1>1, <1>7, <2>4, <4>1 DEF WriteNode, Parts, NodesOK, Row
      <4>. QED
        BY <1>0, <2>0, <4>2, FollowsByNode DEF Shown
    <3>. QED
      BY <3>1, <3>2
  <2>5. CASE req[m].op = "clear"
    <3>1. node'[m] = Cleared(node[m])
      BY <1>7, <2>5 DEF WriteNode, Parts, NodesOK
    <3>2. ~Shown(m)'
      BY <1>1, <3>1, RowParts DEF Shown
    <3>. QED
      BY <1>0, <2>0, <3>2, FollowsByNode
  <2>. QED
    BY <1>7, <2>1, <2>2, <2>3, <2>4, <2>5 DEF WriteNode
<1>8. CASE QueueJob(m)
  <2>1. CASE req[m].op = "start"
    <3>1. QueueStart(m)
      BY <1>8, <2>1 DEF QueueJob
    <3>2. start'[m].pc # "none"
      BY <1>0, <3>1, SlotQueued
    <3>. QED
      BY <1>0, <3>1, <3>2, FollowsByNode
  <2>2. CASE req[m].op = "stop"
    <3>1. QueueStop(m) /\ start' = start
      BY <1>8, <2>2 DEF QueueJob
    <3>2. Tended(m)'
      BY <3>1 DEF QueueStop, Parts, StopsOK, Tended
    <3>. QED
      BY <1>0, <3>1, <3>2, FollowsByNode
  <2>. QED
    BY <1>8, <2>1, <2>2 DEF QueueJob
<1>9. CASE RequestFails(m)
  <2>1. UNCHANGED <<node, start, stop>> /\ ~Mishap
    BY <1>9 DEF RequestFails, jobs, Mishap, Calm
  <2>2. req[m].op \in {"bind", "add"} \/ ~Live(m)
    BY <1>9, <2>1 DEF RequestFails, Calm
  <2>3. (Shown(m)' <=> Shown(m)) /\ (~Shown(m) \/ (Tended(m) => Tended(m)'))
    BY <1>0, <2>1, <2>2, SameShown, GoneNotShown DEF Tended
  <2>. QED
    BY <1>0, <2>1, <2>3, FollowsByNode
<1>. QED
  BY <1>3, <1>4, <1>5, <1>6, <1>7, <1>8, <1>9 DEF RequestStep

LEMMA FollowInNode ==
    ASSUME Parts, Ground, AllHeld, AllFollow, NEW m \in Nodes, OfNode(m)
    PROVE  AllFollow'
<1>1. SUFFICES ASSUME Calm'
               PROVE  (orphans = {} /\ ReadFollows /\ \A n \in Nodes : Follows(n))'
  BY DEF AllFollow
<1>2. UNCHANGED <<config, bulk, restart, paused, all, again>>
  BY OfNodeFrame
<1>3. mishaps' = 0 /\ ~Mishap /\ Calm
  BY <1>1, <1>2, NodeFaults, NoMishap DEF Calm
<1>4. orphans = {} /\ ReadFollows /\ \A n \in Nodes : Follows(n)
  BY <1>3 DEF AllFollow
<1>5. ASSUME NEW n \in Nodes \ {m}
      PROVE  Follows(n)'
  <2>1. Untouched(n)
    BY <1>5, OthersUntouched
  <2>. QED
    BY <1>2, <1>4, <2>1, FollowsUntouched
<1>6. ReadFollows'
  BY <1>2, <1>4 DEF ReadFollows, Pending
<1>7. Follows(m)' /\ orphans' = {}
  <2>1. CASE StartStep(m) \/ StartCrash(m)
    <3>1. StartStep(m)
      BY <1>3, <2>1 DEF StartCrash
    <3>2. ~StartPrepare(m) => orphans' = orphans
      BY <3>1 DEF StartStep, StartRead, StartClear, StartHalt, StartFlag, StartSend, StartFinish, history
    <3>. QED
      BY <1>3, <1>4, <3>1, <3>2, FollowsInRead, FollowsInFlag, FollowsInPrepare, FollowsInSend,
         FollowsInFinish DEF StartStep
  <2>2. CASE StopStep(m) \/ StopCrash(m)
    <3>1. StopStep(m)
      BY <1>3, <2>2 DEF StopCrash
    <3>2. orphans' = orphans
      BY <3>1 DEF StopStep, StopXray, StopWrite, DeleteRow, history
    <3>. QED
      BY <1>3, <1>4, <3>1, <3>2, FollowsInStop
  <2>3. CASE CheckStep(m) \/ CheckCrash(m)
    <3>1. CheckStep(m)
      BY <1>3, <2>3 DEF CheckCrash
    <3>2. orphans' = orphans
      BY <3>1 DEF CheckStep, CheckProbe, CheckWrite, history
    <3>. QED
      BY <1>3, <1>4, <3>1, <3>2, FollowsInCheck
  <2>4. CASE \/ RequestStep(m) \/ CreateNode(m) \/ RestartNode(m) \/ DeleteNode(m)
             \/ UpdateNode(m) \/ EnableNode(m) \/ DisableNode(m)
    <3>1. orphans' = orphans
      BY <2>4 DEF RequestStep, WriteNode, QueueJob, RequestFails, CreateNode, RestartNode, DeleteNode,
         UpdateNode, EnableNode, DisableNode, history
    <3>. QED
      BY <1>3, <1>4, <2>4, <3>1, FollowsInRequest
  <2>5. CASE AgentGone(m) \/ AgentBack(m) \/ XrayDies(m)
    <3>1. orphans' = orphans
      BY <2>5 DEF AgentGone, AgentBack, XrayDies, AgentVars, history
    <3>. QED
      BY <1>4, <2>5, <3>1, FollowsInAgent
  <2>. QED
    BY <2>1, <2>2, <2>3, <2>4, <2>5 DEF OfNode
<1>. QED
  BY <1>4, <1>5, <1>6, <1>7

(* The restart takes the nodes it selects; the others must hold no version.  *)
LEMMA FollowsInSelect ==
    ASSUME Parts, NEW n \in Nodes, RestartSelect
    PROVE  Follows(n)' /\ ReadFollows'
<1>1. /\ restart'.pc = "mark" /\ restart'.todo = restart'.nodes
      /\ restart'.nodes = {k \in Nodes : Live(k) /\ ~node[k].disabled /\ node[k].profile}
      /\ restart'.bound = {k \in restart'.nodes : node[k].bound}
  BY SelectShape
<1>2. UNCHANGED <<node, start, agent, config>>
  BY DEF RestartSelect, NodeVars, RestartVars
<1>3. start[n].pc \in Holding /\ n \notin restart'.bound => n \in overlapped'
  BY <1>1 DEF RestartSelect
<1>4. Shown(n)' => n \in restart'.bound
  BY <1>1, <1>2, GoneNotShown DEF Shown, Startable
<1>5. Late(n)' => start[n].pc \in Holding
  BY <1>2 DEF Late, Holding
<1>. QED
  BY <1>1, <1>3, <1>4, <1>5 DEF Follows, ReadFollows, ShownFollows, LateFollows, UpFollows, Reached

(* It reads the configuration for the nodes that it has not passed by.       *)
LEMMA FollowsInRestartRead ==
    ASSUME Parts, Selected, Calm, NEW n \in Nodes, Follows(n), RestartRead
    PROVE  Follows(n)' /\ ReadFollows' /\ orphans' \subseteq orphans
<1>1. UNCHANGED <<node, start, agent, stop, req, bulk, config, again>>
  BY DEF RestartRead, NodeVars, RestartVars, requests
<1>2. restart.pc = "mark" /\ restart.todo = {} /\ restart.up = {} /\ restart.down = {}
  BY ReadShape DEF Selected
<1>3. /\ (Shown(n)' => Shown(n)) /\ (Tended(n) => Tended(n)') /\ (Behind(n)' => Behind(n))
      /\ (Late(n)' => Late(n) /\ start[n].pc \in Holding)
  BY <1>1 DEF Shown, Startable, Tended, Behind, Late, Holding
<1>4. Pending => Pending'
  BY <1>1, <1>2 DEF Pending
<1>5. overlapped' = overlapped \cup {k \in restart.bound : start[k].pc \in Holding}
  BY DEF RestartRead
<1>6. CASE restart.bound # {}
  <2>1. /\ restart'.pc = "work" /\ restart'.todo = restart.nodes /\ restart'.up = {}
        /\ restart'.version = config
    BY <1>2, <1>6, ReadShape DEF Calm
  <2>2. n \in restart.bound => n \in restart'.todo
    BY <2>1 DEF Parts, RestartOK
  <2>3. orphans' = orphans
    BY <1>6 DEF RestartRead, Calm
  <2>4. ShownFollows(n)'
    BY <1>2, <1>3, <1>4, <1>5, <2>1, <2>2 DEF Follows, ShownFollows, Reached
  <2>5. LateFollows(n)'
    BY <1>3, <1>4, <1>5 DEF Follows, LateFollows
  <2>. QED
    BY <1>1, <2>1, <2>3, <2>4, <2>5 DEF Follows, UpFollows, ReadFollows
<1>7. CASE restart.bound = {}
  <2>1. restart' = [NoRestart EXCEPT !.pc = "resume"] /\ orphans' = orphans
    BY <1>7, ReadShape DEF RestartRead, Calm
  <2>2. restart'.pc = "resume"
    BY <2>1 DEF NoRestart
  <2>3. ShownFollows(n)' /\ LateFollows(n)'
    BY <1>2, <1>3, <1>4, <1>5, <1>7 DEF Follows, ShownFollows, LateFollows, Reached
  <2>. QED
    BY <2>1, <2>2, <2>3 DEF Follows, UpFollows, ReadFollows
<1>. QED
  BY <1>6, <1>7

LEMMA FollowsInResume ==
    ASSUME Parts, NEW n \in Nodes, Follows(n), RestartResume
    PROVE  Follows(n)' /\ ReadFollows'
<1>1. UNCHANGED <<node, start, agent, stop, req, bulk, config, again, overlapped>>
  BY DEF RestartResume, NodeVars, RestartVars, requests, history
<1>2. restart'.pc = "none"
  BY DEF RestartResume, NoRestart
<1>3. (Shown(n)' => Shown(n)) /\ (Tended(n) => Tended(n)') /\ (Pending => Pending')
  BY <1>1 DEF Shown, Startable, Tended, Pending, RestartResume
<1>4. ~(restart.pc = "work" /\ n \in restart.todo \cup restart.down) /\ restart.pc # "mark"
  BY DEF RestartResume
<1>5. Follows(n)'
  BY <1>1, <1>2, <1>3, <1>4, FollowsKept
<1>. QED
  BY <1>2, <1>5 DEF ReadFollows

(* A node that the restart marks, starts or writes.                          *)
LEMMA FollowsInMark ==
    ASSUME Parts, NEW m \in Nodes, Follows(m), RestartMark(m) \/ RestartHalt(m)
    PROVE  Follows(m)'
<1>1. UNCHANGED <<start, agent, req, bulk, config, again, overlapped>>
  BY DEF RestartMark, RestartHalt, NodeVars, RestartVars, requests, history
<1>2. restart.pc = "mark" /\ restart'.pc = "mark" /\ restart'.bound = restart.bound
  BY MarkShape, HaltShape
<1>3. Tended(m) => Tended(m)'
  <2>1. stop'[m] = stop[m] \/ stop'[m] # "none"
    BY DEF RestartMark, RestartHalt, QueueStop, Parts, StopsOK
  <2>. QED
    BY <1>1, <2>1, TendedKept
<1>4. /\ Shown(m)' => Shown(m)
      /\ m \in restart.todo \cup restart.bound => m \in restart'.todo \cup restart'.bound \/ ~Shown(m)'
  <2>1. CASE RestartHalt(m)
    BY <2>1, HaltShape, SameShown DEF RestartHalt
  <2>2. CASE RestartMark(m) /\ m \in restart.bound
    <3>1. Put(m, Connecting(node[m]))
      BY <2>2 DEF RestartMark
    <3>2. Shown(m)' => Shown(m)
      BY <3>1, RowType, RowParts, PutShown
    <3>. QED
      BY <1>2, <2>2, <3>2
  <2>3. CASE RestartMark(m) /\ m \notin restart.bound
    <3>1. Put(m, Cleared(node[m]))
      BY <2>3 DEF RestartMark
    <3>2. ~Shown(m)'
      BY <3>1, RowType, RowParts, PutShown
    <3>. QED
      BY <3>2
  <2>. QED
    BY <2>1, <2>2, <2>3
<1>5. Pending => Pending'
  BY <1>1, <1>2 DEF Pending
<1>. QED
  BY <1>1, <1>2, <1>3, <1>4, <1>5, FollowsKept DEF Reached

LEMMA FollowsInRestartSend ==
    ASSUME Parts, Calm, mishaps' = 0, ReadFollows, NEW m \in Nodes, Follows(m), RestartSend(m)
    PROVE  Follows(m)'
<1>1. UNCHANGED <<node, start, stop, req, bulk, config, again, overlapped>>
  BY DEF RestartSend, RestartVars, requests, history
<1>2. ~Mishap
  BY DEF Mishap, Calm
<1>3. /\ restart.pc = "work" /\ restart'.pc = "work" /\ restart'.todo = restart.todo \ {m}
      /\ m \in restart.todo
  BY SendShape
<1>4. (Shown(m)' => Shown(m)) /\ (Tended(m) => Tended(m)') /\ (Pending <=> Pending')
  BY <1>1, <1>3, SameShown DEF Tended, Pending
<1>5. CASE restart'.up = restart.up \cup {m} /\ Runs(m, restart.version)
  <2>1. agent'[m].runs = restart.version
    BY <1>5 DEF Runs, Parts, AgentsOK
  <2>2. Behind(m)' => Pending'
    BY <1>1, <1>3, <1>4, <2>1 DEF Behind, ReadFollows
  <2>3. Late(m)' => Late(m) \/ Pending'
    BY <1>1, <2>2 DEF Late
  <2>. QED
    BY <1>1, <1>3, <1>4, <2>2, <2>3 DEF Follows, ShownFollows, LateFollows, UpFollows, Reached
<1>6. CASE restart'.up = restart.up /\ restart'.down = restart.down \cup {m} /\ UNCHANGED agent
  <2>1. Reached(m)'
    BY <1>3, <1>6 DEF Reached
  <2>2. agent'[m].runs \in {0, agent[m].runs}
    BY <1>6
  <2>. QED
    BY <1>1, <1>3, <1>4, <1>6, <2>1, <2>2, FollowsKept
<1>. QED
  BY <1>2, <1>5, <1>6, SendShape

LEMMA FollowsInRestartWrite ==
    ASSUME Parts, NEW m \in Nodes, Follows(m), RestartWrite(m)
    PROVE  Follows(m)'
<1>1. UNCHANGED <<start, stop, agent, req, bulk, config, again, overlapped>>
  BY DEF RestartWrite, RestartVars, requests, history
<1>2. /\ restart.pc = "work" /\ restart'.pc = "work" /\ restart'.todo = restart.todo
      /\ restart'.up = restart.up \ {m} /\ restart'.down = restart.down \ {m}
  BY WriteShape
<1>3. Pending <=> Pending'
  BY <1>1, <1>2 DEF Pending
<1>4. CASE m \in restart.up
  <2>1. (Behind(m)' => Behind(m)) /\ (Late(m)' => Late(m))
    BY <1>1 DEF Behind, Late
  <2>2. m \notin overlapped /\ Behind(m) => Pending
    BY <1>2, <1>4 DEF Follows, UpFollows
  <2>. QED
    BY <1>1, <1>2, <1>3, <2>1, <2>2 DEF Follows, ShownFollows, LateFollows, UpFollows, Reached
<1>5. CASE m \notin restart.up
  <2>1. Put(m, Down(node[m])) /\ ~Down(node[m]).connected
    BY <1>5, RowType, RowParts DEF RestartWrite
  <2>2. ~Shown(m)'
    BY <2>1, PutShown
  <2>3. Late(m)' => Late(m)
    BY <1>1 DEF Behind, Late
  <2>. QED
    BY <1>1, <1>2, <1>3, <2>2, <2>3 DEF Follows, ShownFollows, LateFollows, UpFollows
<1>. QED
  BY <1>4, <1>5

LEMMA FollowInRestart ==
    ASSUME Parts, Ground, Selected, AllFollow, RestartStep \/ RestartCrash \/ \E n \in Nodes : RestartSkip(n)
    PROVE  AllFollow'
<1>1. SUFFICES ASSUME Calm'
               PROVE  (orphans = {} /\ ReadFollows /\ \A n \in Nodes : Follows(n))'
  BY DEF AllFollow
<1>2. CASE RestartPause \/ RestartSelect \/ RestartRead \/ RestartResume \/ RestartCrash
  <2>1. UNCHANGED config /\ (Mishap \/ UNCHANGED bounds)
    BY <1>2 DEF RestartPause, RestartSelect, RestartRead, RestartResume, RestartCrash, NodeVars,
       RestartVars
  <2>2. Calm /\ ~Mishap
    BY <1>1, <2>1, NoMishap DEF Calm
  <2>3. orphans = {} /\ ReadFollows /\ \A n \in Nodes : Follows(n)
    BY <2>2 DEF AllFollow
  <2>4. CASE RestartPause
    <3>1. Pending' /\ orphans' = orphans
      BY <2>4, PauseShape DEF RestartPause, Pending, history
    <3>. QED
      BY <2>3, <3>1, PendingFollows
  <2>5. CASE RestartSelect
    <3>1. orphans' = orphans
      BY <2>5 DEF RestartSelect
    <3>2. ReadFollows'
      BY <2>5, SelectShape DEF ReadFollows
    <3>. QED
      BY <2>3, <2>5, <3>1, <3>2, FollowsInSelect
  <2>6. CASE RestartRead
    <3>1. orphans' \subseteq orphans /\ ReadFollows'
      <4>1. restart.bound = {} => orphans' = orphans /\ restart'.pc = "resume"
        <5>1. restart.bound = {} => restart' = [NoRestart EXCEPT !.pc = "resume"]
          BY <2>6, ReadShape
        <5>2. restart.bound = {} => orphans' = orphans
          BY <2>6 DEF RestartRead
        <5>. QED
          BY <5>1, <5>2 DEF NoRestart
      <4>2. restart.bound # {} => orphans' = orphans /\ restart'.version = config
        <5>1. restart.bound # {} => restart'.version = config
          BY <2>2, <2>6, ReadShape DEF Calm
        <5>2. restart.bound # {} => orphans' = orphans
          BY <2>2, <2>6 DEF RestartRead, Calm
        <5>. QED
          BY <5>1, <5>2
      <4>. QED
        BY <2>1, <4>1, <4>2 DEF ReadFollows
    <3>. QED
      BY <2>2, <2>3, <2>6, <3>1, FollowsInRestartRead
  <2>7. CASE RestartResume
    <3>1. orphans' = orphans /\ ReadFollows'
      BY <2>7 DEF RestartResume, history, ReadFollows, NoRestart
    <3>. QED
      BY <2>3, <2>7, <3>1, FollowsInResume
  <2>. QED
    BY <1>2, <2>2, <2>4, <2>5, <2>6, <2>7 DEF RestartCrash
<1>3. ASSUME NEW m \in Nodes, OfRestart(m)
      PROVE  (orphans = {} /\ ReadFollows /\ \A n \in Nodes : Follows(n))'
  <2>1. UNCHANGED <<config, bulk, paused, all, again, req, start, check>>
    BY <1>3, OfRestartFrame
  <2>2. mishaps' = 0 /\ ~Mishap /\ Calm
    BY <1>1, <1>3, <2>1, RestartFaults, NoMishap DEF Calm
  <2>3. orphans = {} /\ ReadFollows /\ \A n \in Nodes : Follows(n)
    BY <2>2 DEF AllFollow
  <2>4. RestartMark(m) \/ RestartHalt(m) \/ RestartSend(m) \/ RestartWrite(m)
    BY <1>3, <2>2, SkipShape DEF OfRestart
  <2>5. orphans' = orphans
    BY <2>4 DEF RestartMark, RestartHalt, RestartSend, RestartWrite, history
  <2>6. /\ restart'.pc = restart.pc /\ restart.pc \in {"mark", "work"} /\ restart'.bound = restart.bound
        /\ restart.pc = "work" => restart'.version = restart.version
        /\ \A n \in Nodes \ {m} : /\ n \in restart'.todo <=> n \in restart.todo
                                  /\ n \in restart'.up <=> n \in restart.up
                                  /\ n \in restart'.down <=> n \in restart.down
    <3>1. CASE RestartMark(m)
      BY <3>1, MarkShape
    <3>2. CASE RestartHalt(m)
      BY <3>2, HaltShape
    <3>3. CASE RestartSend(m)
      BY <2>2, <3>3, SendShape
    <3>4. CASE RestartWrite(m)
      BY <3>4, WriteShape
    <3>. QED
      BY <2>4, <3>1, <3>2, <3>3, <3>4
  <2>7. ASSUME NEW n \in Nodes \ {m}
        PROVE  Follows(n)'
    <3>1. Untouched(n)
      BY <1>3, <2>7, OthersUntouched
    <3>2. (Shown(n)' => Shown(n)) /\ (Tended(n) => Tended(n)') /\ (Pending => Pending')
      BY <2>1, <2>6, <3>1, SameShown DEF Untouched, Tended, Pending
    <3>3. (Reached(n) => Reached(n)') /\ Follows(n)
      BY <2>3, <2>6, <3>2 DEF Reached
    <3>. QED
      BY <2>1, <2>6, <2>7, <3>1, <3>2, <3>3, FollowsKept DEF Untouched, Reached
  <2>8. ReadFollows'
    BY <2>1, <2>3, <2>6 DEF ReadFollows, Pending
  <2>9. Follows(m)'
    BY <2>2, <2>3, <2>4, FollowsInMark, FollowsInRestartSend, FollowsInRestartWrite
  <2>. QED
    BY <2>3, <2>5, <2>7, <2>8, <2>9
<1>. QED
  BY <1>2, <1>3 DEF RestartStep, OfRestart

(* What is asked of many nodes at once.                                      *)
LEMMA FollowElsewhere ==
    ASSUME Parts, Ground, AllFollow,
           \/ CheckAll \/ StartAll \/ AskAgain \/ SchedulerRestarts
           \/ ModifyProfile \/ EditProfile \/ DeleteProfile \/ RestartAll \/ BulkStep
    PROVE  AllFollow'
<1>1. SUFFICES ASSUME Calm'
               PROVE  (orphans = {} /\ ReadFollows /\ \A n \in Nodes : Follows(n))'
  BY DEF AllFollow
<1>2. UNCHANGED <<start, agent, req, history>> /\ (Mishap \/ UNCHANGED bounds)
  BY DEF CheckAll, CheckVars, StartAll, AskAgain, SchedulerRestarts, RestartAll, ModifyProfile,
     EditProfile, DeleteProfile, BulkStep, WriteProfiles, DropProfile, RequestRestart, BulkFails,
     BulkVars, requests, jobs
<1>3. config' # 0 /\ ~Mishap /\ mishaps = 0
  BY <1>1, <1>2, NoMishap DEF Calm
<1>4. Calm
  <2>1. UNCHANGED config \/ EditProfile \/ DropProfile
    BY DEF CheckAll, CheckVars, StartAll, AskAgain, SchedulerRestarts, RestartAll, ModifyProfile,
       DeleteProfile, BulkStep, WriteProfiles, RequestRestart, BulkFails
  <2>2. EditProfile => config # 0
    BY NodeAssumption DEF EditProfile, Parts, ConfigOK
  <2>3. DropProfile => config' = 0
    BY DEF DropProfile
  <2>. QED
    BY <1>3, <2>1, <2>2, <2>3 DEF Calm
<1>5. orphans = {} /\ ReadFollows /\ \A n \in Nodes : Follows(n)
  BY <1>4 DEF AllFollow
<1>6. orphans' = {}
  BY <1>2, <1>5 DEF history
<1>7. CASE EditProfile \/ RequestRestart \/ (WriteProfiles /\ bulk.pc = "add") \/ AskAgain
  <2>1. Pending'
    <3>1. [NoRestart EXCEPT !.pc = "waiting"].pc = "waiting"
      BY DEF NoRestart
    <3>2. \A nodes : Bulk("restart", nodes) => bulk'.pc = "restart"
      BY DEF Bulk
    <3>. QED
      BY <1>7, <3>1, <3>2 DEF EditProfile, RequestRestart, WriteProfiles, AskAgain, AskRestart, Pending
  <2>. QED
    BY <1>6, <2>1, PendingFollows
<1>8. ASSUME UNCHANGED <<config, restart, again>>, Pending => Pending',
             \A n \in Nodes : (Shown(n)' => Shown(n) \/ Tended(n)') /\ (Shown(n)' /\ Tended(n) => Tended(n)')
      PROVE  ReadFollows' /\ \A n \in Nodes : Follows(n)'
  <2>1. ASSUME NEW n \in Nodes
        PROVE  Follows(n)'
    <3>1. (Behind(n)' <=> Behind(n)) /\ (Late(n)' => Late(n)) /\ (Reached(n) => Reached(n)')
      BY <1>2, <1>8 DEF Behind, Late, Reached
    <3>2. n \in overlapped' <=> n \in overlapped
      BY <1>2 DEF history
    <3>. QED
      BY <1>2, <1>5, <1>8, <2>1, <3>1, <3>2 DEF Follows, ShownFollows, LateFollows, UpFollows
  <2>. QED
    BY <1>5, <1>8, <2>1 DEF ReadFollows
<1>9. CASE CheckAll \/ RestartAll \/ ModifyProfile \/ DeleteProfile
  <2>1. /\ UNCHANGED <<node, config, restart, again>>
        /\ bulk' = bulk \/ bulk = NoBulk
        /\ \A n \in Nodes : stop'[n] = stop[n] \/ stop'[n] # "none"
    BY <1>9 DEF CheckAll, CheckVars, RestartAll, ModifyProfile, DeleteProfile, CallBulk, requests, jobs,
       profileJobs, BulkVars
  <2>2. NoBulk.pc = "none"
    BY DEF NoBulk
  <2>3. Pending => Pending'
    BY <2>1, <2>2 DEF Pending
  <2>4. \A n \in Nodes : (Shown(n)' <=> Shown(n)) /\ (Tended(n) => Tended(n)')
    BY <1>2, <2>1, <2>2, SameShown, TendedKept
  <2>. QED
    BY <1>6, <1>8, <2>1, <2>3, <2>4
<1>10. CASE StartAll
  <2>1. CASE AskRestart
    <3>1. Pending'
      <4>1. [NoRestart EXCEPT !.pc = "waiting"].pc = "waiting"
        BY DEF NoRestart
      <4>. QED
        BY <2>1, <4>1 DEF AskRestart, Pending
    <3>. QED
      BY <1>6, <3>1, PendingFollows
  <2>2. CASE UNCHANGED <<restart, again>>
    <3>1. UNCHANGED <<node, config, bulk, stop>>
      BY <1>10 DEF StartAll, requests, jobs
    <3>2. (Pending => Pending') /\ \A n \in Nodes : (Shown(n)' <=> Shown(n)) /\ (Tended(n) => Tended(n)')
      BY <1>2, <2>2, <3>1, SameShown DEF Pending, Tended
    <3>. QED
      BY <1>6, <1>8, <2>2, <3>1, <3>2
  <2>. QED
    BY <1>10, <2>1, <2>2 DEF StartAll
<1>11. CASE SchedulerRestarts
  BY <1>3, <1>11 DEF SchedulerRestarts
<1>12. CASE BulkFails
  <2>1. bulk.pc = "add" /\ UNCHANGED <<node, config, restart, again, stop>>
    BY <1>3, <1>12 DEF BulkFails, jobs, profileJobs
  <2>2. (Pending => Pending') /\ \A n \in Nodes : (Shown(n)' <=> Shown(n)) /\ (Tended(n) => Tended(n)')
    BY <1>2, <2>1, SameShown DEF Pending, Tended
  <2>. QED
    BY <1>6, <1>8, <2>1, <2>2
<1>13. CASE DropProfile
  BY <1>3, <1>13 DEF DropProfile
<1>14. CASE WriteProfiles /\ bulk.pc \in {"row", "remove"}
  <2>1. UNCHANGED <<config, restart, again, stop>> /\ (Pending => Pending')
    BY <1>14 DEF WriteProfiles, Pending
  <2>2. ASSUME NEW n \in Nodes
        PROVE  (Shown(n)' => Shown(n) \/ Tended(n)') /\ (Shown(n)' /\ Tended(n) => Tended(n)')
    <3>1. CASE n \notin bulk.nodes
      <4>1. node'[n] = node[n]
        BY <1>14, <3>1 DEF WriteProfiles
      <4>2. Tended(n) => Tended(n)'
        BY <1>2, <2>1, <3>1 DEF Tended
      <4>. QED
        BY <4>1, <4>2, SameShown
    <3>2. CASE n \in bulk.nodes /\ bulk.pc = "row"
      <4>1. bulk'.pc = "remove" /\ bulk'.nodes = bulk.nodes
        BY <1>14, <3>2 DEF WriteProfiles, Bulk
      <4>. QED
        BY <3>2, <4>1 DEF Tended
    <3>3. CASE n \in bulk.nodes /\ bulk.pc = "remove"
      <4>1. node'[n] = [node[n] EXCEPT !.bound = FALSE]
        BY <1>14, <3>3 DEF WriteProfiles
      <4>2. ~Shown(n)'
        BY <4>1, RowType DEF Shown, Startable, Row
      <4>. QED
        BY <4>2
    <3>. QED
      BY <1>14, <3>1, <3>2, <3>3
  <2>. QED
    BY <1>6, <1>8, <2>1, <2>2
<1>. QED
  BY <1>7, <1>9, <1>10, <1>11, <1>12, <1>13, <1>14 DEF BulkStep, WriteProfiles

LEMMA AlwaysFollow == Spec => []AllFollow
<1>1. Init => AllFollow
  <2>1. ASSUME Init, Calm
        PROVE  orphans = {} /\ ReadFollows /\ \A n \in Nodes : Follows(n)
    <3>1. \A n \in Nodes : start[n] = NoJob /\ agent[n].runs \in {0, config}
      BY <2>1 DEF Init
    <3>2. restart.pc = "none"
      BY <2>1 DEF Init, NoRestart
    <3>3. NoJob.pc = "none"
      BY DEF NoJob, Job
    <3>4. \A n \in Nodes : Follows(n)
      BY <3>1, <3>2, <3>3 DEF Follows, ShownFollows, LateFollows, UpFollows, Late, Behind
    <3>5. orphans = {}
      BY <2>1 DEF Init
    <3>. QED
      BY <3>2, <3>4, <3>5 DEF ReadFollows
  <2>. QED
    BY <2>1 DEF AllFollow
<1>2. Parts /\ AllHeld /\ Selected /\ Ground /\ AllFollow /\ [Next]_vars => AllFollow'
  <2>1. ASSUME Parts, AllHeld, Selected, Ground, AllFollow, Next
        PROVE  AllFollow'
    <3>1. ASSUME NEW m \in Nodes, OfNode(m)
          PROVE  AllFollow'
      BY <2>1, <3>1, FollowInNode
    <3>2. CASE RestartStep \/ RestartCrash \/ \E n \in Nodes : RestartSkip(n)
      BY <2>1, <3>2, FollowInRestart
    <3>3. CASE \/ CheckAll \/ StartAll \/ AskAgain \/ SchedulerRestarts
               \/ ModifyProfile \/ EditProfile \/ DeleteProfile \/ RestartAll \/ BulkStep
      BY <2>1, <3>3, FollowElsewhere
    <3>. QED
      BY <2>1, <3>1, <3>2, <3>3 DEF Next, NewRequest, OfNode
  <2>2. AllFollow /\ UNCHANGED vars => AllFollow'
    BY DEF vars, requests, jobs, profileJobs, bounds, history, AllFollow, Calm, ReadFollows, Pending,
       Follows, ShownFollows, LateFollows, UpFollows, Shown, Startable, Behind, Tended, Reached, Late
  <2>. QED
    BY <2>1, <2>2
<1>3. AllStopped => Selected
  BY DEF AllStopped
<1>. QED
  BY <1>1, <1>2, <1>3, AlwaysHeld, AlwaysStopped, AlwaysGround, PTL DEF Spec

(* A node that is shown connected and enabled runs the version of its        *)
(* profile once all jobs and requests are done: however starts, restarts and *)
(* edits overlap, one of them has still to come to it, or it was passed by   *)
(* while its own start job held a version.                                   *)
THEOREM ConnectedStaysCurrent == Spec => []ConnectedIsCurrent
<1>1. Parts /\ Ground /\ AllFollow => ConnectedIsCurrent
  <2>1. ASSUME Parts, Ground, AllFollow, NEW n \in Nodes \ overlapped,
               mishaps = 0, Settled(n), Startable(n), ~node[n].disabled, node[n].connected
        PROVE  agent[n].runs \in {0, config}
    <3>1. Calm
      BY <2>1 DEF Calm, Ground, Dropped, Startable
    <3>2. ShownFollows(n) /\ Shown(n)
      BY <2>1, <3>1 DEF AllFollow, Follows, Shown
    <3>3. ~Tended(n)
      BY <2>1 DEF Settled, Tended, NoJob, Job, Idle
    <3>4. ~Reached(n)
      BY <2>1 DEF Settled, Reached, Pending
    <3>. QED
      BY <2>1, <3>2, <3>3, <3>4 DEF ShownFollows, Behind
  <2>. QED
    BY <2>1 DEF ConnectedIsCurrent
<1>. QED
  BY <1>1, AlwaysHeld, AlwaysGround, AlwaysFollow, PTL
=============================================================================
