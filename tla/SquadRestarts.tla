---------------------------- MODULE SquadRestarts ----------------------------
(***************************************************************************)
(* Internal squads and the nodes' view of them.                             *)
(*                                                                         *)
(* A squad grants its members the inbounds it holds, and an inbound belongs *)
(* to a configuration profile.  What the nodes of a profile let in is read  *)
(* from the database when they are restarted, so whoever changes a squad    *)
(* has to ask for a restart of every profile whose users change: an update  *)
(* compares the inbounds it read before with those it reads after its       *)
(* write, a deletion takes those it read before, and the jobs that add all  *)
(* users to a squad, or remove them, look them up after the write.          *)
(*                                                                         *)
(* That a restart asked for does begin is the subject of NodeLifecycle.     *)
(***************************************************************************)
EXTENDS Naturals, Sequences

CONSTANTS
    Users, Squads, Inbounds, Profiles,
    ProfileOf,     \* ProfileOf[i]: the profile of inbound i
    Requests,      \* slots of administrators' requests
    None,
    MaxRequests,   \* bound: requests
    MaxMishaps     \* bound: failed statements and commands, crashes

VARIABLES
    squads,   \* the squads that exist
    grants,   \* grants[s]: internal_squad_inbounds
    members,  \* members[s]: internal_squad_members
    req,      \* req[r]: an update or a deletion of a squad, or None
    queue,    \* the jobs that wait in the squads queue
    job,      \* the job at work: one at a time, or None
    asked,    \* profiles whose restart was asked for and has not begun
    restart,  \* restart[p]: what the restart of p has read, or None
    loaded,   \* loaded[p]: what the nodes of p let in
    requests, mishaps,
    missed    \* profiles that a failure or an overtaken request left out (history)

dbVars == <<squads, grants, members>>
nodeVars == <<asked, restart, loaded>>
vars == <<dbVars, req, queue, job, nodeVars, requests, mishaps, missed>>

Access == SUBSET (Users \X Inbounds)
Reading == [read : Access]
Request ==
    [op : {"update", "delete"}, squad : Squads, wanted : SUBSET Inbounds,
     before : SUBSET Inbounds, at : {"read", "write", "reread", "ask"},
     todo : SUBSET Profiles]
JobData == [op : {"add", "remove"}, squad : Squads]
Job == [op : {"add", "remove"}, squad : Squads, at : {"write", "profiles", "ask"},
        todo : SUBSET Profiles]

ASSUME SquadAssumption ==
    /\ ProfileOf \in [Inbounds -> Profiles]
    /\ None \notin Request /\ None \notin Job /\ None \notin Reading

TypeOK ==
    /\ squads \in SUBSET Squads
    /\ grants \in [Squads -> SUBSET Inbounds]
    /\ members \in [Squads -> SUBSET Users]
    /\ req \in [Requests -> Request \cup {None}]
    /\ queue \in Seq(JobData)
    /\ job \in Job \cup {None}
    /\ asked \in SUBSET Profiles
    /\ restart \in [Profiles -> Reading \cup {None}]
    /\ loaded \in [Profiles -> Access]
    /\ requests \in Nat /\ mishaps \in Nat
    /\ missed \in SUBSET Profiles

In(p) == {i \in Inbounds : ProfileOf[i] = p}
Of(I) == {ProfileOf[i] : i \in I}

(* The users and inbounds of p: getUsersForConfigStream.                     *)
Content(p) == {a \in Users \X In(p) : \E s \in squads : a[1] \in members[s] /\ a[2] \in grants[s]}

Init ==
    /\ squads \in SUBSET Squads
    /\ grants \in [Squads -> SUBSET Inbounds] /\ members \in [Squads -> SUBSET Users]
    /\ \A s \in Squads \ squads : grants[s] = {} /\ members[s] = {}
    /\ req = [r \in Requests |-> None]
    /\ queue = <<>> /\ job = None
    /\ asked = {}
    /\ restart = [p \in Profiles |-> None]
    /\ loaded = [p \in Profiles |-> Content(p)]
    /\ requests = 0 /\ mishaps = 0 /\ missed = {}

Mishap ==
    /\ mishaps < MaxMishaps
    /\ mishaps' = mishaps + 1

Begin ==
    /\ requests < MaxRequests
    /\ requests' = requests + 1

-----------------------------------------------------------------------------
(* The administrators.                                                      *)

(* Nothing refers to s: a new squad has an identifier of its own.            *)
Fresh(s) ==
    /\ s \notin squads
    /\ \A r \in Requests : IF req[r] = None THEN TRUE ELSE req[r].squad # s
    /\ IF job = None THEN TRUE ELSE job.squad # s
    /\ \A k \in 1..Len(queue) : queue[k].squad # s

(* A squad starts without members, so that no node is concerned.             *)
CreateSquad(s) ==
    /\ Fresh(s)
    /\ Begin
    /\ squads' = squads \cup {s}
    /\ \E I \in SUBSET Inbounds : grants' = [grants EXCEPT ![s] = I]
    /\ UNCHANGED <<members, req, queue, job, nodeVars, mishaps, missed>>

UpdateSquad(r, s) ==
    /\ req[r] = None /\ s \in squads
    /\ Begin
    /\ \E I \in SUBSET Inbounds :
        req' = [req EXCEPT ![r] = [op |-> "update", squad |-> s, wanted |-> I,
                                   before |-> {}, at |-> "read", todo |-> {}]]
    /\ UNCHANGED <<dbVars, queue, job, nodeVars, mishaps, missed>>

DeleteSquad(r, s) ==
    /\ req[r] = None /\ s \in squads
    /\ Begin
    /\ req' = [req EXCEPT ![r] = [op |-> "delete", squad |-> s, wanted |-> {},
                                  before |-> grants[s], at |-> "write", todo |-> {}]]
    /\ UNCHANGED <<dbVars, queue, job, nodeVars, mishaps, missed>>

Is(r, op, at) == req[r] # None /\ req[r].op = op /\ req[r].at = at
Goto(r, o) == req' = [req EXCEPT ![r] = o]
End(r) == req' = [req EXCEPT ![r] = None]

ReadInbounds(r) ==
    /\ Is(r, "update", "read")
    /\ Goto(r, [req[r] EXCEPT !.before = grants[req[r].squad], !.at = "write"])
    /\ UNCHANGED <<dbVars, queue, job, nodeVars, requests, mishaps, missed>>

(* Profiles of which one set holds an inbound that the other does not.       *)
Differing(I, J) == Of((I \ J) \cup (J \ I))

(* The inbounds are replaced in a transaction, which fails if there are any  *)
(* to add and the squad is gone.  Those that another transaction added while *)
(* this one waited for it escape the deletion; one of them that this request *)
(* had read and the other removed and added again is taken as removed.  What *)
(* another request has changed since they were read escapes the comparison.  *)
WriteInbounds(r) ==
    /\ Is(r, "update", "write")
    /\ LET o == req[r]
           s == o.squad
       IN
        /\ s \in squads \/ o.wanted = {}
        /\ \E kept \in SUBSET (grants[s] \ (o.before \cup o.wanted)) :
            grants' = [grants EXCEPT ![s] = o.wanted \cup kept]
        /\ missed' = missed \cup Differing(o.before, grants[s])
        /\ Goto(r, [o EXCEPT !.at = "reread"])
    /\ UNCHANGED <<squads, members, queue, job, nodeVars, requests, mishaps>>

(* Fault: only the profiles of inbounds that were added are restarted.       *)
Affected_Added(before, after) == Of(after \ before)
Affected(before, after) == Differing(before, after)

RereadInbounds(r) ==
    /\ Is(r, "update", "reread")
    /\ LET todo == Affected(req[r].before, grants[req[r].squad]) IN
       IF todo = {} THEN End(r) ELSE Goto(r, [req[r] EXCEPT !.at = "ask", !.todo = todo])
    /\ UNCHANGED <<dbVars, queue, job, nodeVars, requests, mishaps, missed>>

(* The members and inbounds of a squad go with it.                           *)
DeleteRow(r) ==
    /\ Is(r, "delete", "write")
    /\ LET o == req[r]
           s == o.squad
           todo == Of(o.before)
       IN
        /\ s \in squads
        /\ squads' = squads \ {s}
        /\ grants' = [grants EXCEPT ![s] = {}] /\ members' = [members EXCEPT ![s] = {}]
        /\ missed' = missed \cup (Of(grants[s]) \ todo)
        /\ IF todo = {} THEN End(r) ELSE Goto(r, [o EXCEPT !.at = "ask", !.todo = todo])
    /\ UNCHANGED <<queue, job, nodeVars, requests, mishaps>>

AskRestart(r) ==
    /\ req[r] # None /\ req[r].at = "ask"
    /\ \E p \in req[r].todo :
        /\ asked' = asked \cup {p}
        /\ IF req[r].todo = {p} THEN End(r) ELSE Goto(r, [req[r] EXCEPT !.todo = @ \ {p}])
    /\ UNCHANGED <<dbVars, queue, job, restart, loaded, requests, mishaps, missed>>

(* What a request that has written still owes the nodes.                     *)
OwedBy(r) ==
    IF req[r] = None THEN {}
    ELSE IF req[r].at = "ask" THEN req[r].todo
    ELSE IF req[r].at = "reread" THEN Differing(req[r].before, grants[req[r].squad])
    ELSE {}

(* The squad is gone, another transaction has added the same inbound, or a   *)
(* statement or command fails: the request ends.                            *)
RequestFails(r) ==
    /\ req[r] # None
    /\ \/ /\ Is(r, "delete", "write") \/ (Is(r, "update", "write") /\ req[r].wanted # {})
          /\ \/ req[r].squad \notin squads
             \/ (req[r].wanted \cap grants[req[r].squad]) \ req[r].before # {}
          /\ UNCHANGED mishaps
       \/ Mishap
    /\ missed' = missed \cup OwedBy(r)
    /\ End(r)
    /\ UNCHANGED <<dbVars, queue, job, nodeVars, requests>>

-----------------------------------------------------------------------------
(* The squads queue, whose concurrency is one.                               *)

QueueJob(s) ==
    /\ s \in squads
    /\ Begin
    /\ \E op \in {"add", "remove"} : queue' = Append(queue, [op |-> op, squad |-> s])
    /\ UNCHANGED <<dbVars, req, job, nodeVars, mishaps, missed>>

StartJob ==
    /\ job = None /\ queue # <<>>
    /\ job' = [op |-> Head(queue).op, squad |-> Head(queue).squad, at |-> "write", todo |-> {}]
    /\ queue' = Tail(queue)
    /\ UNCHANGED <<dbVars, req, nodeVars, requests, mishaps, missed>>

(* One statement over all users; its error is swallowed, as is that of a     *)
(* squad that is gone.                                                      *)
WriteMembers ==
    /\ job # None /\ job.at = "write"
    /\ \/ /\ job.squad \in squads
          /\ members' = [members EXCEPT ![job.squad] = IF job.op = "add" THEN Users ELSE {}]
          /\ UNCHANGED mishaps
       \/ /\ job.squad \notin squads
          /\ UNCHANGED <<members, mishaps>>
       \/ /\ Mishap
          /\ UNCHANGED members
    /\ job' = [job EXCEPT !.at = "profiles"]
    /\ UNCHANGED <<squads, grants, req, queue, nodeVars, requests, missed>>

(* Faults: no node is restarted for users that were removed; a left join     *)
(* reports a profile even for a squad without inbounds.                     *)
Concerned_Added(s) == IF job.op = "add" THEN Of(grants[s]) ELSE {}
Concerned_Left(s) == IF grants[s] = {} THEN {None} ELSE Of(grants[s])
Concerned(s) == Of(grants[s])

FindProfiles ==
    /\ job # None /\ job.at = "profiles"
    /\ LET todo == Concerned(job.squad) IN
       job' = IF todo = {} THEN None ELSE [job EXCEPT !.at = "ask", !.todo = todo]
    /\ UNCHANGED <<dbVars, req, queue, nodeVars, requests, mishaps, missed>>

AskProfile ==
    /\ job # None /\ job.at = "ask"
    /\ \E p \in job.todo :
        /\ asked' = asked \cup {p}
        /\ job' = IF job.todo = {p} THEN None ELSE [job EXCEPT !.todo = @ \ {p}]
    /\ UNCHANGED <<dbVars, req, queue, restart, loaded, requests, mishaps, missed>>

(* A job, also one that runs again, will ask for the profiles its squad has  *)
(* by then.                                                                 *)
OwedByJob ==
    IF job = None THEN {} ELSE IF job.at = "ask" THEN job.todo ELSE Of(grants[job.squad])

(* A query or a command fails and the job ends, or its worker dies: it runs  *)
(* again from its beginning, or is dropped for having stalled too often.     *)
JobFails ==
    /\ job # None
    /\ Mishap
    /\ \/ /\ job' = None
          /\ missed' = missed \cup OwedByJob
       \/ /\ job' = [job EXCEPT !.at = "write", !.todo = {}]
          /\ missed' = missed \cup (OwedByJob \ Of(grants[job.squad]))
    /\ UNCHANGED <<dbVars, req, queue, nodeVars, requests>>

-----------------------------------------------------------------------------
(* The restarts.                                                            *)

BeginRestart(p) ==
    /\ p \in asked /\ restart[p] = None
    /\ asked' = asked \ {p}
    /\ restart' = [restart EXCEPT ![p] = [read |-> Content(p)]]
    /\ UNCHANGED <<dbVars, req, queue, job, loaded, requests, mishaps, missed>>

EndRestart(p) ==
    /\ restart[p] # None
    /\ loaded' = [loaded EXCEPT ![p] = restart[p].read]
    /\ restart' = [restart EXCEPT ![p] = None]
    /\ UNCHANGED <<dbVars, req, queue, job, asked, requests, mishaps, missed>>

-----------------------------------------------------------------------------

RequestStep(r) ==
    ReadInbounds(r) \/ WriteInbounds(r) \/ RereadInbounds(r) \/ DeleteRow(r) \/ AskRestart(r)
JobStep == StartJob \/ WriteMembers \/ FindProfiles \/ AskProfile
RestartStep(p) == BeginRestart(p) \/ EndRestart(p)

Next ==
    \/ \E r \in Requests :
        \/ RequestStep(r) \/ RequestFails(r)
        \/ \E s \in Squads : UpdateSquad(r, s) \/ DeleteSquad(r, s)
    \/ \E s \in Squads : CreateSquad(s) \/ QueueJob(s)
    \/ JobStep \/ JobFails
    \/ \E p \in Profiles : RestartStep(p)

Spec == Init /\ [][Next]_vars

(* Requests, the worker of the queue and the restarts go on.                 *)
FairSpec ==
    /\ Spec
    /\ \A r \in Requests : WF_vars(RequestStep(r) \/ RequestFails(r))
    /\ WF_vars(JobStep)
    /\ \A p \in Profiles : WF_vars(RestartStep(p))

-----------------------------------------------------------------------------
(* Properties.                                                              *)

Latest(p) == IF restart[p] # None THEN restart[p].read ELSE loaded[p]
Owed == (UNION {OwedBy(r) : r \in Requests}) \cup OwedByJob

(* The nodes of a profile let in who the squads say, or are about to be told *)
(* so: a restart was asked for, or a request or job at work will ask for it, *)
(* unless one failed or another had changed what it compared.                *)
NodesFollowSquads ==
    \A p \in Profiles \ missed : Latest(p) = Content(p) \/ p \in asked \cup Owed

(* In the end they do.                                                      *)
NodesCatchUp ==
    \A p \in Profiles : <>[](p \in missed \/ loaded[p] = Content(p))

=============================================================================
