------------------------ MODULE SquadRestartsProofs ------------------------
(* Proofs about SquadRestarts for every set of users, squads, inbounds and   *)
(* profiles, every number of requests at work, and every bound.             *)
EXTENDS SquadRestarts, TLAPS

-----------------------------------------------------------------------------
(* Types, group by group.                                                   *)

DbOK ==
    /\ squads \in SUBSET Squads
    /\ grants \in [Squads -> SUBSET Inbounds]
    /\ members \in [Squads -> SUBSET Users]
ReqOK == req \in [Requests -> Request \cup {None}]
JobsOK == queue \in Seq(JobData) /\ job \in Job \cup {None}
NodesOK ==
    /\ asked \in SUBSET Profiles
    /\ restart \in [Profiles -> Reading \cup {None}]
    /\ loaded \in [Profiles -> Access]
CountsOK == requests \in Nat /\ mishaps \in Nat
MissedOK == missed \in SUBSET Profiles

LEMMA TypeParts ==
    /\ TypeOK <=> (DbOK /\ ReqOK /\ JobsOK /\ NodesOK /\ CountsOK /\ MissedOK)
    /\ TypeOK' <=> (DbOK' /\ ReqOK' /\ JobsOK' /\ NodesOK' /\ CountsOK' /\ MissedOK')
BY DEF TypeOK, DbOK, ReqOK, JobsOK, NodesOK, CountsOK, MissedOK

LEMMA Kept ==
    /\ DbOK /\ UNCHANGED dbVars => DbOK'
    /\ ReqOK /\ UNCHANGED req => ReqOK'
    /\ JobsOK /\ UNCHANGED <<queue, job>> => JobsOK'
    /\ NodesOK /\ UNCHANGED nodeVars => NodesOK'
    /\ CountsOK /\ UNCHANGED <<requests, mishaps>> => CountsOK'
    /\ MissedOK /\ UNCHANGED missed => MissedOK'
BY DEF DbOK, ReqOK, JobsOK, NodesOK, CountsOK, MissedOK, dbVars, nodeVars

LEMMA Counted ==
    ASSUME CountsOK
    PROVE  /\ Mishap /\ UNCHANGED requests => CountsOK'
           /\ Begin /\ UNCHANGED mishaps => CountsOK'
BY DEF CountsOK, Mishap, Begin

LEMMA ProfileTypes ==
    /\ \A I \in SUBSET Inbounds : Of(I) \in SUBSET Profiles
    /\ \A I, J \in SUBSET Inbounds : Differing(I, J) \in SUBSET Profiles
BY SquadAssumption DEF Of, Differing

LEMMA ContentType ==
    ASSUME NEW p \in Profiles
    PROVE  Content(p) \in Access
BY DEF Content, In, Access

(* A slot that is in use holds a request, whose fields have their types.     *)
LEMMA SlotTypes ==
    ASSUME ReqOK, NEW r \in Requests, req[r] # None
    PROVE  /\ req[r] \in Request
           /\ req[r].squad \in Squads
           /\ req[r].wanted \in SUBSET Inbounds /\ req[r].before \in SUBSET Inbounds
           /\ req[r].todo \in SUBSET Profiles
<1>1. req[r] \in Request
  BY DEF ReqOK
<1>. QED
  BY <1>1 DEF Request

LEMMA GotoType ==
    ASSUME ReqOK, NEW r \in Requests, NEW o \in Request \cup {None}, Goto(r, o)
    PROVE  ReqOK'
BY DEF ReqOK, Goto

LEMMA EndType ==
    ASSUME ReqOK, NEW r \in Requests, End(r)
    PROVE  ReqOK'
BY DEF ReqOK, End

LEMMA RequestFields ==
    ASSUME NEW o \in Request
    PROVE  /\ \A B \in SUBSET Inbounds : [o EXCEPT !.before = B, !.at = "write"] \in Request
           /\ [o EXCEPT !.at = "reread"] \in Request
           /\ \A T \in SUBSET Profiles : /\ [o EXCEPT !.at = "ask", !.todo = T] \in Request
                                         /\ [o EXCEPT !.todo = T] \in Request
BY DEF Request

LEMMA JobFields ==
    ASSUME NEW o \in Job
    PROVE  /\ o.squad \in Squads /\ o.todo \in SUBSET Profiles
           /\ [o EXCEPT !.at = "profiles"] \in Job
           /\ [o EXCEPT !.at = "write", !.todo = {}] \in Job
           /\ \A T \in SUBSET Profiles : /\ [o EXCEPT !.at = "ask", !.todo = T] \in Job
                                         /\ [o EXCEPT !.todo = T] \in Job
BY DEF Job

LEMMA JobHeld ==
    ASSUME JobsOK, job # None
    PROVE  job \in Job
BY DEF JobsOK

LEMMA OwedTypes ==
    ASSUME TypeOK
    PROVE  /\ \A r \in Requests : OwedBy(r) \in SUBSET Profiles
           /\ OwedByJob \in SUBSET Profiles
<1>1. ASSUME NEW r \in Requests PROVE OwedBy(r) \in SUBSET Profiles
  <2>1. CASE req[r] = None
    BY <2>1 DEF OwedBy
  <2>2. CASE req[r] # None
    <3>1. grants[req[r].squad] \in SUBSET Inbounds
      BY <2>2, SlotTypes, TypeParts DEF DbOK
    <3>. QED
      BY <2>2, <3>1, SlotTypes, ProfileTypes, TypeParts DEF OwedBy
  <2>. QED
    BY <2>1, <2>2
<1>2. OwedByJob \in SUBSET Profiles
  <2>1. CASE job = None
    BY <2>1 DEF OwedByJob
  <2>2. CASE job # None
    <3>1. job.squad \in Squads /\ job.todo \in SUBSET Profiles
      BY <2>2, JobHeld, JobFields, TypeParts
    <3>2. grants[job.squad] \in SUBSET Inbounds
      BY <3>1, TypeParts DEF DbOK
    <3>. QED
      BY <2>2, <3>1, <3>2, ProfileTypes DEF OwedByJob
  <2>. QED
    BY <2>1, <2>2
<1>. QED
  BY <1>1, <1>2

LEMMA InitType == Init => TypeOK
<1> SUFFICES ASSUME Init PROVE TypeOK
  OBVIOUS
<1>1. NodesOK
  BY ContentType DEF Init, NodesOK
<1>2. JobsOK
  BY DEF Init, JobsOK
<1>. QED
  BY <1>1, <1>2, TypeParts DEF Init, DbOK, ReqOK, CountsOK, MissedOK

LEMMA RequestType ==
    ASSUME TypeOK, NEW r \in Requests, RequestStep(r) \/ RequestFails(r)
    PROVE  TypeOK'
<1> USE TypeParts, Kept
<1>1. req[r] \in Request
  BY SlotTypes DEF RequestStep, RequestFails, ReadInbounds, WriteInbounds, RereadInbounds,
                   DeleteRow, AskRestart, Is
<1>2. /\ req[r].squad \in Squads /\ req[r].todo \in SUBSET Profiles
      /\ req[r].wanted \in SUBSET Inbounds /\ req[r].before \in SUBSET Inbounds
  BY <1>1 DEF Request
<1>3. grants[req[r].squad] \in SUBSET Inbounds
  BY <1>2 DEF DbOK
<1>4. CASE ReadInbounds(r)
  BY <1>1, <1>3, <1>4, GotoType, RequestFields DEF ReadInbounds
<1>5. CASE WriteInbounds(r)
  <2>1. ReqOK'
    BY <1>1, <1>5, GotoType, RequestFields DEF WriteInbounds
  <2>2. DbOK'
    <3>1. PICK kept \in SUBSET grants[req[r].squad] :
            grants' = [grants EXCEPT ![req[r].squad] = req[r].wanted \cup kept]
      BY <1>5 DEF WriteInbounds
    <3>2. req[r].wanted \cup kept \in SUBSET Inbounds
      BY <1>2, <1>3
    <3>. QED
      BY <1>2, <1>5, <3>1, <3>2 DEF WriteInbounds, DbOK
  <2>3. MissedOK'
    BY <1>2, <1>3, <1>5, ProfileTypes DEF WriteInbounds, MissedOK
  <2>. QED
    BY <1>5, <2>1, <2>2, <2>3 DEF WriteInbounds
<1>6. CASE RereadInbounds(r)
  <2>1. Affected(req[r].before, grants[req[r].squad]) \in SUBSET Profiles
    BY <1>2, <1>3, ProfileTypes DEF Affected
  <2>2. ReqOK'
    BY <1>1, <1>6, <2>1, GotoType, EndType, RequestFields DEF RereadInbounds
  <2>. QED
    BY <1>6, <2>2 DEF RereadInbounds
<1>7. CASE DeleteRow(r)
  <2>1. Of(req[r].before) \in SUBSET Profiles /\ Of(grants[req[r].squad]) \in SUBSET Profiles
    BY <1>2, <1>3, ProfileTypes
  <2>2. ReqOK'
    BY <1>1, <1>7, <2>1, GotoType, EndType, RequestFields DEF DeleteRow
  <2>3. DbOK'
    BY <1>2, <1>7 DEF DeleteRow, DbOK
  <2>4. MissedOK'
    BY <1>7, <2>1 DEF DeleteRow, MissedOK
  <2>. QED
    BY <1>7, <2>2, <2>3, <2>4 DEF DeleteRow
<1>8. CASE AskRestart(r)
  <2>1. PICK p \in req[r].todo :
          /\ asked' = asked \cup {p}
          /\ IF req[r].todo = {p} THEN End(r) ELSE Goto(r, [req[r] EXCEPT !.todo = @ \ {p}])
    BY <1>8 DEF AskRestart
  <2>2. [req[r] EXCEPT !.todo = req[r].todo \ {p}] \in Request
    BY <1>1, <1>2, RequestFields
  <2>3. ReqOK'
    BY <2>1, <2>2, GotoType, EndType
  <2>4. NodesOK'
    BY <1>2, <1>8, <2>1 DEF AskRestart, NodesOK
  <2>. QED
    BY <1>8, <2>3, <2>4 DEF AskRestart
<1>9. CASE RequestFails(r)
  <2>1. MissedOK'
    BY <1>9, OwedTypes DEF RequestFails, MissedOK
  <2>2. CountsOK'
    BY <1>9, Counted DEF RequestFails
  <2>. QED
    BY <1>9, <2>1, <2>2, EndType DEF RequestFails
<1>. QED
  BY <1>4, <1>5, <1>6, <1>7, <1>8, <1>9 DEF RequestStep

LEMMA BeginType ==
    ASSUME TypeOK, NEW s \in Squads,
           \/ CreateSquad(s) \/ QueueJob(s)
           \/ \E r \in Requests : UpdateSquad(r, s) \/ DeleteSquad(r, s)
    PROVE  TypeOK'
<1> USE TypeParts, Kept
<1>1. CASE CreateSquad(s)
  <2>1. DbOK'
    BY <1>1 DEF CreateSquad, DbOK
  <2>. QED
    BY <1>1, <2>1, Counted DEF CreateSquad
<1>2. CASE QueueJob(s)
  <2>1. PICK op \in {"add", "remove"} : queue' = Append(queue, [op |-> op, squad |-> s])
    BY <1>2 DEF QueueJob
  <2>2. [op |-> op, squad |-> s] \in JobData
    BY DEF JobData
  <2>3. JobsOK'
    BY <1>2, <2>1, <2>2 DEF QueueJob, JobsOK
  <2>. QED
    BY <1>2, <2>3, Counted DEF QueueJob
<1>3. ASSUME NEW r \in Requests, UpdateSquad(r, s) PROVE TypeOK'
  <2>1. PICK I \in SUBSET Inbounds :
          req' = [req EXCEPT ![r] = [op |-> "update", squad |-> s, wanted |-> I,
                                     before |-> {}, at |-> "read", todo |-> {}]]
    BY <1>3 DEF UpdateSquad
  <2>2. [op |-> "update", squad |-> s, wanted |-> I, before |-> {}, at |-> "read", todo |-> {}]
            \in Request
    BY DEF Request
  <2>3. ReqOK'
    BY <2>1, <2>2, GotoType DEF Goto
  <2>. QED
    BY <1>3, <2>3, Counted DEF UpdateSquad
<1>4. ASSUME NEW r \in Requests, DeleteSquad(r, s) PROVE TypeOK'
  <2>1. [op |-> "delete", squad |-> s, wanted |-> {}, before |-> grants[s], at |-> "write",
         todo |-> {}] \in Request
    BY DEF Request, DbOK
  <2>2. ReqOK'
    BY <1>4, <2>1, GotoType DEF Goto, DeleteSquad
  <2>. QED
    BY <1>4, <2>2, Counted DEF DeleteSquad
<1>. QED
  BY <1>1, <1>2, <1>3, <1>4

LEMMA JobType ==
    ASSUME TypeOK, JobStep \/ JobFails
    PROVE  TypeOK'
<1> USE TypeParts, Kept
<1>1. CASE StartJob
  <2>1. Head(queue) \in JobData /\ Tail(queue) \in Seq(JobData)
    BY <1>1 DEF StartJob, JobsOK
  <2>2. [op |-> Head(queue).op, squad |-> Head(queue).squad, at |-> "write", todo |-> {}] \in Job
    BY <2>1 DEF JobData, Job
  <2>3. JobsOK'
    BY <1>1, <2>1, <2>2 DEF StartJob, JobsOK
  <2>. QED
    BY <1>1, <2>3 DEF StartJob
<1>2. CASE WriteMembers
  <2>1. job \in Job
    BY <1>2, JobHeld DEF WriteMembers
  <2>2. JobsOK'
    BY <1>2, <2>1, JobFields DEF WriteMembers, JobsOK
  <2>3. DbOK' /\ CountsOK'
    BY <1>2, Counted DEF WriteMembers, DbOK
  <2>. QED
    BY <1>2, <2>2, <2>3 DEF WriteMembers
<1>3. CASE FindProfiles
  <2>1. job \in Job
    BY <1>3, JobHeld DEF FindProfiles
  <2>2. Concerned(job.squad) \in SUBSET Profiles
    BY <2>1, JobFields, ProfileTypes DEF Concerned, DbOK
  <2>3. JobsOK'
    BY <1>3, <2>1, <2>2, JobFields DEF FindProfiles, JobsOK
  <2>. QED
    BY <1>3, <2>3 DEF FindProfiles
<1>4. CASE AskProfile
  <2>1. job \in Job
    BY <1>4, JobHeld DEF AskProfile
  <2>2. PICK p \in job.todo : /\ asked' = asked \cup {p}
                              /\ job' = IF job.todo = {p} THEN None ELSE [job EXCEPT !.todo = @ \ {p}]
    BY <1>4 DEF AskProfile
  <2>3. [job EXCEPT !.todo = job.todo \ {p}] \in Job
    BY <2>1, JobFields
  <2>4. JobsOK'
    BY <1>4, <2>2, <2>3 DEF AskProfile, JobsOK
  <2>5. NodesOK'
    BY <1>4, <2>1, <2>2, JobFields DEF AskProfile, NodesOK
  <2>. QED
    BY <1>4, <2>4, <2>5 DEF AskProfile
<1>5. CASE JobFails
  <2>1. job \in Job
    BY <1>5, JobHeld DEF JobFails
  <2>2. JobsOK'
    BY <1>5, <2>1, JobFields DEF JobFails, JobsOK
  <2>3. MissedOK'
    BY <1>5, OwedTypes DEF JobFails, MissedOK
  <2>. QED
    BY <1>5, <2>2, <2>3, Counted DEF JobFails
<1>. QED
  BY <1>1, <1>2, <1>3, <1>4, <1>5 DEF JobStep

LEMMA RestartType ==
    ASSUME TypeOK, NEW p \in Profiles, RestartStep(p)
    PROVE  TypeOK'
<1> USE TypeParts, Kept
<1>1. CASE BeginRestart(p)
  <2>1. [read |-> Content(p)] \in Reading
    BY ContentType DEF Reading
  <2>2. NodesOK'
    BY <1>1, <2>1 DEF BeginRestart, NodesOK
  <2>. QED
    BY <1>1, <2>2 DEF BeginRestart
<1>2. CASE EndRestart(p)
  <2>1. restart[p] \in Reading
    BY <1>2 DEF EndRestart, NodesOK
  <2>2. restart[p].read \in Access
    BY <2>1 DEF Reading
  <2>3. NodesOK'
    BY <1>2, <2>2 DEF EndRestart, NodesOK
  <2>. QED
    BY <1>2, <2>3 DEF EndRestart
<1>. QED
  BY <1>1, <1>2 DEF RestartStep

LEMMA StepType ==
    ASSUME TypeOK, [Next]_vars
    PROVE  TypeOK'
<1>1. CASE UNCHANGED vars
  BY <1>1, TypeParts, Kept DEF vars, dbVars, nodeVars
<1>. QED
  BY <1>1, RequestType, BeginType, JobType, RestartType DEF Next

(* Squads, requests, jobs and restarts keep their types: what the nodes let  *)
(* in is always a set of users and inbounds of the database, and what is     *)
(* asked to restart a profile.                                              *)
THEOREM TypeCorrect == Spec => []TypeOK
<1>. QED
  BY InitType, StepType, PTL DEF Spec

-----------------------------------------------------------------------------
(* The nodes follow the squads.                                             *)

(* A squad that does not exist has nothing: only so may a new squad be       *)
(* created without a restart.                                               *)
Vanished == \A s \in Squads \ squads : grants[s] = {} /\ members[s] = {}

(* Someone will restart p, or a failure has left it out.                     *)
Due(p) == p \in missed \/ p \in asked \/ (\E r \in Requests : p \in OwedBy(r)) \/ p \in OwedByJob

Follows == \A p \in Profiles : Latest(p) = Content(p) \/ Due(p)

IInv == TypeOK /\ Vanished /\ Follows

LEMMA FollowsMeans == Follows => NodesFollowSquads
BY DEF Follows, NodesFollowSquads, Due, Owed

LEMMA Triangle ==
    ASSUME NEW I, NEW J, NEW K
    PROVE  Differing(I, K) \subseteq Differing(I, J) \cup Differing(J, K)
BY DEF Differing, Of

LEMMA NothingDiffers ==
    /\ \A I : Differing(I, {}) = Of(I) /\ Differing({}, I) = Of(I)
    /\ \A I, J : Of(I) \subseteq Of(J) \cup Differing(I, J)
    /\ Of({}) = {}
BY DEF Differing, Of

(* The inbounds of one squad change: what a node lets in changes only for    *)
(* the profiles in which they differ.                                       *)
LEMMA ContentByGrants ==
    ASSUME TypeOK, NEW s \in Squads, NEW G \in SUBSET Inbounds, NEW p \in Profiles,
           grants' = [grants EXCEPT ![s] = G], UNCHANGED <<squads, members>>,
           p \notin Differing(grants[s], G)
    PROVE  Content(p)' = Content(p)
<1>1. ASSUME NEW i \in In(p) PROVE i \in grants[s] <=> i \in G
  <2>1. ProfileOf[i] = p /\ i \in Inbounds
    BY DEF In
  <2>. QED
    BY <2>1 DEF Differing, Of
<1>2. ASSUME NEW i \in In(p), NEW z \in Squads PROVE i \in grants'[z] <=> i \in grants[z]
  BY <1>1 DEF TypeOK
<1>3. \A a \in Users \X In(p) : a[2] \in In(p)
  OBVIOUS
<1>4. squads \subseteq Squads
  BY DEF TypeOK
<1>. QED
  BY <1>2, <1>3, <1>4 DEF Content, In

(* The same for the members of a squad.                                      *)
LEMMA ContentByMembers ==
    ASSUME TypeOK, NEW s \in Squads, NEW M, NEW p \in Profiles,
           members' = [members EXCEPT ![s] = M], UNCHANGED <<squads, grants>>,
           p \notin Of(grants[s])
    PROVE  Content(p)' = Content(p)
<1>1. ASSUME NEW i \in In(p) PROVE i \notin grants[s]
  BY DEF In, Of
<1>2. \A z \in Squads : z # s => members'[z] = members[z]
  BY DEF TypeOK
<1>3. \A a \in Users \X In(p) : a[2] \in In(p)
  OBVIOUS
<1>4. squads \subseteq Squads
  BY DEF TypeOK
<1>5. \A a \in Users \X In(p), z \in squads :
        (a[1] \in members'[z] /\ a[2] \in grants[z]) <=> (a[1] \in members[z] /\ a[2] \in grants[z])
  BY <1>1, <1>2, <1>3, <1>4
<1>. QED
  BY <1>5 DEF Content, In

(* A squad that appears or disappears with no members changes nothing.       *)
LEMMA ContentBySquads ==
    ASSUME NEW p \in Profiles, NEW s,
           squads' = squads \cup {s}, UNCHANGED members, members[s] = {},
           \A z \in squads : grants'[z] = grants[z]
    PROVE  Content(p)' = Content(p)
BY DEF Content, In

(* What the others owe when the inbounds of a squad change.                  *)
LEMMA OwedByOthers ==
    ASSUME TypeOK, NEW s \in Squads, NEW G \in SUBSET Inbounds, NEW p \in Profiles,
           grants' = [grants EXCEPT ![s] = G]
    PROVE  /\ \A q \in Requests :
                req'[q] = req[q] /\ p \in OwedBy(q) =>
                    p \in OwedBy(q)' \/ p \in Differing(grants[s], G)
           /\ UNCHANGED job /\ p \in OwedByJob =>
                p \in OwedByJob' \/ p \in Differing(grants[s], G)
<1>1. ASSUME NEW q \in Requests, req'[q] = req[q], p \in OwedBy(q)
      PROVE  p \in OwedBy(q)' \/ p \in Differing(grants[s], G)
  <2>1. CASE req[q] # None /\ req[q].at = "reread" /\ req[q].squad = s
    <3>1. p \in Differing(req[q].before, grants[s])
      BY <1>1, <2>1 DEF OwedBy
    <3>2. p \in Differing(req[q].before, G) \/ p \in Differing(G, grants[s])
      BY <3>1, Triangle
    <3>3. Differing(G, grants[s]) = Differing(grants[s], G)
      BY DEF Differing, Of
    <3>4. grants'[s] = G
      BY DEF TypeOK
    <3>. QED
      BY <1>1, <2>1, <3>2, <3>3, <3>4 DEF OwedBy, Differing, Of
  <2>2. CASE ~(req[q] # None /\ req[q].at = "reread" /\ req[q].squad = s)
    <3>1. CASE req[q] # None /\ req[q].at = "reread"
      <4>1. grants'[req[q].squad] = grants[req[q].squad]
        BY <2>2, <3>1, SlotTypes, TypeParts DEF DbOK
      <4>. QED
        BY <1>1, <3>1, <4>1 DEF OwedBy, Differing, Of
    <3>2. CASE ~(req[q] # None /\ req[q].at = "reread")
      BY <1>1, <3>2 DEF OwedBy
    <3>. QED
      BY <3>1, <3>2
  <2>. QED
    BY <2>1, <2>2
<1>2. ASSUME UNCHANGED job, p \in OwedByJob
      PROVE  p \in OwedByJob' \/ p \in Differing(grants[s], G)
  <2>1. job # None
    BY <1>2 DEF OwedByJob
  <2>2. job.squad \in Squads
    BY <2>1, JobHeld, JobFields, TypeParts
  <2>3. CASE job.at = "ask"
    BY <1>2, <2>1, <2>3 DEF OwedByJob
  <2>4. CASE job.at # "ask"
    <3>1. p \in Of(grants[job.squad])
      BY <1>2, <2>1, <2>4 DEF OwedByJob
    <3>2. grants'[job.squad] = IF job.squad = s THEN G ELSE grants[job.squad]
      BY <2>2 DEF TypeOK
    <3>3. p \in Of(grants'[job.squad]) \/ p \in Differing(grants[s], G)
      BY <3>1, <3>2, NothingDiffers
    <3>. QED
      BY <1>2, <2>1, <2>4, <3>3 DEF OwedByJob, Of
  <2>. QED
    BY <2>3, <2>4
<1>. QED
  BY <1>1, <1>2

(* Where neither the inbounds nor a request or job changes, nor what it owes.*)
LEMMA OwedSame ==
    ASSUME UNCHANGED grants
    PROVE  /\ \A q \in Requests : req'[q] = req[q] => OwedBy(q)' = OwedBy(q)
           /\ UNCHANGED job => OwedByJob' = OwedByJob
BY DEF OwedBy, OwedByJob, Differing, Of

LEMMA SameContent ==
    ASSUME UNCHANGED dbVars, NEW p
    PROVE  Content(p)' = Content(p)
BY DEF Content, In, dbVars

LEMMA SameLatest ==
    ASSUME UNCHANGED <<restart, loaded>>, NEW p
    PROVE  Latest(p)' = Latest(p)
BY DEF Latest

LEMMA OtherRequests ==
    ASSUME TypeOK, NEW r \in Requests, NEW o, req' = [req EXCEPT ![r] = o]
    PROVE  /\ req'[r] = o
           /\ \A q \in Requests : q # r => req'[q] = req[q]
BY DEF TypeOK

-----------------------------------------------------------------------------
(* One lemma per group of steps.                                            *)

LEMMA CreateFollows ==
    ASSUME IInv, NEW s \in Squads, CreateSquad(s)
    PROVE  Vanished' /\ Follows'
<1>1. PICK I \in SUBSET Inbounds : grants' = [grants EXCEPT ![s] = I]
  BY DEF CreateSquad
<1>2. s \notin squads /\ members[s] = {}
  BY DEF CreateSquad, Fresh, IInv, Vanished
<1>3. squads \subseteq Squads
  BY DEF IInv, TypeOK
<1>4. \A z \in Squads : z # s => grants'[z] = grants[z]
  BY <1>1 DEF IInv, TypeOK
<1>5. Vanished'
  BY <1>4 DEF CreateSquad, IInv, Vanished
<1>6. \A q \in Requests : OwedBy(q)' = OwedBy(q)
  <2>1. ASSUME NEW q \in Requests, req[q] # None, req[q].at = "reread"
        PROVE  grants'[req[q].squad] = grants[req[q].squad]
    BY <1>4, <2>1, SlotTypes, TypeParts DEF CreateSquad, Fresh, IInv
  <2>. QED
    BY <2>1 DEF CreateSquad, OwedBy, Differing, Of
<1>7. OwedByJob' = OwedByJob
  <2>1. ASSUME job # None PROVE grants'[job.squad] = grants[job.squad]
    BY <1>4, <2>1, JobHeld, JobFields, TypeParts DEF CreateSquad, Fresh, IInv
  <2>. QED
    BY <2>1 DEF CreateSquad, OwedByJob, Of
<1>8. ASSUME NEW p \in Profiles PROVE Content(p)' = Content(p) /\ Latest(p)' = Latest(p)
  <2>1. \A z \in squads : grants'[z] = grants[z]
    BY <1>2, <1>3, <1>4
  <2>2. Content(p)' = Content(p)
    BY <1>2, <2>1, ContentBySquads DEF CreateSquad
  <2>. QED
    BY <2>2, SameLatest DEF CreateSquad, nodeVars
<1>. QED
  BY <1>5, <1>6, <1>7, <1>8 DEF CreateSquad, nodeVars, IInv, Follows, Due

(* Requests and jobs that are asked for owe nothing yet.                     *)
LEMMA AskedFollows ==
    ASSUME IInv, NEW s \in Squads,
           QueueJob(s) \/ \E r \in Requests : UpdateSquad(r, s) \/ DeleteSquad(r, s)
    PROVE  Vanished' /\ Follows'
<1>1. /\ UNCHANGED dbVars /\ UNCHANGED nodeVars /\ UNCHANGED job /\ UNCHANGED missed
  BY DEF QueueJob, UpdateSquad, DeleteSquad
<1>2. \A q \in Requests : req[q] # None => req'[q] = req[q]
  BY DEF QueueJob, UpdateSquad, DeleteSquad, IInv, TypeOK
<1>3. \A q \in Requests : OwedBy(q) \subseteq OwedBy(q)'
  BY <1>1, <1>2, OwedSame DEF OwedBy, dbVars
<1>. QED
  BY <1>1, <1>3, OwedSame, SameContent, SameLatest DEF dbVars, nodeVars, IInv, Vanished, Follows, Due

LEMMA WriteFollows ==
    ASSUME IInv, NEW r \in Requests, WriteInbounds(r)
    PROVE  Vanished' /\ Follows'
<1> DEFINE s == req[r].squad
<1>1. /\ req[r] \in Request /\ s \in Squads
      /\ req[r].before \in SUBSET Inbounds /\ req[r].wanted \in SUBSET Inbounds
  BY SlotTypes, TypeParts DEF WriteInbounds, Is, IInv
<1>2. grants[s] \in SUBSET Inbounds
  BY <1>1 DEF IInv, TypeOK
<1>3. PICK kept \in SUBSET (grants[s] \ (req[r].before \cup req[r].wanted)) :
        grants' = [grants EXCEPT ![s] = req[r].wanted \cup kept]
  BY DEF WriteInbounds
<1> DEFINE G == req[r].wanted \cup kept
<1>4. G \in SUBSET Inbounds /\ grants' = [grants EXCEPT ![s] = G]
  BY <1>1, <1>2, <1>3
<1>5. req' = [req EXCEPT ![r] = [req[r] EXCEPT !.at = "reread"]]
  BY DEF WriteInbounds, Goto
<1>6. /\ req'[r] = [req[r] EXCEPT !.at = "reread"]
      /\ \A q \in Requests : q # r => req'[q] = req[q]
  BY <1>5, OtherRequests DEF IInv
<1>7. OwedBy(r) = {} /\ OwedBy(r)' = Differing(req[r].before, G)
  <2>1. OwedBy(r) = {}
    BY DEF WriteInbounds, Is, OwedBy
  <2>2. [req[r] EXCEPT !.at = "reread"] \in Request
    BY <1>1, RequestFields
  <2>3. /\ req'[r] # None /\ req'[r].at = "reread"
        /\ req'[r].before = req[r].before /\ req'[r].squad = s
    BY <1>1, <1>6, <2>2, SquadAssumption DEF Request
  <2>4. grants'[s] = G
    BY <1>1, <1>4 DEF IInv, TypeOK
  <2>. QED
    BY <2>1, <2>3, <2>4 DEF OwedBy, Differing, Of
<1>8. missed' = missed \cup Differing(req[r].before, grants[s])
  BY DEF WriteInbounds
<1>9. ASSUME NEW p \in Profiles, p \in Differing(grants[s], G) PROVE Due(p)'
  <2>1. p \in Differing(grants[s], req[r].before) \/ p \in Differing(req[r].before, G)
    BY <1>9, Triangle
  <2>2. Differing(grants[s], req[r].before) = Differing(req[r].before, grants[s])
    BY DEF Differing, Of
  <2>. QED
    BY <1>7, <1>8, <2>1, <2>2 DEF Due
<1>10. ASSUME NEW p \in Profiles, Due(p) PROVE Due(p)'
  <2>1. CASE p \in missed \/ p \in asked
    BY <1>8, <2>1 DEF Due, WriteInbounds, nodeVars
  <2>2. ASSUME NEW q \in Requests, p \in OwedBy(q) PROVE Due(p)'
    <3>1. req'[q] = req[q]
      BY <1>6, <1>7, <2>2
    <3>. QED
      BY <1>1, <1>4, <1>9, <2>2, <3>1, OwedByOthers DEF IInv, Due
  <2>3. CASE p \in OwedByJob
    BY <1>1, <1>4, <1>9, <2>3, OwedByOthers DEF IInv, Due, WriteInbounds
  <2>. QED
    BY <1>10, <2>1, <2>2, <2>3 DEF Due
<1>11. ASSUME NEW p \in Profiles PROVE Latest(p)' = Content(p)' \/ Due(p)'
  <2>1. CASE p \in Differing(grants[s], G)
    BY <1>9, <2>1
  <2>2. CASE p \notin Differing(grants[s], G)
    <3>1. Content(p)' = Content(p)
      BY <1>1, <1>4, <2>2, ContentByGrants DEF IInv, WriteInbounds
    <3>2. Latest(p)' = Latest(p)
      BY SameLatest DEF WriteInbounds, nodeVars
    <3>. QED
      BY <1>10, <3>1, <3>2 DEF IInv, Follows
  <2>. QED
    BY <2>1, <2>2
<1>12. Vanished'
  <2>1. ASSUME NEW z \in Squads \ squads PROVE grants'[z] = {}
    <3>1. grants[z] = {}
      BY DEF IInv, Vanished
    <3>2. CASE z = s
      <4>1. req[r].wanted = {}
        BY <3>2 DEF WriteInbounds
      <4>. QED
        BY <1>1, <1>3, <3>1, <3>2, <4>1 DEF IInv, TypeOK
    <3>3. CASE z # s
      BY <1>4, <3>1, <3>3 DEF IInv, TypeOK
    <3>. QED
      BY <3>2, <3>3
  <2>. QED
    BY <2>1 DEF WriteInbounds, IInv, Vanished
<1>. QED
  BY <1>11, <1>12 DEF Follows

LEMMA DeleteFollows ==
    ASSUME IInv, NEW r \in Requests, DeleteRow(r)
    PROVE  Vanished' /\ Follows'
<1> DEFINE s == req[r].squad
<1> DEFINE todo == Of(req[r].before)
<1>1. req[r] \in Request /\ s \in Squads /\ req[r].before \in SUBSET Inbounds
  BY SlotTypes, TypeParts DEF DeleteRow, Is, IInv
<1>2. /\ grants' = [grants EXCEPT ![s] = {}] /\ members' = [members EXCEPT ![s] = {}]
      /\ squads' = squads \ {s} /\ s \in squads
      /\ missed' = missed \cup (Of(grants[s]) \ todo)
      /\ UNCHANGED <<queue, job, asked, restart, loaded>>
  BY DEF DeleteRow, nodeVars
<1>3. /\ grants'[s] = {} /\ members'[s] = {}
      /\ \A z \in Squads : z # s => grants'[z] = grants[z] /\ members'[z] = members[z]
  BY <1>1, <1>2 DEF IInv, TypeOK
<1>4. Vanished'
  BY <1>2, <1>3 DEF IInv, Vanished
<1>5. OwedBy(r) = {} /\ todo \subseteq OwedBy(r)'
  <2>1. OwedBy(r) = {}
    BY DEF DeleteRow, Is, OwedBy
  <2>2. CASE todo = {}
    BY <2>1, <2>2
  <2>3. CASE todo # {}
    <3>1. req' = [req EXCEPT ![r] = [req[r] EXCEPT !.at = "ask", !.todo = todo]]
      BY <2>3 DEF DeleteRow, Goto
    <3>2. req'[r] = [req[r] EXCEPT !.at = "ask", !.todo = todo]
      BY <3>1, OtherRequests DEF IInv
    <3>3. [req[r] EXCEPT !.at = "ask", !.todo = todo] \in Request
      BY <1>1, RequestFields, ProfileTypes
    <3>4. req'[r] # None /\ req'[r].at = "ask" /\ req'[r].todo = todo
      BY <1>1, <3>2, <3>3, SquadAssumption DEF Request
    <3>. QED
      BY <2>1, <3>4 DEF OwedBy
  <2>. QED
    BY <2>2, <2>3
<1>6. \A q \in Requests : q # r => req'[q] = req[q]
  BY OtherRequests DEF DeleteRow, End, Goto, IInv
<1>7. ASSUME NEW p \in Profiles, p \in Of(grants[s]) PROVE Due(p)'
  BY <1>2, <1>5, <1>7 DEF Due
<1>8. ASSUME NEW p \in Profiles, Due(p) PROVE Due(p)'
  <2>1. CASE p \in missed \/ p \in asked
    BY <1>2, <2>1 DEF Due
  <2>2. Differing(grants[s], {}) = Of(grants[s])
    BY NothingDiffers
  <2>3. ASSUME NEW q \in Requests, p \in OwedBy(q) PROVE Due(p)'
    <3>1. req'[q] = req[q]
      BY <1>5, <1>6, <2>3
    <3>. QED
      BY <1>1, <1>2, <1>7, <2>2, <2>3, <3>1, OwedByOthers DEF IInv, Due
  <2>4. CASE p \in OwedByJob
    BY <1>1, <1>2, <1>7, <2>2, <2>4, OwedByOthers DEF IInv, Due
  <2>. QED
    BY <1>8, <2>1, <2>3, <2>4 DEF Due
<1>9. ASSUME NEW p \in Profiles, p \notin Of(grants[s]) PROVE Content(p)' = Content(p)
  <2>1. \A a \in Users \X In(p) : a[2] \in In(p)
    OBVIOUS
  <2>2. ASSUME NEW i \in In(p) PROVE i \notin grants[s]
    BY <1>9 DEF In, Of
  <2>3. squads \subseteq Squads
    BY DEF IInv, TypeOK
  <2>4. \A z \in squads' : z # s /\ z \in squads /\ grants'[z] = grants[z] /\ members'[z] = members[z]
    BY <1>2, <1>3, <2>3
  <2>5. \A z \in squads : z # s => z \in squads'
    BY <1>2
  <2>6. \A a \in Users \X In(p) :
          (\E z \in squads' : a[1] \in members'[z] /\ a[2] \in grants'[z])
          <=> (\E z \in squads : a[1] \in members[z] /\ a[2] \in grants[z])
    BY <2>1, <2>2, <2>4, <2>5
  <2>. QED
    BY <2>6 DEF Content, In
<1>. QED
  BY <1>2, <1>4, <1>7, <1>8, <1>9, SameLatest DEF IInv, Follows

(* A request that only moves on: the rest of what it owed is asked for, or   *)
(* missed.                                                                  *)
LEMMA RequestMoves ==
    ASSUME IInv, NEW r \in Requests, NEW o, req' = [req EXCEPT ![r] = o],
           UNCHANGED <<squads, grants, members, job, restart, loaded>>,
           asked \subseteq asked', missed \subseteq missed',
           OwedBy(r) \subseteq OwedBy(r)' \cup asked' \cup missed'
    PROVE  Vanished' /\ Follows'
<1>1. \A q \in Requests : q # r => OwedBy(q)' = OwedBy(q)
  BY OtherRequests, OwedSame DEF IInv
<1>2. OwedByJob' = OwedByJob
  BY OwedSame
<1>3. ASSUME NEW p \in Profiles, Due(p) PROVE Due(p)'
  BY <1>1, <1>2, <1>3 DEF Due
<1>. QED
  BY <1>3, SameContent, SameLatest DEF dbVars, IInv, Vanished, Follows

LEMMA RequestFollows ==
    ASSUME IInv, NEW r \in Requests,
           ReadInbounds(r) \/ RereadInbounds(r) \/ AskRestart(r) \/ RequestFails(r)
    PROVE  Vanished' /\ Follows'
<1>1. /\ req[r] # None /\ req[r] \in Request
      /\ req[r].todo \in SUBSET Profiles /\ req[r].before \in SUBSET Inbounds
      /\ grants[req[r].squad] \in SUBSET Inbounds
  <2>1. req[r] # None
    BY DEF ReadInbounds, RereadInbounds, AskRestart, RequestFails, Is
  <2>. QED
    BY <2>1, SlotTypes, TypeParts DEF IInv, DbOK
<1>2. CASE ReadInbounds(r)
  <2>1. OwedBy(r) = {}
    BY <1>2 DEF ReadInbounds, Is, OwedBy
  <2>. QED
    BY <1>2, <2>1, RequestMoves DEF ReadInbounds, Goto, dbVars, nodeVars
<1>3. CASE RereadInbounds(r)
  <2> DEFINE todo == Differing(req[r].before, grants[req[r].squad])
  <2>1. OwedBy(r) = todo
    BY <1>3 DEF RereadInbounds, Is, OwedBy
  <2>2. CASE todo = {}
    BY <1>3, <2>1, <2>2, RequestMoves DEF RereadInbounds, Affected, End, dbVars, nodeVars
  <2>3. CASE todo # {}
    <3>1. req' = [req EXCEPT ![r] = [req[r] EXCEPT !.at = "ask", !.todo = todo]]
      BY <1>3, <2>3 DEF RereadInbounds, Affected, Goto
    <3>2. req'[r] = [req[r] EXCEPT !.at = "ask", !.todo = todo]
      BY <3>1, OtherRequests DEF IInv
    <3>3. [req[r] EXCEPT !.at = "ask", !.todo = todo] \in Request
      BY <1>1, RequestFields, ProfileTypes
    <3>4. req'[r] # None /\ req'[r].at = "ask" /\ req'[r].todo = todo
      BY <1>1, <3>2, <3>3, SquadAssumption DEF Request
    <3>5. OwedBy(r)' = todo
      BY <3>4 DEF OwedBy
    <3>. QED
      BY <1>3, <2>1, <3>1, <3>5, RequestMoves DEF RereadInbounds, dbVars, nodeVars
  <2>. QED
    BY <2>2, <2>3
<1>4. CASE AskRestart(r)
  <2>1. OwedBy(r) = req[r].todo
    BY <1>4 DEF AskRestart, OwedBy
  <2>2. PICK p \in req[r].todo :
          /\ asked' = asked \cup {p}
          /\ IF req[r].todo = {p} THEN End(r) ELSE Goto(r, [req[r] EXCEPT !.todo = @ \ {p}])
    BY <1>4 DEF AskRestart
  <2>3. CASE req[r].todo = {p}
    BY <1>4, <2>1, <2>2, <2>3, RequestMoves DEF AskRestart, End, dbVars
  <2>4. CASE req[r].todo # {p}
    <3>1. req' = [req EXCEPT ![r] = [req[r] EXCEPT !.todo = req[r].todo \ {p}]]
      BY <2>2, <2>4 DEF Goto
    <3>2. req'[r] = [req[r] EXCEPT !.todo = req[r].todo \ {p}]
      BY <3>1, OtherRequests DEF IInv
    <3>3. [req[r] EXCEPT !.todo = req[r].todo \ {p}] \in Request
      BY <1>1, RequestFields
    <3>4. req'[r] # None /\ req'[r].at = "ask" /\ req'[r].todo = req[r].todo \ {p}
      BY <1>1, <1>4, <3>2, <3>3, SquadAssumption DEF Request, AskRestart
    <3>5. OwedBy(r)' = req[r].todo \ {p}
      BY <3>4 DEF OwedBy
    <3>. QED
      BY <1>4, <2>1, <2>2, <3>1, <3>5, RequestMoves DEF AskRestart, dbVars
  <2>. QED
    BY <2>3, <2>4
<1>5. CASE RequestFails(r)
  BY <1>5, RequestMoves DEF RequestFails, End, dbVars, nodeVars
<1>. QED
  BY <1>2, <1>3, <1>4, <1>5

(* A job moves on in the same way.                                           *)
LEMMA JobMoves ==
    ASSUME IInv, UNCHANGED <<squads, grants, members, req, restart, loaded>>,
           asked \subseteq asked', missed \subseteq missed',
           OwedByJob \subseteq OwedByJob' \cup asked' \cup missed'
    PROVE  Vanished' /\ Follows'
<1>1. \A q \in Requests : OwedBy(q)' = OwedBy(q)
  BY OwedSame
<1>2. ASSUME NEW p \in Profiles, Due(p) PROVE Due(p)'
  BY <1>1, <1>2 DEF Due
<1>. QED
  BY <1>2, SameContent, SameLatest DEF dbVars, IInv, Vanished, Follows

LEMMA MembersFollow ==
    ASSUME IInv, WriteMembers
    PROVE  Vanished' /\ Follows'
<1>1. job \in Job /\ job # None /\ job.squad \in Squads
  BY JobHeld, JobFields, TypeParts DEF WriteMembers, IInv
<1>2. /\ job'.squad = job.squad /\ job'.at = "profiles" /\ job' # None
  <2>1. job' = [job EXCEPT !.at = "profiles"]
    BY DEF WriteMembers
  <2>2. job' \in Job
    BY <1>1, <2>1, JobFields
  <2>. QED
    BY <1>1, <2>1, <2>2, SquadAssumption DEF Job
<1>3. OwedByJob = Of(grants[job.squad]) /\ OwedByJob' = OwedByJob
  BY <1>1, <1>2 DEF WriteMembers, OwedByJob, Of
<1>4. CASE UNCHANGED members
  BY <1>3, <1>4, JobMoves DEF WriteMembers, nodeVars
<1>5. ASSUME NEW M, members' = [members EXCEPT ![job.squad] = M], job.squad \in squads
      PROVE  Vanished' /\ Follows'
  <2>1. Vanished'
    BY <1>5 DEF WriteMembers, IInv, Vanished, TypeOK
  <2>2. \A q \in Requests : OwedBy(q)' = OwedBy(q)
    BY OwedSame DEF WriteMembers
  <2>3. ASSUME NEW p \in Profiles, Due(p) PROVE Due(p)'
    BY <1>3, <2>2, <2>3 DEF Due, WriteMembers, nodeVars
  <2>4. ASSUME NEW p \in Profiles, p \notin Of(grants[job.squad]) PROVE Content(p)' = Content(p)
    BY <1>1, <1>5, <2>4, ContentByMembers DEF IInv, WriteMembers
  <2>5. ASSUME NEW p \in Profiles, p \in Of(grants[job.squad]) PROVE Due(p)'
    BY <1>3, <2>5 DEF Due
  <2>6. \A p \in Profiles : Latest(p)' = Latest(p)
    BY SameLatest DEF WriteMembers, nodeVars
  <2>. QED
    BY <2>1, <2>3, <2>4, <2>5, <2>6 DEF IInv, Follows
<1>. QED
  BY <1>4, <1>5 DEF WriteMembers

LEMMA JobFollows ==
    ASSUME IInv, JobStep \/ JobFails
    PROVE  Vanished' /\ Follows'
<1>1. CASE StartJob
  <2>1. OwedByJob = {}
    BY <1>1 DEF StartJob, OwedByJob
  <2>. QED
    BY <1>1, <2>1, JobMoves DEF StartJob, dbVars, nodeVars
<1>2. CASE FindProfiles
  <2>1. job \in Job /\ job # None /\ job.squad \in Squads
    BY <1>2, JobHeld, JobFields, TypeParts DEF FindProfiles, IInv
  <2> DEFINE todo == Of(grants[job.squad])
  <2>2. OwedByJob = todo
    BY <1>2 DEF FindProfiles, OwedByJob
  <2>3. CASE todo = {}
    BY <1>2, <2>2, <2>3, JobMoves DEF FindProfiles, dbVars, nodeVars
  <2>4. CASE todo # {}
    <3>1. job' = [job EXCEPT !.at = "ask", !.todo = todo]
      BY <1>2, <2>4 DEF FindProfiles, Concerned
    <3>2. todo \in SUBSET Profiles
      BY <2>1, ProfileTypes, TypeParts DEF IInv, DbOK
    <3>3. job' \in Job
      BY <2>1, <3>1, <3>2, JobFields
    <3>4. job' # None /\ job'.at = "ask" /\ job'.todo = todo
      BY <2>1, <3>1, <3>3, SquadAssumption DEF Job
    <3>5. OwedByJob' = todo
      BY <3>4 DEF OwedByJob
    <3>. QED
      BY <1>2, <2>2, <3>5, JobMoves DEF FindProfiles, dbVars, nodeVars
  <2>. QED
    BY <2>3, <2>4
<1>3. CASE AskProfile
  <2>1. job \in Job /\ job # None /\ job.todo \in SUBSET Profiles
    BY <1>3, JobHeld, JobFields, TypeParts DEF AskProfile, IInv
  <2>2. OwedByJob = job.todo
    BY <1>3 DEF AskProfile, OwedByJob
  <2>3. PICK p \in job.todo :
          /\ asked' = asked \cup {p}
          /\ job' = IF job.todo = {p} THEN None ELSE [job EXCEPT !.todo = @ \ {p}]
    BY <1>3 DEF AskProfile
  <2>4. CASE job.todo = {p}
    BY <1>3, <2>2, <2>3, <2>4, JobMoves DEF AskProfile, dbVars
  <2>5. CASE job.todo # {p}
    <3>1. job' = [job EXCEPT !.todo = job.todo \ {p}]
      BY <2>3, <2>5
    <3>2. job' \in Job
      BY <2>1, <3>1, JobFields
    <3>3. job' # None /\ job'.at = "ask" /\ job'.todo = job.todo \ {p}
      BY <1>3, <2>1, <3>1, <3>2, SquadAssumption DEF Job, AskProfile
    <3>4. OwedByJob' = job.todo \ {p}
      BY <3>3 DEF OwedByJob
    <3>. QED
      BY <1>3, <2>2, <2>3, <3>4, JobMoves DEF AskProfile, dbVars
  <2>. QED
    BY <2>4, <2>5
<1>4. CASE JobFails
  <2>1. job \in Job /\ job # None
    BY <1>4, JobHeld, TypeParts DEF JobFails, IInv
  <2>2. CASE job' = [job EXCEPT !.at = "write", !.todo = {}] /\ missed' = missed \cup (OwedByJob \ Of(grants[job.squad]))
    <3>1. job' \in Job
      BY <2>1, <2>2, JobFields
    <3>2. job' # None /\ job'.at = "write" /\ job'.squad = job.squad
      BY <2>1, <2>2, <3>1, SquadAssumption DEF Job
    <3>3. OwedByJob' = Of(grants[job.squad])
      BY <1>4, <3>2 DEF OwedByJob, Of, JobFails, dbVars
    <3>. QED
      BY <1>4, <2>2, <3>3, JobMoves DEF JobFails, dbVars, nodeVars
  <2>. QED
    BY <1>4, <2>2, JobMoves DEF JobFails, dbVars, nodeVars
<1>. QED
  BY <1>1, <1>2, <1>3, <1>4, MembersFollow DEF JobStep

LEMMA RestartFollows ==
    ASSUME IInv, NEW p \in Profiles, RestartStep(p)
    PROVE  Vanished' /\ Follows'
<1>1. UNCHANGED <<squads, grants, members, req, job, missed>>
  BY DEF RestartStep, BeginRestart, EndRestart, dbVars
<1>2. Vanished'
  BY <1>1 DEF IInv, Vanished
<1>3. \A q \in Profiles : Content(q)' = Content(q)
  BY <1>1, SameContent DEF dbVars
<1>4. (\A r \in Requests : OwedBy(r)' = OwedBy(r)) /\ OwedByJob' = OwedByJob
  BY <1>1, OwedSame
<1>5. CASE BeginRestart(p)
  <2>1. restart'[p] = [read |-> Content(p)] /\ \A q \in Profiles : q # p => restart'[q] = restart[q]
    BY <1>5 DEF BeginRestart, IInv, TypeOK
  <2>2. restart'[p] # None /\ restart'[p].read = Content(p)
    BY <2>1, ContentType, SquadAssumption DEF Reading
  <2>3. Latest(p)' = Content(p)'
    BY <1>3, <2>2 DEF Latest
  <2>4. \A q \in Profiles : q # p => Latest(q)' = Latest(q) /\ (Due(q) => Due(q)')
    BY <1>1, <1>4, <1>5, <2>1 DEF BeginRestart, Latest, Due
  <2>. QED
    BY <1>2, <1>3, <2>3, <2>4 DEF IInv, Follows
<1>6. CASE EndRestart(p)
  <2>1. /\ restart'[p] = None /\ loaded'[p] = restart[p].read
        /\ \A q \in Profiles : q # p => restart'[q] = restart[q] /\ loaded'[q] = loaded[q]
    BY <1>6 DEF EndRestart, IInv, TypeOK
  <2>2. \A q \in Profiles : Latest(q)' = Latest(q)
    BY <1>6, <2>1 DEF EndRestart, Latest
  <2>3. \A q \in Profiles : Due(q) => Due(q)'
    BY <1>1, <1>4, <1>6 DEF EndRestart, Due
  <2>. QED
    BY <1>2, <1>3, <2>2, <2>3 DEF IInv, Follows
<1>. QED
  BY <1>5, <1>6 DEF RestartStep

LEMMA StepInv ==
    ASSUME IInv, [Next]_vars
    PROVE  IInv'
<1>1. TypeOK'
  BY StepType DEF IInv
<1>2. CASE UNCHANGED vars
  <2>1. /\ \A q \in Requests : OwedBy(q)' = OwedBy(q)
        /\ OwedByJob' = OwedByJob
    BY <1>2, OwedSame DEF vars, dbVars
  <2>2. \A p \in Profiles : Due(p) => Due(p)'
    BY <1>2, <2>1 DEF vars, nodeVars, Due
  <2>. QED
    BY <1>1, <1>2, <2>2, SameContent, SameLatest DEF vars, dbVars, nodeVars, IInv, Vanished, Follows
<1>3. ASSUME NEW r \in Requests, RequestStep(r) \/ RequestFails(r) PROVE Vanished' /\ Follows'
  BY <1>3, WriteFollows, DeleteFollows, RequestFollows DEF RequestStep
<1>4. ASSUME NEW s \in Squads,
             \/ CreateSquad(s) \/ QueueJob(s)
             \/ \E r \in Requests : UpdateSquad(r, s) \/ DeleteSquad(r, s)
      PROVE  Vanished' /\ Follows'
  BY <1>4, CreateFollows, AskedFollows
<1>. QED
  BY <1>1, <1>2, <1>3, <1>4, JobFollows, RestartFollows DEF Next, IInv

(* The nodes of a profile let in who the squads say, or a restart was asked  *)
(* for, or a request or job at work owes one, unless a failure or an         *)
(* overtaken comparison has left the profile out: for any number of          *)
(* requests, squads and profiles at once.                                   *)
THEOREM NodesFollow == Spec => []NodesFollowSquads
<1>1. Init => IInv
  <2>1. Init => Vanished
    BY DEF Init, Vanished
  <2>2. Init => Follows
    BY DEF Init, Follows, Latest
  <2>. QED
    BY <2>1, <2>2, InitType DEF IInv
<1>2. IInv => NodesFollowSquads
  BY FollowsMeans DEF IInv
<1>. QED
  BY <1>1, <1>2, StepInv, PTL DEF Spec
=============================================================================
