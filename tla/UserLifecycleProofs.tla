------------------------ MODULE UserLifecycleProofs ------------------------
(* Proofs about UserLifecycle for every set of users and slots and every    *)
(* bound.                                                                   *)
EXTENDS UserLifecycle, FiniteSetTheorems, TLAPS

-----------------------------------------------------------------------------
(* The operators the actions are built from stay within the types.          *)

Row == Status \cup {"NEW", "GONE"}
Bags == [Users -> [Call -> Nat]]
ResetJob == [stage : {"idle", "select", "zero", "limited"}, due : SUBSET Users,
             targets : SUBSET Users, rest : SUBSET Users, all : BOOLEAN]
BulkJob == [stage : {"idle", "limited", "expired", "restart"}, expired : BOOLEAN]

LEMMA IdleTypes ==
    /\ [u \in Users |-> NoCalls] \in Bags
    /\ IdleReset \in ResetJob
    /\ IdleBulk \in BulkJob
BY DEF NoCalls, Bags, IdleReset, ResetJob, IdleBulk, BulkJob

LEMMA PutType ==
    ASSUME NEW bag \in Bags, NEW S, NEW k \in Call
    PROVE  Put(bag, S, k) \in Bags
<1>1. ASSUME NEW u \in Users
      PROVE  (IF u \in S THEN [bag[u] EXCEPT ![k] = @ + 1] ELSE bag[u]) \in [Call -> Nat]
  <2>1. bag[u] \in [Call -> Nat]
    BY DEF Bags
  <2>. QED
    BY <2>1
<1>. QED
  BY <1>1 DEF Put, Bags

LEMMA TakeType ==
    ASSUME NEW bag \in Bags, NEW u \in Users, NEW k \in Call, bag[u][k] > 0
    PROVE  [bag EXCEPT ![u][k] = @ - 1] \in Bags
<1>1. bag[u] \in [Call -> Nat] /\ bag[u][k] \in Nat
  BY DEF Bags
<1>2. [bag[u] EXCEPT ![k] = @ - 1] \in [Call -> Nat]
  BY <1>1
<1>. QED
  BY <1>2 DEF Bags

LEMMA QueuedType ==
    ASSUME jobs \in Bags, NEW u \in Users, NEW k \in Call \cup {None}
    PROVE  Queued(u, k) \in Bags
<1>1. "remove" \in Call /\ "add" \in Call
  BY DEF Call
<1>. QED
  BY <1>1, PutType DEF Queued

LEMMA AssignType ==
    ASSUME status \in [Users -> Row], NEW S, NEW st \in Status \cup {"GONE"}
    PROVE  Assign(S, st) \in [Users -> Row]
BY DEF Assign, Row

LEMMA ZeroedType ==
    ASSUME used \in [Users -> Nat], NEW S
    PROVE  Zeroed(S) \in [Users -> Nat]
BY DEF Zeroed

LEMMA SlipsType ==
    ASSUME slipped \in SUBSET Users, NEW S \in SUBSET Users, Slips(S)
    PROVE  slipped' \in SUBSET Users
BY DEF Slips

LEMMA BeginsType ==
    ASSUME adrift \in SUBSET Users, NEW S \in SUBSET Users, Begins(S)
    PROVE  adrift' \in SUBSET Users
BY DEF Begins

LEMMA MishapType ==
    ASSUME mishaps \in Nat, Mishap \/ UNCHANGED mishaps
    PROVE  mishaps' \in Nat
BY DEF Mishap

LEMMA AnnounceType ==
    ASSUME TypeOK, NEW S \in SUBSET Users, NEW k \in Call, NEW restart \in BOOLEAN,
           Announce(S, k, restart)
    PROVE  /\ fired' \in Bags
           /\ wanted' \in BOOLEAN
           /\ mishaps' \in Nat
           /\ adrift' \in SUBSET Users
<1>1. fired \in Bags
  BY DEF TypeOK, Bags
<1>2. CASE /\ Begins(S)
           /\ fired' = IF Cardinality(S) < RestartCap THEN Put(fired, S, k) ELSE fired
           /\ wanted' = (wanted \/ restart \/ Cardinality(S) >= RestartCap)
           /\ UNCHANGED mishaps
  <2>1. fired' \in Bags
    BY <1>1, <1>2, PutType
  <2>2. wanted' \in BOOLEAN
    BY <1>2
  <2>3. adrift' \in SUBSET Users
    BY <1>2, BeginsType DEF TypeOK
  <2>. QED
    BY <1>2, <2>1, <2>2, <2>3 DEF TypeOK
<1>3. CASE Mishap /\ adrift' = adrift \cup S /\ UNCHANGED <<fired, wanted>>
  BY <1>1, <1>3 DEF TypeOK, Mishap
<1>. QED
  BY <1>2, <1>3 DEF Announce

LEMMA StartBatchType ==
    ASSUME TypeOK, StartBatch
    PROVE  batches' \in Nat
BY DEF TypeOK, StartBatch

-----------------------------------------------------------------------------
(* What a request decides is a request.                                     *)

LEMMA DecisionType ==
    ASSUME NEW u \in Users
    PROVE  Decision(u) \in Op
BY DEF Decision, Op, Call, Status

LEMMA LeftType ==
    ASSUME NEW d \in Op
    PROVE  Left(d) \in Op \cup {None}
BY DEF Left

LEMMA SeenType ==
    ASSUME TypeOK, NEW u \in Users, Exists(u)
    PROVE  Seen(u) \in Status \X Limits
BY DEF TypeOK, Seen, Exists

LEMMA StartsType ==
    ASSUME TypeOK, NEW s \in Slots, NEW u \in Users, NEW d \in Op, Starts(s, u, d)
    PROVE  /\ op' \in [Slots -> Op \cup {None}]
           /\ requests' \in Nat
           /\ adrift' \in SUBSET Users
<1>1. op' \in [Slots -> Op \cup {None}]
  BY LeftType DEF TypeOK, Starts
<1>2. adrift' \in SUBSET Users
  BY BeginsType DEF TypeOK, Starts
<1>. QED
  BY <1>1, <1>2 DEF TypeOK, Starts

LEMMA ReadsType ==
    ASSUME TypeOK, NEW s \in Slots, NEW u \in Users, NEW d \in Op, Reads(s, u, d)
    PROVE  TypeOK'
<1>1. Starts(s, u, d) /\ UNCHANGED <<rowVars, jobs, slipped>>
  BY DEF Reads
<1>2. UNCHANGED <<batchVars, fired, onNode, wanted, roster, batches, mishaps>>
  BY <1>1 DEF Starts
<1>. QED
  BY <1>1, <1>2, StartsType DEF TypeOK, rowVars, batchVars

LEMMA UpdateType ==
    ASSUME TypeOK, NEW s \in Slots, NEW u \in Users, UpdateUser(s, u)
    PROVE  TypeOK'
<1>1. PICK st \in {None, "ACTIVE", "DISABLED"}, lim \in Limits \cup {None}, date \in BOOLEAN,
           squads \in Squads \cup {None} :
        LET enables  == status[u] # "ACTIVE" /\ st = "ACTIVE"
            disables == status[u] = "ACTIVE" /\ st = "DISABLED"
            raises   == lim # None /\ status[u] = "LIMITED" /\ (lim > limit[u] \/ lim = 0)
            revives  == status[u] = "EXPIRED" /\ date /\ st = None
            changes  == squads # None /\ {squads, squad[u]} # {"none"}
            add      == IF changes THEN squads # "none" ELSE enables \/ raises \/ revives
            remove   == IF changes THEN squads = "none" ELSE disables
        IN Reads(s, u, [Decision(u) EXCEPT
                !.seen = IF lim = None THEN None ELSE Seen(u),
                !.status = IF disables THEN "DISABLED"
                           ELSE IF enables \/ raises \/ revives THEN "ACTIVE" ELSE None,
                !.limit = lim, !.renew = date, !.squad = IF changes THEN squads ELSE None,
                !.emit = IF remove THEN "remove" ELSE IF add THEN "add" ELSE None])
  BY DEF UpdateUser
<1> DEFINE enables  == status[u] # "ACTIVE" /\ st = "ACTIVE"
           disables == status[u] = "ACTIVE" /\ st = "DISABLED"
           raises   == lim # None /\ status[u] = "LIMITED" /\ (lim > limit[u] \/ lim = 0)
           revives  == status[u] = "EXPIRED" /\ date /\ st = None
           changes  == squads # None /\ {squads, squad[u]} # {"none"}
           add      == IF changes THEN squads # "none" ELSE enables \/ raises \/ revives
           remove   == IF changes THEN squads = "none" ELSE disables
           sn == IF lim = None THEN None ELSE Seen(u)
           stt == IF disables THEN "DISABLED"
                  ELSE IF enables \/ raises \/ revives THEN "ACTIVE" ELSE None
           sq == IF changes THEN squads ELSE None
           em == IF remove THEN "remove" ELSE IF add THEN "add" ELSE None
           d == [Decision(u) EXCEPT !.seen = sn, !.status = stt, !.limit = lim, !.renew = date,
                                    !.squad = sq, !.emit = em]
<1>2. Reads(s, u, d)
  BY <1>1
<1>3. Exists(u)
  BY <1>2 DEF Reads
<1>4. sn \in (Status \X Limits) \cup {None}
  BY <1>3, SeenType
<1>5. stt \in {"ACTIVE", "DISABLED", "GONE", "revive", None}
  OBVIOUS
<1>6. sq \in Squads \cup {None} /\ em \in Call \cup {None}
  BY DEF Call
<1>7. d \in Op
  <2> HIDE DEF enables, disables, raises, revives, changes, add, remove, sn, stt, sq, em
  <2>. QED
    BY <1>4, <1>5, <1>6 DEF Decision, Op
<1>. QED
  <2> HIDE DEF d
  <2>. QED
    BY <1>2, <1>7, ReadsType

LEMMA RequestType ==
    ASSUME TypeOK, NEW s \in Slots, NEW u \in Users, Request(s, u)
    PROVE  TypeOK'
<1>1. CASE CreateUser(s, u)
  <2> DEFINE d == [Decision(u) EXCEPT !.stage = "publish", !.emit = "add", !.again = "active"]
  <2>1. PICK st \in Status, late \in BOOLEAN :
          /\ status' = [status EXCEPT ![u] = st]
          /\ overdue' = IF late THEN overdue \cup {u} ELSE overdue
          /\ slipped' = IF st = "LIMITED" THEN slipped \cup {u} ELSE slipped
    BY <1>1 DEF CreateUser
  <2>2. d \in Op
    BY DEF Decision, Op, Call
  <2>3. Starts(s, u, d) /\ UNCHANGED <<used, limit, squad, jobs>>
    BY <1>1 DEF CreateUser
  <2>4. op' \in [Slots -> Op \cup {None}] /\ requests' \in Nat /\ adrift' \in SUBSET Users
    <3> HIDE DEF d
    <3>. QED
      BY <2>2, <2>3, StartsType
  <2>5. UNCHANGED <<batchVars, fired, onNode, wanted, roster, batches, mishaps>>
    BY <2>3 DEF Starts
  <2>6. status' \in [Users -> Status \cup {"NEW", "GONE"}]
    BY <2>1 DEF TypeOK
  <2>7. overdue' \in SUBSET Users /\ slipped' \in SUBSET Users
    BY <2>1 DEF TypeOK
  <2>. QED
    BY <2>3, <2>4, <2>5, <2>6, <2>7 DEF TypeOK, batchVars
<1>2. CASE UpdateUser(s, u)
  BY <1>2, UpdateType
<1>3. CASE DisableUser(s, u)
  <2> DEFINE d == [Decision(u) EXCEPT !.status = "DISABLED", !.emit = "remove",
                                      !.again = "exists"]
  <2>1. d \in Op
    BY DEF Decision, Op, Call
  <2>2. Reads(s, u, d)
    BY <1>3 DEF DisableUser
  <2>. QED
    BY <2>1, <2>2, ReadsType
<1>4. CASE EnableUser(s, u)
  <2> DEFINE d == [Decision(u) EXCEPT !.status = "ACTIVE", !.emit = "add",
                                      !.again = "exists"]
  <2>1. d \in Op
    BY DEF Decision, Op, Call
  <2>2. Reads(s, u, d)
    BY <1>4 DEF EnableUser
  <2>. QED
    BY <2>1, <2>2, ReadsType
<1>5. CASE ResetUserTraffic(s, u)
  <2> DEFINE st == IF status[u] = "LIMITED" THEN "ACTIVE" ELSE None
             d == [Decision(u) EXCEPT !.seen = Seen(u), !.zero = TRUE, !.status = st]
  <2>1. d \in Op
    <3>1. Seen(u) \in Status \X Limits
      BY <1>5, SeenType DEF ResetUserTraffic
    <3>. QED
      BY <3>1 DEF Decision, Op
  <2>2. Starts(s, u, d) /\ UNCHANGED <<rowVars, slipped>>
    BY <1>5 DEF ResetUserTraffic
  <2>3. op' \in [Slots -> Op \cup {None}] /\ requests' \in Nat /\ adrift' \in SUBSET Users
    <3> HIDE DEF d
    <3>. QED
      BY <2>1, <2>2, StartsType
  <2>4. jobs' \in Bags
    <3>1. "add" \in Call /\ jobs \in Bags
      BY DEF Call, TypeOK, Bags
    <3>. QED
      BY <1>5, <3>1, QueuedType DEF ResetUserTraffic
  <2>5. UNCHANGED <<batchVars, fired, onNode, wanted, roster, batches, mishaps>>
    BY <2>2 DEF Starts
  <2>. QED
    BY <2>2, <2>3, <2>4, <2>5 DEF TypeOK, rowVars, batchVars, Bags
<1>6. CASE ExtendUser(s, u)
  <2> DEFINE d == [Decision(u) EXCEPT !.status = "revive", !.stage = "extend"]
  <2>1. d \in Op
    BY DEF Decision, Op
  <2>2. Reads(s, u, d)
    BY <1>6 DEF ExtendUser
  <2>. QED
    BY <2>1, <2>2, ReadsType
<1>7. CASE RevokeUserSubscription(s, u)
  <2> DEFINE d == [Decision(u) EXCEPT !.emit = "add", !.again = "active"]
  <2>1. d \in Op
    BY DEF Decision, Op, Call
  <2>2. Reads(s, u, d)
    BY <1>7 DEF RevokeUserSubscription
  <2>. QED
    BY <2>1, <2>2, ReadsType
<1>8. CASE DeleteUser(s, u)
  <2> DEFINE d == [Decision(u) EXCEPT !.status = "GONE", !.emit = "remove"]
  <2>1. d \in Op
    BY DEF Decision, Op, Call
  <2>2. Reads(s, u, d)
    BY <1>8 DEF DeleteUser
  <2>. QED
    BY <2>1, <2>2, ReadsType
<1>. QED
  BY <1>1, <1>2, <1>3, <1>4, <1>5, <1>6, <1>7, <1>8 DEF Request

LEMMA WrittenType ==
    ASSUME status \in [Users -> Row], NEW o \in Op
    PROVE  Written(o) \in Row
<1>1. o.user \in Users /\ o.status \in {"ACTIVE", "DISABLED", "GONE", "revive", None}
  BY DEF Op
<1>2. status[o.user] \in Row
  BY <1>1
<1>3. "ACTIVE" \in Row
  BY DEF Row, Status
<1>4. ASSUME o.status # "revive", o.status # None
      PROVE  o.status \in Row
  BY <1>1, <1>4 DEF Row, Status
<1>. QED
  BY <1>1, <1>2, <1>3, <1>4 DEF Written

LEMMA WriteType ==
    ASSUME TypeOK, NEW s \in Slots, Write(s)
    PROVE  TypeOK'
<1> DEFINE o == op[s]
           u == o.user
           emits == IF o.status = "revive"
                    THEN IF Revived(u) THEN "add" ELSE None
                    ELSE IF o.emit = "add" /\ o.again = "no" /\ Written(o) # "ACTIVE"
                    THEN None ELSE o.emit
           d == [Decision(u) EXCEPT !.emit = emits, !.again = o.again, !.stage = "publish"]
<1>1. UNCHANGED <<batchVars, nodeVars, requests, batches, mishaps>>
  BY DEF Write
<1>2. o \in Op
  BY DEF Write, TypeOK
<1>3. /\ u \in Users /\ o.emit \in Call \cup {None} /\ o.again \in {"no", "exists", "active"}
      /\ o.limit \in Limits \cup {None} /\ o.squad \in Squads \cup {None}
  BY <1>2 DEF Op
<1>4. CASE Exists(u)
  <2>1. /\ status' = [status EXCEPT ![u] = Written(o)]
        /\ used' = IF o.zero THEN [used EXCEPT ![u] = 0] ELSE used
        /\ limit' = IF o.limit # None THEN [limit EXCEPT ![u] = o.limit] ELSE limit
        /\ overdue' = IF o.renew THEN overdue \ {u} ELSE overdue
        /\ squad' = IF o.squad # None THEN [squad EXCEPT ![u] = o.squad] ELSE squad
        /\ op' = [op EXCEPT ![s] = Left(d)]
        /\ Slips(IF o.seen \notin {None, Seen(u)} THEN {u} ELSE {})
        /\ adrift' = IF Unremoved(o) THEN adrift \cup {u} ELSE adrift
    BY <1>4 DEF Write
  <2>2. status' \in [Users -> Row]
    <3>1. Written(o) \in Row
      BY <1>2, WrittenType DEF TypeOK, Row
    <3>. QED
      BY <2>1, <3>1 DEF TypeOK, Row
  <2>3. used' \in [Users -> Nat] /\ overdue' \in SUBSET Users /\ adrift' \in SUBSET Users
    BY <1>3, <2>1 DEF TypeOK
  <2>4. limit' \in [Users -> Limits] /\ squad' \in [Users -> Squads]
    BY <1>3, <2>1 DEF TypeOK
  <2>5. op' \in [Slots -> Op \cup {None}]
    <3>1. emits \in Call \cup {None}
      BY <1>3 DEF Call
    <3>2. d \in Op
      <4> HIDE DEF emits
      <4>. QED
        BY <1>3, <3>1 DEF Decision, Op
    <3>3. Left(d) \in Op \cup {None}
      <4> HIDE DEF d
      <4>. QED
        BY <3>2, LeftType
    <3>4. op' = [op EXCEPT ![s] = Left(d)]
      BY <2>1
    <3>. QED
      <4> HIDE DEF d
      <4>. QED
        BY <3>3, <3>4 DEF TypeOK
  <2>6. slipped' \in SUBSET Users
    <3> DEFINE S == IF o.seen \notin {None, Seen(u)} THEN {u} ELSE {}
    <3>1. S \in SUBSET Users
      BY <1>3
    <3>2. Slips(S)
      BY <2>1
    <3> HIDE DEF S
    <3>. QED
      BY <3>1, <3>2, SlipsType DEF TypeOK
  <2>. QED
    BY <1>1, <2>2, <2>3, <2>4, <2>5, <2>6 DEF TypeOK, Row, batchVars, nodeVars
<1>5. CASE ~Exists(u)
  <2>1. op' = [op EXCEPT ![s] = None] /\ UNCHANGED <<rowVars, slipped, adrift>>
    BY <1>5 DEF Write
  <2>. QED
    BY <1>1, <2>1 DEF TypeOK, rowVars, batchVars, nodeVars
<1>. QED
  BY <1>4, <1>5

LEMMA SlotType ==
    ASSUME TypeOK, NEW s \in Slots, Extend(s) \/ Publish(s) \/ RequestFails(s)
    PROVE  TypeOK'
<1>1. CASE Extend(s)
  <2>1. op[s] \in Op
    BY <1>1 DEF Extend, TypeOK
  <2>2. [op[s] EXCEPT !.stage = "write"] \in Op
    BY <2>1 DEF Op
  <2>3. op' \in [Slots -> Op \cup {None}]
    BY <1>1, <2>2 DEF Extend, TypeOK
  <2>4. overdue' \in SUBSET Users
    BY <1>1 DEF Extend, TypeOK
  <2>. QED
    BY <1>1, <2>3, <2>4 DEF Extend, TypeOK, batchVars, nodeVars
<1>2. CASE Publish(s)
  <2>1. op[s] \in Op
    BY <1>2 DEF Publish, TypeOK
  <2>2. op[s].user \in Users /\ op[s].emit \in Call \cup {None}
    BY <2>1 DEF Op
  <2>3. op' \in [Slots -> Op \cup {None}]
    BY <1>2 DEF Publish, TypeOK
  <2>4. jobs' \in Bags
    <3>1. jobs \in Bags
      BY DEF TypeOK, Bags
    <3>2. Queued(op[s].user, op[s].emit) \in Bags
      BY <2>2, <3>1, QueuedType
    <3>. QED
      BY <1>2, <3>1, <3>2 DEF Publish
  <2>. QED
    BY <1>2, <2>3, <2>4 DEF Publish, TypeOK, Bags, rowVars, batchVars
<1>3. CASE RequestFails(s)
  <2>1. op[s] \in Op
    BY <1>3 DEF RequestFails, TypeOK
  <2>2. op[s].user \in Users
    BY <2>1 DEF Op
  <2>. QED
    BY <1>3, <2>2 DEF RequestFails, TypeOK, Mishap, rowVars, batchVars, nodeVars
<1>. QED
  BY <1>1, <1>2, <1>3

LEMMA CallType ==
    ASSUME TypeOK, NEW u \in Users, NEW k \in Call, FireUserEvent(u, k) \/ CallNode(u, k)
    PROVE  TypeOK'
<1>1. CASE FireUserEvent(u, k)
  <2>1. fired' \in Bags
    BY <1>1, TakeType DEF FireUserEvent, TypeOK, Bags
  <2>2. jobs' \in Bags
    BY <1>1, QueuedType DEF FireUserEvent, TypeOK, Bags
  <2>. QED
    BY <1>1, <2>1, <2>2 DEF FireUserEvent, TypeOK, Bags, rowVars, batchVars
<1>2. CASE CallNode(u, k)
  <2>1. jobs' \in Bags
    BY <1>2, TakeType DEF CallNode, TypeOK, Bags
  <2>2. onNode' \in SUBSET Users /\ adrift' \in SUBSET Users /\ mishaps' \in Nat
    BY <1>2 DEF CallNode, TypeOK, Mishap
  <2>. QED
    BY <1>2, <2>1, <2>2 DEF CallNode, TypeOK, Bags, rowVars, batchVars
<1>. QED
  BY <1>1, <1>2

LEMMA RosterType ==
    ASSUME TypeOK, ReadRoster \/ SendRoster
    PROVE  TypeOK'
<1>1. CASE ReadRoster
  BY <1>1 DEF ReadRoster, TypeOK, rowVars, batchVars
<1>2. CASE SendRoster
  <2>1. onNode' \in SUBSET Users /\ adrift' \in SUBSET Users /\ mishaps' \in Nat
    BY <1>2 DEF SendRoster, TypeOK, Mishap
  <2>. QED
    BY <1>2, <2>1 DEF SendRoster, TypeOK, rowVars, batchVars
<1>. QED
  BY <1>1, <1>2

LEMMA ClockType ==
    ASSUME TypeOK,
           \/ \E u \in Users : PassExpiry(u) \/ UseTraffic(u)
           \/ FindExceeded \/ FindExpired
    PROVE  TypeOK'
<1>1. ASSUME NEW u \in Users, PassExpiry(u)
      PROVE  TypeOK'
  BY <1>1 DEF PassExpiry, TypeOK, batchVars, nodeVars
<1>2. ASSUME NEW u \in Users, UseTraffic(u)
      PROVE  TypeOK'
  BY <1>2 DEF UseTraffic, TypeOK, batchVars, nodeVars
<1>3. "remove" \in Call /\ FALSE \in BOOLEAN /\ {"LIMITED", "EXPIRED"} \subseteq Status
  BY DEF Call, Status
<1>4. CASE FindExceeded
  <2> DEFINE found == {u \in Users : status[u] = "ACTIVE" /\ Exceeded(u)}
  <2>1. status' = Assign(found, "LIMITED") /\ Announce(found, "remove", FALSE)
    BY <1>4 DEF FindExceeded
  <2>2. status' \in [Users -> Row]
    BY <1>3, <2>1, AssignType DEF TypeOK, Row
  <2>3. /\ fired' \in Bags /\ wanted' \in BOOLEAN
        /\ mishaps' \in Nat /\ adrift' \in SUBSET Users
    <3>1. found \in SUBSET Users
      OBVIOUS
    <3> HIDE DEF found
    <3>. QED
      BY <1>3, <2>1, <3>1, AnnounceType
  <2>. QED
    BY <1>4, <2>2, <2>3 DEF FindExceeded, TypeOK, Row, Bags, batchVars
<1>5. CASE FindExpired
  <2> DEFINE found == {u \in overdue : status[u] \in {"ACTIVE", "LIMITED"}}
  <2>1. /\ status' = Assign(found, "EXPIRED") /\ Announce(found, "remove", FALSE)
        /\ Slips({})
    BY <1>5 DEF FindExpired
  <2>2. status' \in [Users -> Row]
    BY <1>3, <2>1, AssignType DEF TypeOK, Row
  <2>3. /\ fired' \in Bags /\ wanted' \in BOOLEAN
        /\ mishaps' \in Nat /\ adrift' \in SUBSET Users
    <3>1. found \in SUBSET Users
      BY DEF TypeOK
    <3> HIDE DEF found
    <3>. QED
      BY <1>3, <2>1, <3>1, AnnounceType
  <2>4. slipped' \in SUBSET Users
    BY <2>1, SlipsType DEF TypeOK
  <2>. QED
    BY <1>5, <2>2, <2>3, <2>4 DEF FindExpired, TypeOK, Row, Bags, batchVars
<1>. QED
  BY <1>1, <1>2, <1>4, <1>5

LEMMA ResetType ==
    ASSUME TypeOK, StartReset \/ SelectTargets \/ ZeroTargets \/ ResetLimited \/ CrashReset
    PROVE  TypeOK'
<1>1. CASE StartReset
  <2>1. reset' \in ResetJob
    BY <1>1, IdleTypes DEF StartReset, ResetJob
  <2>2. batches' \in Nat
    BY <1>1, StartBatchType DEF StartReset
  <2>3. UNCHANGED <<op, fired, jobs, onNode, roster, requests>>
    BY <1>1 DEF StartReset, StartBatch
  <2>. QED
    BY <1>1, <2>1, <2>2, <2>3 DEF StartReset, TypeOK, ResetJob, rowVars
<1>2. CASE SelectTargets
  <2>1. reset' \in ResetJob
    <3>1. reset \in ResetJob
      BY DEF TypeOK, ResetJob
    <3>2. PICK due \in SUBSET reset.rest :
            reset' = [reset EXCEPT !.stage = "zero", !.due = due, !.targets = Targets(due),
                                   !.rest = @ \ due]
      BY <1>2 DEF SelectTargets
    <3>3. reset.rest \in SUBSET Users
      BY <3>1 DEF ResetJob
    <3>4. Targets(due) \in SUBSET Users /\ due \in SUBSET Users
      BY <3>3 DEF Targets
    <3>. QED
      BY <3>1, <3>2, <3>3, <3>4 DEF ResetJob
  <2>. QED
    BY <1>2, <2>1 DEF SelectTargets, TypeOK, ResetJob, rowVars, nodeVars
<1>3. CASE ZeroTargets
  <2>1. reset' \in ResetJob
    BY <1>3 DEF ZeroTargets, TypeOK, ResetJob
  <2>2. mishaps' \in Nat /\ status' = status
    BY <1>3 DEF ZeroTargets, TypeOK, Mishap
  <2>3. used' \in [Users -> Nat]
    BY <1>3, ZeroedType DEF ZeroTargets, TypeOK
  <2>4. slipped' \in SUBSET Users
    <3>1. reset.targets \in SUBSET Users
      BY DEF TypeOK
    <3>. QED
      BY <1>3, <3>1, SlipsType DEF ZeroTargets, TypeOK
  <2>. QED
    BY <1>3, <2>1, <2>2, <2>3, <2>4 DEF ZeroTargets, TypeOK, ResetJob, nodeVars
<1>4. CASE ResetLimited
  <2> DEFINE found == {u \in reset.due : status[u] = "LIMITED"}
             last  == reset.all /\ reset.rest = {}
  <2>1. reset' \in ResetJob
    BY <1>4, IdleTypes DEF ResetLimited, TypeOK, ResetJob
  <2>2. \/ /\ status' = Assign(found, "ACTIVE")
           /\ used' = Zeroed(found)
           /\ Slips({})
           /\ Announce(found, "add", last)
        \/ /\ Mishap
           /\ wanted' = (wanted \/ last)
           /\ UNCHANGED <<status, used, fired, slipped, adrift>>
    BY <1>4 DEF ResetLimited
  <2>3. found \in SUBSET Users /\ last \in BOOLEAN
    BY DEF TypeOK
  <2>4. /\ status' \in [Users -> Row] /\ used' \in [Users -> Nat]
        /\ slipped' \in SUBSET Users
        /\ fired' \in Bags /\ wanted' \in BOOLEAN
        /\ mishaps' \in Nat /\ adrift' \in SUBSET Users
    <3>1. "add" \in Call /\ "ACTIVE" \in Status
      BY DEF Call, Status
    <3>2. CASE /\ status' = Assign(found, "ACTIVE") /\ used' = Zeroed(found)
               /\ Slips({}) /\ Announce(found, "add", last)
      <4> HIDE DEF found, last
      <4>1. status' \in [Users -> Row]
        BY <3>1, <3>2, AssignType DEF TypeOK, Row
      <4>2. used' \in [Users -> Nat] /\ slipped' \in SUBSET Users
        BY <3>2, ZeroedType, SlipsType DEF TypeOK
      <4>3. /\ fired' \in Bags /\ wanted' \in BOOLEAN
            /\ mishaps' \in Nat /\ adrift' \in SUBSET Users
        BY <2>3, <3>1, <3>2, AnnounceType
      <4>. QED
        BY <4>1, <4>2, <4>3
    <3>3. CASE /\ Mishap /\ wanted' = (wanted \/ last)
               /\ UNCHANGED <<status, used, fired, slipped, adrift>>
      <4> HIDE DEF last
      <4>1. wanted' \in BOOLEAN
        BY <2>3, <3>3 DEF TypeOK
      <4>. QED
        BY <3>3, <4>1 DEF TypeOK, Mishap, Row, Bags
    <3>. QED
      BY <2>2, <3>2, <3>3
  <2>. QED
    BY <1>4, <2>1, <2>4 DEF ResetLimited, TypeOK, ResetJob, Row, Bags
<1>5. CASE CrashReset
  <2>1. reset' \in ResetJob
    <3>1. reset \in ResetJob
      BY DEF TypeOK, ResetJob
    <3>2. reset.due \cup reset.rest \in SUBSET Users
      BY <3>1 DEF ResetJob
    <3> DEFINE rest == IF reset.all THEN Users ELSE reset.due \cup reset.rest
    <3>3. rest \in SUBSET Users
      BY <3>2
    <3>4. \/ reset' = IdleReset
          \/ reset' = [reset EXCEPT !.stage = "select", !.due = {}, !.targets = {},
                                    !.rest = rest]
      BY <1>5 DEF CrashReset
    <3> HIDE DEF rest
    <3>. QED
      BY <3>1, <3>3, <3>4, IdleTypes DEF ResetJob
  <2>. QED
    BY <1>5, <2>1 DEF CrashReset, TypeOK, ResetJob, Mishap, rowVars, nodeVars
<1>. QED
  BY <1>1, <1>2, <1>3, <1>4, <1>5

LEMMA HitsType ==
    ASSUME TypeOK, NEW hit, NEW rows, Hits(hit, rows)
    PROVE  mishaps' \in Nat
BY MishapType DEF Hits, TypeOK

LEMMA BulkStartType ==
    ASSUME TypeOK, BulkUpdateAll \/ BulkExtendAll \/ BulkDeleteByStatus
    PROVE  TypeOK'
<1>1. batches' \in Nat /\ adrift' \in SUBSET Users
  BY StartBatchType, BeginsType DEF TypeOK, BulkUpdateAll, BulkExtendAll, BulkDeleteByStatus
<1>2. UNCHANGED <<op, fired, jobs, onNode, roster, requests>>
  BY DEF BulkUpdateAll, BulkExtendAll, BulkDeleteByStatus, StartBatch
<1>3. CASE BulkUpdateAll
  <2>1. PICK hit \in SUBSET Rows, st \in {None, "ACTIVE", "DISABLED"},
             lim \in Limits \cup {None}, date \in BOOLEAN :
        /\ Hits(hit, Rows)
        /\ status' = IF st = None THEN status ELSE Assign(hit, st)
        /\ limit' = IF lim = None THEN limit
                    ELSE [u \in Users |-> IF u \in hit THEN lim ELSE limit[u]]
        /\ overdue' = IF date THEN overdue \ hit ELSE overdue
        /\ bulk' = [stage |-> IF lim # None THEN "limited"
                              ELSE IF date THEN "expired" ELSE "restart", expired |-> date]
        /\ Slips(IF lim # None THEN hit ELSE {})
    BY <1>3 DEF BulkUpdateAll
  <2>2. mishaps' \in Nat
    BY <2>1, HitsType
  <2>3. status' \in [Users -> Row]
    <3>1. CASE st = None
      BY <2>1, <3>1 DEF TypeOK, Row
    <3>2. CASE st # None
      <4>1. st \in Status \cup {"GONE"}
        BY <3>2 DEF Status
      <4>. QED
        BY <2>1, <3>2, <4>1, AssignType DEF TypeOK, Row
    <3>. QED
      BY <3>1, <3>2
  <2>4. limit' \in [Users -> Limits] /\ overdue' \in SUBSET Users
    BY <2>1 DEF TypeOK
  <2>5. bulk' \in BulkJob
    BY <2>1 DEF BulkJob
  <2>6. slipped' \in SUBSET Users
    <3> DEFINE S == IF lim # None THEN hit ELSE {}
    <3>1. S \in SUBSET Users /\ Slips(S)
      BY <2>1 DEF Rows
    <3> HIDE DEF S
    <3>. QED
      BY <3>1, SlipsType DEF TypeOK
  <2>. QED
    BY <1>1, <1>2, <1>3, <2>2, <2>3, <2>4, <2>5, <2>6 DEF BulkUpdateAll, TypeOK, Row, BulkJob
<1>4. CASE BulkExtendAll
  <2>1. bulk' \in BulkJob
    BY <1>4 DEF BulkExtendAll, BulkJob
  <2>2. overdue' \in SUBSET Users
    BY <1>4 DEF BulkExtendAll, TypeOK
  <2>. QED
    BY <1>1, <1>2, <1>4, <2>1, <2>2 DEF BulkExtendAll, TypeOK, BulkJob
<1>5. CASE BulkDeleteByStatus
  <2>1. PICK st \in Status, hit \in SUBSET Rows :
        /\ Hits(hit, {u \in Users : status[u] = st})
        /\ status' = Assign(hit, "GONE")
        /\ wanted' = (wanted \/ st = "ACTIVE")
    BY <1>5 DEF BulkDeleteByStatus
  <2>2. mishaps' \in Nat
    BY <2>1, HitsType
  <2>3. status' \in [Users -> Row]
    BY <2>1, AssignType DEF TypeOK, Row
  <2>4. wanted' \in BOOLEAN
    BY <2>1 DEF TypeOK
  <2>5. slipped' \in SUBSET Users
    BY <1>5, SlipsType DEF BulkDeleteByStatus, TypeOK
  <2>. QED
    BY <1>1, <1>2, <1>5, <2>2, <2>3, <2>4, <2>5 DEF BulkDeleteByStatus, TypeOK, Row, batchVars
<1>. QED
  BY <1>3, <1>4, <1>5

LEMMA BulkStepType ==
    ASSUME TypeOK, SyncLimited \/ SyncExpired \/ BulkRestart \/ CrashBulk
    PROVE  TypeOK'
<1>1. bulk \in BulkJob /\ "ACTIVE" \in Status
  BY DEF TypeOK, BulkJob, Status
<1>2. CASE SyncLimited
  <2>1. bulk' \in BulkJob
    BY <1>1, <1>2 DEF SyncLimited, BulkJob
  <2>2. status' \in [Users -> Row]
    BY <1>1, <1>2, AssignType DEF SyncLimited, TypeOK, Row
  <2>3. slipped' \in SUBSET Users /\ mishaps' \in Nat
    BY <1>2 DEF SyncLimited, TypeOK, Mishap
  <2>. QED
    BY <1>2, <2>1, <2>2, <2>3 DEF SyncLimited, TypeOK, Row, BulkJob, nodeVars
<1>3. CASE SyncExpired
  <2>1. bulk' \in BulkJob
    BY <1>1, <1>3 DEF SyncExpired, BulkJob
  <2>2. status' \in [Users -> Row]
    BY <1>1, <1>3, AssignType DEF SyncExpired, TypeOK, Row
  <2>3. mishaps' \in Nat
    BY <1>3 DEF SyncExpired, TypeOK, Mishap
  <2>. QED
    BY <1>3, <2>1, <2>2, <2>3 DEF SyncExpired, TypeOK, Row, BulkJob, nodeVars
<1>4. CASE BulkRestart
  BY <1>4, IdleTypes DEF BulkRestart, TypeOK, BulkJob, rowVars
<1>5. CASE CrashBulk
  BY <1>5, IdleTypes DEF CrashBulk, TypeOK, BulkJob, Mishap, rowVars, nodeVars
<1>. QED
  BY <1>2, <1>3, <1>4, <1>5

LEMMA InitType == Init => TypeOK
<1>. SUFFICES ASSUME Init PROVE TypeOK
  OBVIOUS
<1>1. fired \in Bags /\ jobs \in Bags /\ reset \in ResetJob /\ bulk \in BulkJob
  BY IdleTypes DEF Init
<1>2. status \in [Users -> Row]
  BY DEF Init, Row, Status
<1>3. op \in [Slots -> Op \cup {None}]
  BY DEF Init
<1>4. used \in [Users -> Nat] /\ limit \in [Users -> Limits] /\ squad \in [Users -> Squads]
  BY DEF Init
<1>5. /\ overdue \in SUBSET Users /\ onNode \in SUBSET Users
      /\ slipped \in SUBSET Users /\ adrift \in SUBSET Users
      /\ wanted \in BOOLEAN /\ roster \in (SUBSET Users) \cup {None}
      /\ requests \in Nat /\ batches \in Nat /\ mishaps \in Nat
  BY DEF Init
<1>. QED
  BY <1>1, <1>2, <1>3, <1>4, <1>5 DEF TypeOK, Row, Bags, ResetJob, BulkJob

LEMMA StepType ==
    ASSUME TypeOK, [Next]_vars
    PROVE  TypeOK'
<1>1. CASE Next
  <2>1. ASSUME NEW s \in Slots, NEW u \in Users, Request(s, u) PROVE TypeOK'
    BY <2>1, RequestType
  <2>2. ASSUME NEW s \in Slots, Write(s) PROVE TypeOK'
    BY <2>2, WriteType
  <2>3. ASSUME NEW s \in Slots, Extend(s) \/ Publish(s) \/ RequestFails(s) PROVE TypeOK'
    BY <2>3, SlotType
  <2>4. ASSUME NEW u \in Users, PassExpiry(u) \/ UseTraffic(u) PROVE TypeOK'
    BY <2>4, ClockType
  <2>5. ASSUME NEW u \in Users, NEW k \in Call, FireUserEvent(u, k) \/ CallNode(u, k)
        PROVE TypeOK'
    BY <2>5, CallType
  <2>6. CASE ReadRoster \/ SendRoster
    BY <2>6, RosterType
  <2>7. CASE FindExceeded \/ FindExpired
    BY <2>7, ClockType
  <2>8. CASE StartReset \/ SelectTargets \/ ZeroTargets \/ ResetLimited \/ CrashReset
    BY <2>8, ResetType
  <2>9. CASE BulkUpdateAll \/ BulkExtendAll \/ BulkDeleteByStatus
    BY <2>9, BulkStartType
  <2>10. CASE SyncLimited \/ SyncExpired \/ BulkRestart \/ CrashBulk
    BY <2>10, BulkStepType
  <2>. QED
    BY <1>1, <2>1, <2>2, <2>3, <2>4, <2>5, <2>6, <2>7, <2>8, <2>9, <2>10 DEF Next
<1>2. CASE UNCHANGED vars
  BY <1>2 DEF vars, rowVars, batchVars, nodeVars, TypeOK
<1>. QED
  BY <1>1, <1>2

(* The user, job and node state keeps its types, whatever requests, jobs,    *)
(* crashes and failures interleave.                                          *)
THEOREM TypeCorrect == Spec => []TypeOK
<1>1. Init => TypeOK
  BY InitType
<1>2. TypeOK /\ [Next]_vars => TypeOK'
  BY StepType
<1>. QED
  BY <1>1, <1>2, PTL DEF Spec

-----------------------------------------------------------------------------
(* A DISABLED user stays DISABLED until somebody asks for it.               *)

LEMMA AssignOther ==
    ASSUME status \in [Users -> Row], NEW S, NEW st, status' = Assign(S, st),
           NEW u \in Users, u \notin S
    PROVE  status'[u] = status[u]
BY DEF Assign

LEMMA DisabledStep ==
    ASSUME TypeOK, Next, NEW u \in Users, status[u] = "DISABLED", status'[u] = "ACTIVE"
    PROVE  Asked(u)
<1>. status \in [Users -> Row]
  BY DEF TypeOK, Row
<1>1. ASSUME NEW s \in Slots, Write(s)
      PROVE  Asked(u)
  <2> DEFINE o == op[s]
             em == IF o.status = "revive"
                    THEN IF Revived(o.user) THEN "add" ELSE None
                    ELSE IF o.emit = "add" /\ o.again = "no" /\ Written(o) # "ACTIVE"
                    THEN None ELSE o.emit
             d == [Decision(o.user) EXCEPT !.emit = em, !.again = o.again, !.stage = "publish"]
  <2>1. o # None /\ o.stage = "write" /\ o \in Op
    BY <1>1 DEF Write, TypeOK
  <2>2. CASE Exists(o.user)
    <3>1. status' = [status EXCEPT ![o.user] = Written(o)] /\ op' = [op EXCEPT ![s] = Left(d)]
      BY <1>1, <2>2 DEF Write
    <3>2. o.user = u /\ Written(o) = "ACTIVE"
      BY <3>1
    <3>3. o.status = "ACTIVE"
      BY <3>2 DEF Written, Revived
    <3>4. op'[s] = Left(d)
      <4> HIDE DEF d
      <4>. QED
        BY <3>1 DEF TypeOK
    <3>5. d.stage = "publish"
      BY DEF Decision
    <3>6. op'[s] # op[s]
      <4> HIDE DEF d
      <4>. QED
        BY <2>1, <3>4, <3>5 DEF Left
    <3>. QED
      BY <2>1, <3>2, <3>3, <3>6 DEF Asked
  <2>3. CASE ~Exists(o.user)
    BY <1>1, <2>3 DEF Write, rowVars
  <2>. QED
    BY <2>2, <2>3
<1>2. ASSUME NEW s \in Slots, NEW v \in Users, Request(s, v)
      PROVE  FALSE
  <2>1. CASE CreateUser(s, v)
    <3>1. status[v] = "NEW" /\ \E st \in Status : status' = [status EXCEPT ![v] = st]
      BY <2>1 DEF CreateUser
    <3>. QED
      BY <3>1
  <2>2. CASE ResetUserTraffic(s, v)
    BY <2>2 DEF ResetUserTraffic, rowVars
  <2>3. ASSUME NEW d, Reads(s, v, d)
        PROVE  FALSE
    BY <2>3 DEF Reads, rowVars
  <2>4. CASE UpdateUser(s, v)
    BY <2>3, <2>4 DEF UpdateUser
  <2>. QED
    BY <1>2, <2>1, <2>2, <2>3, <2>4
    DEF Request, DisableUser, EnableUser, ExtendUser, RevokeUserSubscription, DeleteUser
<1>3. ASSUME \/ \E s \in Slots : Extend(s) \/ Publish(s) \/ RequestFails(s)
             \/ \E v \in Users : PassExpiry(v) \/ UseTraffic(v)
             \/ \E v \in Users, k \in Call : FireUserEvent(v, k) \/ CallNode(v, k)
             \/ ReadRoster \/ SendRoster
             \/ StartReset \/ SelectTargets \/ ZeroTargets \/ CrashReset
             \/ BulkExtendAll \/ BulkRestart \/ CrashBulk
      PROVE  status' = status
  BY <1>3
  DEF Extend, Publish, RequestFails, PassExpiry, UseTraffic, FireUserEvent, CallNode, ReadRoster,
      SendRoster, StartReset, SelectTargets, ZeroTargets, CrashReset, BulkExtendAll, BulkRestart,
      CrashBulk, rowVars
<1>4. CASE FindExceeded
  BY <1>4, AssignOther DEF FindExceeded
<1>5. CASE FindExpired
  BY <1>5, AssignOther DEF FindExpired
<1>6. CASE ResetLimited
  <2> DEFINE found == {v \in reset.due : status[v] = "LIMITED"}
  <2>1. status' = Assign(found, "ACTIVE") \/ status' = status
    BY <1>6 DEF ResetLimited
  <2>2. u \notin found
    OBVIOUS
  <2> HIDE DEF found
  <2>. QED
    BY <2>1, <2>2, AssignOther
<1>7. CASE SyncLimited
  <2> DEFINE found == {v \in Users : Released(v)}
  <2>1. status' = Assign(found, "ACTIVE") \/ status' = status
    BY <1>7 DEF SyncLimited
  <2>2. u \notin found
    BY DEF Released
  <2> HIDE DEF found
  <2>. QED
    BY <2>1, <2>2, AssignOther
<1>8. CASE SyncExpired
  <2> DEFINE found == {v \in Users : Revived(v)}
  <2>1. status' = Assign(found, "ACTIVE") \/ status' = status
    BY <1>8 DEF SyncExpired
  <2>2. u \notin found
    BY DEF Revived
  <2> HIDE DEF found
  <2>. QED
    BY <2>1, <2>2, AssignOther
<1>9. CASE BulkUpdateAll
  <2>1. bulk.stage = "idle"
    BY <1>9 DEF BulkUpdateAll
  <2>2. bulk'.stage # "idle"
    BY <1>9 DEF BulkUpdateAll
  <2>. QED
    BY <2>1, <2>2 DEF Asked
<1>10. CASE BulkDeleteByStatus
  <2>1. PICK hit : status' = Assign(hit, "GONE")
    BY <1>10 DEF BulkDeleteByStatus
  <2>. QED
    BY <2>1 DEF Assign
<1>. QED
  BY <1>1, <1>2, <1>3, <1>4, <1>5, <1>6, <1>7, <1>8, <1>9, <1>10 DEF Next

(* Whatever interleaves with the reads and writes of requests and jobs, a    *)
(* DISABLED user only becomes ACTIVE because a request that wants it ACTIVE  *)
(* is written, or the update of all users is.                               *)
THEOREM DisabledStays == Spec => DisabledIsKept
<1>1. ASSUME TypeOK, [Next]_vars
      PROVE  [\A u \in Users :
                  status[u] = "DISABLED" /\ status'[u] = "ACTIVE" => Asked(u)]_vars
  <2>1. CASE Next
    BY <1>1, <2>1, DisabledStep
  <2>2. CASE UNCHANGED vars
    BY <2>2
  <2>. QED
    BY <1>1, <2>1, <2>2
<1>2. Spec => []TypeOK
  BY TypeCorrect
<1>. QED
  BY <1>1, <1>2, PTL DEF Spec, DisabledIsKept

-----------------------------------------------------------------------------
(* A LIMITED user has used up a limit.  A request that has read a LIMITED    *)
(* user has decided to make it ACTIVE if it zeroes the traffic, and if it   *)
(* writes a limit that is not a lower one.                                  *)

Sound(o) ==
    /\ o.zero \/ o.limit # None => o.seen # None
    /\ \A l \in Limits :
        /\ o.seen = <<"LIMITED", l>>
        /\ o.status # "ACTIVE"
        => /\ ~o.zero
           /\ o.limit # None => o.limit # 0 /\ o.limit <= l

SoundRequests == \A s \in Slots : op[s] # None => Sound(op[s])

LimitInv == TypeOK /\ SoundRequests /\ LimitedHasCause

LEMMA StartsSound ==
    ASSUME LimitInv, NEW s \in Slots, NEW u \in Users, NEW d, d # None => Sound(d),
           Starts(s, u, d)
    PROVE  SoundRequests'
<1>1. op' = [op EXCEPT ![s] = Left(d)]
  BY DEF Starts
<1>2. ASSUME NEW t \in Slots, op'[t] # None
      PROVE  Sound(op'[t])
  <2>1. CASE t = s
    <3>1. op'[t] = Left(d)
      BY <1>1, <2>1 DEF LimitInv, TypeOK
    <3>2. op'[t] = d
      BY <1>2, <3>1 DEF Left
    <3>. QED
      BY <1>2, <3>2
  <2>2. CASE t # s
    <3>1. op'[t] = op[t]
      BY <1>1, <2>2 DEF LimitInv, TypeOK
    <3>. QED
      BY <1>2, <3>1 DEF LimitInv, SoundRequests
  <2>. QED
    BY <2>1, <2>2
<1>. QED
  BY <1>2 DEF SoundRequests, Sound

LEMMA UpdateSound ==
    ASSUME LimitInv, NEW s \in Slots, NEW u \in Users, UpdateUser(s, u)
    PROVE  SoundRequests'
<1>1. PICK st \in {None, "ACTIVE", "DISABLED"}, lim \in Limits \cup {None}, date \in BOOLEAN,
           squads \in Squads \cup {None} :
        LET enables  == status[u] # "ACTIVE" /\ st = "ACTIVE"
            disables == status[u] = "ACTIVE" /\ st = "DISABLED"
            raises   == lim # None /\ status[u] = "LIMITED" /\ (lim > limit[u] \/ lim = 0)
            revives  == status[u] = "EXPIRED" /\ date /\ st = None
            changes  == squads # None /\ {squads, squad[u]} # {"none"}
            add      == IF changes THEN squads # "none" ELSE enables \/ raises \/ revives
            remove   == IF changes THEN squads = "none" ELSE disables
        IN Reads(s, u, [Decision(u) EXCEPT
                !.seen = IF lim = None THEN None ELSE Seen(u),
                !.status = IF disables THEN "DISABLED"
                           ELSE IF enables \/ raises \/ revives THEN "ACTIVE" ELSE None,
                !.limit = lim, !.renew = date, !.squad = IF changes THEN squads ELSE None,
                !.emit = IF remove THEN "remove" ELSE IF add THEN "add" ELSE None])
  BY DEF UpdateUser
<1> DEFINE enables  == status[u] # "ACTIVE" /\ st = "ACTIVE"
           disables == status[u] = "ACTIVE" /\ st = "DISABLED"
           raises   == lim # None /\ status[u] = "LIMITED" /\ (lim > limit[u] \/ lim = 0)
           revives  == status[u] = "EXPIRED" /\ date /\ st = None
           changes  == squads # None /\ {squads, squad[u]} # {"none"}
           add      == IF changes THEN squads # "none" ELSE enables \/ raises \/ revives
           remove   == IF changes THEN squads = "none" ELSE disables
           sn == IF lim = None THEN None ELSE Seen(u)
           stt == IF disables THEN "DISABLED"
                  ELSE IF enables \/ raises \/ revives THEN "ACTIVE" ELSE None
           sq == IF changes THEN squads ELSE None
           em == IF remove THEN "remove" ELSE IF add THEN "add" ELSE None
           d == [Decision(u) EXCEPT !.seen = sn, !.status = stt, !.limit = lim, !.renew = date,
                                    !.squad = sq, !.emit = em]
<1>2. Reads(s, u, d)
  BY <1>1
<1>3. /\ Seen(u) \in Status \X Limits /\ Seen(u) = <<status[u], limit[u]>>
      /\ limit[u] \in Nat
  BY <1>2, SeenType, UserAssumption DEF Reads, LimitInv, TypeOK, Seen
<1>4. ~d.zero /\ d.limit = lim /\ d.seen = sn /\ d.status = stt
  <2> HIDE DEF enables, disables, raises, revives, changes, add, remove, sn, stt, sq, em
  <2>. QED
    BY DEF Decision
<1>5. None \notin Nat \cup (Status \X Limits)
  BY UserAssumption
<1>6. lim # None => sn # None
  BY <1>3, <1>5
<1>7. ASSUME NEW l \in Limits, sn = <<"LIMITED", l>>, stt # "ACTIVE", lim # None
      PROVE  lim # 0 /\ lim <= l
  <2>1. status[u] = "LIMITED" /\ limit[u] = l
    BY <1>3, <1>7
  <2>2. ~raises /\ lim \in Nat
    BY <1>7, <2>1, UserAssumption
  <2>. QED
    BY <1>3, <1>7, <2>1, <2>2
<1>8. Sound(d)
  <2> HIDE DEF d, sn, stt
  <2>. QED
    BY <1>4, <1>6, <1>7 DEF Sound
<1>. QED
  <2> HIDE DEF d
  <2>. QED
    BY <1>2, <1>8, StartsSound DEF Reads

LEMMA RequestSound ==
    ASSUME LimitInv, NEW s \in Slots, NEW u \in Users, Request(s, u)
    PROVE  SoundRequests'
<1>1. ASSUME NEW d, Starts(s, u, d), ~d.zero, d.limit = None, d.seen = None
      PROVE  SoundRequests'
  <2>1. None \notin Status \X Limits
    BY UserAssumption
  <2>2. Sound(d)
    BY <1>1 DEF Sound
  <2>. QED
    BY <1>1, <2>2, StartsSound
<1>2. CASE ResetUserTraffic(s, u)
  <2> DEFINE st == IF status[u] = "LIMITED" THEN "ACTIVE" ELSE None
             d == [Decision(u) EXCEPT !.seen = Seen(u), !.zero = TRUE, !.status = st]
  <2>1. Starts(s, u, d) /\ Exists(u)
    BY <1>2 DEF ResetUserTraffic
  <2>2. Seen(u) = <<status[u], limit[u]>> /\ Seen(u) \in Status \X Limits
    BY <2>1, SeenType DEF LimitInv, Seen
  <2>3. d.limit = None /\ d.seen = Seen(u) /\ d.status = st
    BY DEF Decision
  <2>4. Seen(u) # None
    BY <2>2, UserAssumption
  <2>5. ASSUME NEW l \in Limits, Seen(u) = <<"LIMITED", l>>
        PROVE  st = "ACTIVE"
    BY <2>2, <2>5
  <2>6. Sound(d)
    <3> HIDE DEF d, st
    <3>. QED
      BY <2>3, <2>4, <2>5 DEF Sound
  <2>. QED
    <3> HIDE DEF d
    <3>. QED
      BY <2>1, <2>6, StartsSound
<1>3. CASE UpdateUser(s, u)
  BY <1>3, UpdateSound
<1>4. CASE CreateUser(s, u)
  <2> DEFINE d == [Decision(u) EXCEPT !.stage = "publish", !.emit = "add", !.again = "active"]
  <2>1. Starts(s, u, d)
    BY <1>4 DEF CreateUser
  <2>2. ~d.zero /\ d.limit = None /\ d.seen = None
    BY DEF Decision
  <2> HIDE DEF d
  <2>. QED
    BY <1>1, <2>1, <2>2
<1>5. CASE DisableUser(s, u)
  <2> DEFINE d == [Decision(u) EXCEPT !.status = "DISABLED", !.emit = "remove",
                                      !.again = "exists"]
  <2>1. Starts(s, u, d)
    BY <1>5 DEF DisableUser, Reads
  <2>2. ~d.zero /\ d.limit = None /\ d.seen = None
    BY DEF Decision
  <2> HIDE DEF d
  <2>. QED
    BY <1>1, <2>1, <2>2
<1>6. CASE EnableUser(s, u)
  <2> DEFINE d == [Decision(u) EXCEPT !.status = "ACTIVE", !.emit = "add", !.again = "exists"]
  <2>1. Starts(s, u, d)
    BY <1>6 DEF EnableUser, Reads
  <2>2. ~d.zero /\ d.limit = None /\ d.seen = None
    BY DEF Decision
  <2> HIDE DEF d
  <2>. QED
    BY <1>1, <2>1, <2>2
<1>7. CASE ExtendUser(s, u)
  <2> DEFINE d == [Decision(u) EXCEPT !.status = "revive", !.stage = "extend"]
  <2>1. Starts(s, u, d)
    BY <1>7 DEF ExtendUser, Reads
  <2>2. ~d.zero /\ d.limit = None /\ d.seen = None
    BY DEF Decision
  <2> HIDE DEF d
  <2>. QED
    BY <1>1, <2>1, <2>2
<1>8. CASE RevokeUserSubscription(s, u)
  <2> DEFINE d == [Decision(u) EXCEPT !.emit = "add", !.again = "active"]
  <2>1. Starts(s, u, d)
    BY <1>8 DEF RevokeUserSubscription, Reads
  <2>2. ~d.zero /\ d.limit = None /\ d.seen = None
    BY DEF Decision
  <2> HIDE DEF d
  <2>. QED
    BY <1>1, <2>1, <2>2
<1>9. CASE DeleteUser(s, u)
  <2> DEFINE d == [Decision(u) EXCEPT !.status = "GONE", !.emit = "remove"]
  <2>1. Starts(s, u, d)
    BY <1>9 DEF DeleteUser, Reads
  <2>2. ~d.zero /\ d.limit = None /\ d.seen = None
    BY DEF Decision
  <2> HIDE DEF d
  <2>. QED
    BY <1>1, <2>1, <2>2
<1>. QED
  BY <1>2, <1>3, <1>4, <1>5, <1>6, <1>7, <1>8, <1>9 DEF Request

LEMMA SlotSound ==
    ASSUME LimitInv, NEW s \in Slots,
           Extend(s) \/ Write(s) \/ Publish(s) \/ RequestFails(s)
    PROVE  SoundRequests'
<1>1. ASSUME NEW d, op' = [op EXCEPT ![s] = d], d # None => Sound(d)
      PROVE  SoundRequests'
  <2>1. ASSUME NEW t \in Slots, op'[t] # None
        PROVE  Sound(op'[t])
    <3>1. CASE t = s
      BY <1>1, <2>1, <3>1 DEF LimitInv, TypeOK
    <3>2. CASE t # s
      <4>1. op'[t] = op[t]
        BY <1>1, <3>2 DEF LimitInv, TypeOK
      <4>. QED
        BY <2>1, <4>1 DEF LimitInv, SoundRequests
    <3>. QED
      BY <3>1, <3>2
  <2>. QED
    BY <2>1 DEF SoundRequests, Sound
<1>2. CASE op' = [op EXCEPT ![s] = None]
  BY <1>1, <1>2
<1>3. CASE Extend(s)
  <2>1. op' = [op EXCEPT ![s] = None] \/ op' = [op EXCEPT ![s] = [op[s] EXCEPT !.stage = "write"]]
    BY <1>3 DEF Extend
  <2>2. op[s] \in Op /\ Sound(op[s])
    BY <1>3 DEF Extend, LimitInv, TypeOK, SoundRequests
  <2>3. Sound([op[s] EXCEPT !.stage = "write"])
    BY <2>2 DEF Sound, Op
  <2>. QED
    BY <1>1, <1>2, <2>1, <2>3
<1>4. CASE Write(s)
  <2> DEFINE o == op[s]
             em == IF o.status = "revive"
                    THEN IF Revived(o.user) THEN "add" ELSE None
                    ELSE IF o.emit = "add" /\ o.again = "no" /\ Written(o) # "ACTIVE"
                    THEN None ELSE o.emit
             d == [Decision(o.user) EXCEPT !.emit = em, !.again = o.again, !.stage = "publish"]
  <2>1. op' = [op EXCEPT ![s] = None] \/ op' = [op EXCEPT ![s] = Left(d)]
    BY <1>4 DEF Write
  <2>2. ~d.zero /\ d.limit = None /\ d.seen = None
    <3> HIDE DEF em
    <3>. QED
      BY DEF Decision
  <2>3. None \notin Status \X Limits
    BY UserAssumption
  <2>4. Left(d) # None => Sound(Left(d))
    <3> HIDE DEF d
    <3>. QED
      BY <2>2 DEF Left, Sound
  <2> HIDE DEF d
  <2>. QED
    BY <1>1, <1>2, <2>1, <2>4
<1>. QED
  BY <1>2, <1>3, <1>4 DEF Publish, RequestFails

LEMMA LimitsAreNumbers ==
    ASSUME TypeOK, NEW u \in Users
    PROVE  used[u] \in Nat /\ limit[u] \in Nat
BY UserAssumption DEF TypeOK

(* A user that was LIMITED already, and had its cause, keeps it if its limit *)
(* stays and its traffic does not go down.                                  *)
LEMMA CauseKept ==
    ASSUME LimitInv, NEW u \in Users, status[u] = "LIMITED", u \notin slipped,
           limit'[u] = limit[u], used'[u] = used[u] \/ used'[u] = used[u] + 1
    PROVE  limit'[u] # 0 /\ used'[u] >= limit'[u]
<1>1. used[u] \in Nat /\ limit[u] \in Nat
  BY LimitsAreNumbers DEF LimitInv
<1>2. limit[u] # 0 /\ used[u] >= limit[u]
  BY DEF LimitInv, LimitedHasCause, Exceeded
<1>. QED
  BY <1>1, <1>2

LEMMA WriteCause ==
    ASSUME LimitInv, NEW s \in Slots, Write(s),
           NEW u \in Users, status'[u] = "LIMITED", u \notin slipped'
    PROVE  limit'[u] # 0 /\ used'[u] >= limit'[u]
<1> DEFINE o == op[s]
           v == o.user
           S == IF o.seen \notin {None, Seen(v)} THEN {v} ELSE {}
<1>1. o \in Op /\ Sound(o)
  BY DEF Write, LimitInv, TypeOK, SoundRequests
<1>2. v \in Users /\ o.limit \in Limits \cup {None}
  BY <1>1 DEF Op
<1>3. CASE ~Exists(v)
  <2>1. UNCHANGED <<rowVars, slipped>>
    BY <1>3 DEF Write
  <2>. QED
    BY <2>1, CauseKept DEF rowVars
<1>4. CASE Exists(v)
  <2>1. /\ status' = [status EXCEPT ![v] = Written(o)]
        /\ used' = IF o.zero THEN [used EXCEPT ![v] = 0] ELSE used
        /\ limit' = IF o.limit # None THEN [limit EXCEPT ![v] = o.limit] ELSE limit
        /\ Slips(S)
    BY <1>4 DEF Write
  <2>2. u \notin slipped /\ u \notin S
    <3> HIDE DEF S
    <3>. QED
      BY <2>1 DEF Slips
  <2>3. CASE u # v
    <3>1. status[u] = "LIMITED" /\ used'[u] = used[u] /\ limit'[u] = limit[u]
      BY <2>1, <2>3 DEF LimitInv, TypeOK
    <3>. QED
      BY <2>2, <3>1, CauseKept
  <2>4. CASE u = v
    <3>1. Written(o) = "LIMITED"
      BY <2>1, <2>4 DEF LimitInv, TypeOK
    <3>2. status[u] = "LIMITED" /\ o.status # "ACTIVE"
      <4>1. o.status \in {"ACTIVE", "DISABLED", "GONE", "revive", None}
        BY <1>1 DEF Op
      <4>2. None \notin {"ACTIVE", "revive"}
        BY UserAssumption
      <4>3. o.status \in {"ACTIVE", "DISABLED", "GONE"} => o.status = None
        BY <3>1, <4>2 DEF Written
      <4>. QED
        BY <2>4, <3>1, <4>1, <4>2, <4>3 DEF Written
    <3>3. o.seen \in {None, Seen(u)}
      BY <2>2, <2>4
    <3>4. CASE o.seen = None
      <4>1. ~o.zero /\ o.limit = None
        BY <1>1, <3>4 DEF Sound
      <4>. QED
        BY <2>1, <2>2, <3>2, <4>1, CauseKept
    <3>5. CASE o.seen = Seen(u)
      <4>1. limit[u] \in Limits /\ o.seen = <<"LIMITED", limit[u]>>
        BY <3>2, <3>5 DEF Seen, LimitInv, TypeOK
      <4>2. ~o.zero /\ (o.limit # None => o.limit # 0 /\ o.limit <= limit[u])
        BY <1>1, <3>2, <4>1 DEF Sound
      <4>3. used' = used
        BY <2>1, <4>2
      <4>4. CASE o.limit = None
        BY <2>1, <2>2, <3>2, <4>3, <4>4, CauseKept
      <4>5. CASE o.limit # None
        <5>1. limit'[u] = o.limit
          BY <2>1, <2>4, <4>5 DEF LimitInv, TypeOK
        <5>2. used[u] \in Nat /\ limit[u] \in Nat /\ o.limit \in Nat
          BY <1>2, <4>5, LimitsAreNumbers, UserAssumption DEF LimitInv
        <5>3. used[u] >= limit[u]
          BY <2>2, <3>2 DEF LimitInv, LimitedHasCause, Exceeded
        <5>. QED
          BY <4>2, <4>3, <4>5, <5>1, <5>2, <5>3
      <4>. QED
        BY <4>4, <4>5
    <3>. QED
      BY <3>3, <3>4, <3>5
  <2>. QED
    BY <2>3, <2>4
<1>. QED
  BY <1>3, <1>4

LEMMA RequestCause ==
    ASSUME LimitInv, NEW s \in Slots, NEW v \in Users, Request(s, v),
           NEW u \in Users, status'[u] = "LIMITED", u \notin slipped'
    PROVE  limit'[u] # 0 /\ used'[u] >= limit'[u]
<1>1. CASE UNCHANGED <<rowVars, slipped>>
  BY <1>1, CauseKept DEF rowVars
<1>2. CASE CreateUser(s, v)
  <2>1. PICK st \in Status :
          /\ status' = [status EXCEPT ![v] = st]
          /\ slipped' = IF st = "LIMITED" THEN slipped \cup {v} ELSE slipped
    BY <1>2 DEF CreateUser
  <2>2. UNCHANGED <<used, limit>>
    BY <1>2 DEF CreateUser
  <2>3. u # v
    BY <2>1 DEF LimitInv, TypeOK
  <2>. QED
    BY <2>1, <2>2, <2>3, CauseKept DEF LimitInv, TypeOK
<1>3. ASSUME NEW d, Reads(s, v, d)
      PROVE  UNCHANGED <<rowVars, slipped>>
  BY <1>3 DEF Reads
<1>4. UpdateUser(s, v) => UNCHANGED <<rowVars, slipped>>
  BY <1>3 DEF UpdateUser
<1>5. DisableUser(s, v) \/ EnableUser(s, v) => UNCHANGED <<rowVars, slipped>>
  BY <1>3 DEF DisableUser, EnableUser
<1>6. ExtendUser(s, v) \/ RevokeUserSubscription(s, v) \/ DeleteUser(s, v)
      => UNCHANGED <<rowVars, slipped>>
  BY <1>3 DEF ExtendUser, RevokeUserSubscription, DeleteUser
<1>7. ResetUserTraffic(s, v) => UNCHANGED <<rowVars, slipped>>
  BY DEF ResetUserTraffic
<1>. QED
  BY <1>1, <1>2, <1>4, <1>5, <1>6, <1>7 DEF Request

(* A statement of a job that leaves the limit and the traffic of a user       *)
(* alone, or counts the user as slipped, and makes nobody LIMITED.           *)
LEMMA StatementCause ==
    ASSUME LimitInv, NEW S, Slips(S), NEW u \in Users,
           status'[u] = "LIMITED" => status[u] = "LIMITED",
           u \in S \/ (limit'[u] = limit[u] /\ used'[u] = used[u]),
           status'[u] = "LIMITED", u \notin slipped'
    PROVE  limit'[u] # 0 /\ used'[u] >= limit'[u]
<1>1. u \notin slipped /\ u \notin S
  BY DEF Slips
<1>. QED
  BY <1>1, CauseKept

LEMMA JobCause ==
    ASSUME LimitInv,
           \/ FindExceeded \/ FindExpired \/ ZeroTargets \/ ResetLimited
           \/ BulkUpdateAll \/ BulkDeleteByStatus \/ SyncLimited \/ SyncExpired,
           NEW u \in Users, status'[u] = "LIMITED", u \notin slipped'
    PROVE  limit'[u] # 0 /\ used'[u] >= limit'[u]
<1>. status \in [Users -> Row]
  BY DEF LimitInv, TypeOK, Row
<1>1. CASE FindExceeded
  <2> DEFINE found == {v \in Users : status[v] = "ACTIVE" /\ Exceeded(v)}
  <2>1. status' = Assign(found, "LIMITED") /\ UNCHANGED <<used, limit, slipped>>
    BY <1>1 DEF FindExceeded
  <2>2. CASE u \in found
    <3>1. Exceeded(u)
      BY <2>2
    <3>. QED
      BY <2>1, <3>1 DEF Exceeded
  <2>3. CASE u \notin found
    <3>1. status[u] = "LIMITED"
      <4> HIDE DEF found
      <4>. QED
        BY <2>1, <2>3, AssignOther
    <3>. QED
      BY <2>1, <3>1, CauseKept
  <2>. QED
    BY <2>2, <2>3
<1>2. CASE FindExpired
  <2>1. status' = Assign({v \in overdue : status[v] \in {"ACTIVE", "LIMITED"}}, "EXPIRED")
        /\ UNCHANGED <<used, limit>> /\ Slips({})
    BY <1>2 DEF FindExpired
  <2>2. status[u] = "LIMITED"
    BY <2>1 DEF Assign
  <2>. QED
    BY <2>1, <2>2, StatementCause
<1>3. CASE ZeroTargets
  <2>1. CASE UNCHANGED <<status, used, limit, slipped>>
    BY <2>1, CauseKept
  <2>2. CASE /\ used' = Zeroed({v \in reset.targets : Exists(v)})
             /\ UNCHANGED <<status, limit>>
             /\ Slips(reset.targets)
    <3>1. u \in reset.targets \/ used'[u] = used[u]
      BY <2>2 DEF Zeroed, LimitInv, TypeOK
    <3>. QED
      BY <2>2, <3>1, StatementCause
  <2>. QED
    BY <1>3, <2>1, <2>2 DEF ZeroTargets
<1>4. CASE ResetLimited
  <2> DEFINE found == {v \in reset.due : status[v] = "LIMITED"}
  <2>1. CASE UNCHANGED <<status, used, limit, slipped>>
    BY <2>1, CauseKept
  <2>2. CASE /\ status' = Assign(found, "ACTIVE")
             /\ used' = Zeroed(found)
             /\ UNCHANGED limit
             /\ Slips({})
    <3>1. u \notin found
      <4> HIDE DEF found
      <4>. QED
        BY <2>2 DEF Assign
    <3>2. status[u] = "LIMITED" /\ used'[u] = used[u]
      <4> HIDE DEF found
      <4>. QED
        BY <2>2, <3>1, AssignOther DEF Zeroed, LimitInv, TypeOK
    <3>. QED
      BY <2>2, <3>2, StatementCause
  <2>. QED
    BY <1>4, <2>1, <2>2 DEF ResetLimited
<1>5. CASE BulkUpdateAll
  <2>1. PICK hit \in SUBSET Rows, st \in {None, "ACTIVE", "DISABLED"}, lim \in Limits \cup {None} :
          /\ status' = IF st = None THEN status ELSE Assign(hit, st)
          /\ limit' = IF lim = None THEN limit
                      ELSE [v \in Users |-> IF v \in hit THEN lim ELSE limit[v]]
          /\ Slips(IF lim # None THEN hit ELSE {})
    BY <1>5 DEF BulkUpdateAll
  <2>2. UNCHANGED used
    BY <1>5 DEF BulkUpdateAll
  <2>3. status[u] = "LIMITED"
    <3>1. CASE st = None
      BY <2>1, <3>1
    <3>2. CASE st # None
      BY <2>1, <3>2 DEF Assign
    <3>. QED
      BY <3>1, <3>2
  <2>4. CASE lim = None
    BY <2>1, <2>2, <2>3, <2>4, StatementCause
  <2>5. CASE lim # None
    <3>1. Slips(hit)
      BY <2>1, <2>5
    <3>2. u \in hit \/ limit'[u] = limit[u]
      BY <2>1, <2>5
    <3>. QED
      BY <2>2, <2>3, <3>1, <3>2, StatementCause
  <2>. QED
    BY <2>4, <2>5
<1>6. CASE BulkDeleteByStatus
  <2>1. PICK hit : status' = Assign(hit, "GONE")
    BY <1>6 DEF BulkDeleteByStatus
  <2>2. Slips({}) /\ UNCHANGED <<used, limit>>
    BY <1>6 DEF BulkDeleteByStatus
  <2>3. status[u] = "LIMITED"
    BY <2>1 DEF Assign
  <2>. QED
    BY <2>2, <2>3, StatementCause
<1>7. CASE SyncLimited
  <2>1. CASE UNCHANGED <<status, used, limit, slipped>>
    BY <2>1, CauseKept
  <2>2. CASE status' = Assign({v \in Users : Released(v)}, "ACTIVE") /\ UNCHANGED <<used, limit>>
    <3>1. ~Released(u) /\ status[u] = "LIMITED"
      BY <2>2 DEF Assign
    <3>2. used[u] \in Nat /\ limit[u] \in Nat
      BY LimitsAreNumbers DEF LimitInv
    <3>. QED
      BY <2>2, <3>1, <3>2 DEF Released
  <2>. QED
    BY <1>7, <2>1, <2>2 DEF SyncLimited
<1>8. CASE SyncExpired
  <2>1. /\ status' = Assign({v \in Users : Revived(v)}, "ACTIVE") \/ status' = status
        /\ UNCHANGED <<used, limit, slipped>>
    BY <1>8 DEF SyncExpired
  <2>2. status[u] = "LIMITED"
    BY <2>1 DEF Assign
  <2>. QED
    BY <2>1, <2>2, CauseKept
<1>. QED
  BY <1>1, <1>2, <1>3, <1>4, <1>5, <1>6, <1>7, <1>8

LEMMA LimitStep ==
    ASSUME LimitInv, [Next]_vars
    PROVE  LimitInv'
<1>1. TypeOK'
  BY StepType DEF LimitInv
<1>2. SoundRequests'
  <2>1. CASE \E s \in Slots :
                 \/ \E u \in Users : Request(s, u)
                 \/ Extend(s) \/ Write(s) \/ Publish(s) \/ RequestFails(s)
    BY <2>1, RequestSound, SlotSound
  <2>2. CASE UNCHANGED op
    BY <2>2 DEF LimitInv, SoundRequests, Sound
  <2>3. CASE \/ \E u \in Users : PassExpiry(u) \/ UseTraffic(u)
             \/ \E u \in Users, k \in Call : FireUserEvent(u, k) \/ CallNode(u, k)
             \/ ReadRoster \/ SendRoster
             \/ FindExceeded \/ FindExpired
             \/ SelectTargets \/ ZeroTargets \/ ResetLimited \/ CrashReset
             \/ SyncLimited \/ SyncExpired \/ BulkRestart \/ CrashBulk
    BY <2>2, <2>3
    DEF PassExpiry, UseTraffic, FireUserEvent, CallNode, ReadRoster, SendRoster, FindExceeded,
        FindExpired, SelectTargets, ZeroTargets, ResetLimited, CrashReset, SyncLimited,
        SyncExpired, BulkRestart, CrashBulk
  <2>4. CASE StartReset \/ BulkUpdateAll \/ BulkExtendAll \/ BulkDeleteByStatus
    BY <2>2, <2>4
    DEF StartReset, BulkUpdateAll, BulkExtendAll, BulkDeleteByStatus, StartBatch
  <2>. QED
    BY <2>1, <2>2, <2>3, <2>4 DEF Next, vars
<1>3. LimitedHasCause'
  <2> SUFFICES ASSUME NEW u \in Users, status'[u] = "LIMITED", u \notin slipped'
               PROVE  limit'[u] # 0 /\ used'[u] >= limit'[u]
    BY DEF LimitedHasCause, Exceeded
  <2>1. CASE UNCHANGED <<status, used, limit, slipped>>
    BY <2>1, CauseKept
  <2>2. ASSUME NEW s \in Slots, NEW v \in Users, Request(s, v)
        PROVE  limit'[u] # 0 /\ used'[u] >= limit'[u]
    BY <2>2, RequestCause
  <2>3. ASSUME NEW s \in Slots, Extend(s) \/ Publish(s) \/ RequestFails(s)
        PROVE  UNCHANGED <<status, used, limit, slipped>>
    BY <2>3 DEF Extend, Publish, RequestFails, rowVars
  <2>4. ASSUME NEW s \in Slots, Write(s)
        PROVE  limit'[u] # 0 /\ used'[u] >= limit'[u]
    BY <2>4, WriteCause
  <2>5. ASSUME NEW v \in Users, UseTraffic(v)
        PROVE  limit'[u] # 0 /\ used'[u] >= limit'[u]
    <3>1. used' = [used EXCEPT ![v] = @ + 1] /\ UNCHANGED <<status, limit, slipped>>
      BY <2>5 DEF UseTraffic
    <3>2. used'[u] = used[u] \/ used'[u] = used[u] + 1
      BY <3>1 DEF LimitInv, TypeOK
    <3>. QED
      BY <3>1, <3>2, CauseKept
  <2>6. CASE \/ \E v \in Users : PassExpiry(v)
             \/ \E v \in Users, k \in Call : FireUserEvent(v, k) \/ CallNode(v, k)
             \/ ReadRoster \/ SendRoster
             \/ StartReset \/ SelectTargets \/ CrashReset
             \/ BulkExtendAll \/ BulkRestart \/ CrashBulk
    BY <2>1, <2>6
    DEF PassExpiry, FireUserEvent, CallNode, ReadRoster, SendRoster, StartReset, SelectTargets,
        CrashReset, BulkExtendAll, BulkRestart, CrashBulk, rowVars
  <2>7. CASE \/ FindExceeded \/ FindExpired \/ ZeroTargets \/ ResetLimited
             \/ BulkUpdateAll \/ BulkDeleteByStatus \/ SyncLimited \/ SyncExpired
    BY <2>7, JobCause
  <2>8. CASE UNCHANGED vars
    BY <2>1, <2>8 DEF vars, rowVars
  <2>. QED
    BY <2>1, <2>2, <2>3, <2>4, <2>5, <2>6, <2>7, <2>8 DEF Next
<1>. QED
  BY <1>1, <1>2, <1>3 DEF LimitInv

(* However requests, the watchdog, the reset job and the serial jobs          *)
(* interleave and fail, a LIMITED user has used up its limit, unless a write *)
(* from a stale read or the gap between two statements of a job slipped in.  *)
THEOREM LimitedCause == Spec => []LimitedHasCause
<1>1. Init => LimitInv
  <2>1. ASSUME Init
        PROVE  TypeOK
    BY <2>1, InitType
  <2>2. ASSUME Init
        PROVE  SoundRequests /\ LimitedHasCause
    BY <2>2 DEF Init, SoundRequests, LimitedHasCause
  <2>. QED
    BY <2>1, <2>2 DEF LimitInv
<1>2. LimitInv /\ [Next]_vars => LimitInv'
  BY LimitStep
<1>3. LimitInv => LimitedHasCause
  BY DEF LimitInv
<1>. QED
  BY <1>1, <1>2, <1>3, PTL DEF Spec

-----------------------------------------------------------------------------
(* The node lets in who it should.  What a request has decided agrees with   *)
(* what it will publish: a reset of traffic publishes nothing after its      *)
(* write, a change of squads adds or removes, and the others set a status    *)
(* and publish the call that goes with it.                                  *)

Resets(o) ==
    /\ o.stage = "write" /\ o.zero /\ o.status \in {"ACTIVE", None}
    /\ o.squad = None /\ o.emit = None /\ o.again = "no"

Moves(o) ==
    /\ o.stage = "write" /\ ~o.zero /\ o.status \in {"ACTIVE", "DISABLED", None}
    /\ o.squad # None /\ o.again = "no"
    /\ o.emit = (IF o.squad = "none" THEN "remove" ELSE "add")

Sets(o) ==
    /\ o.stage \in {"extend", "write"} /\ ~o.zero /\ o.squad = None
    /\ o.stage = "extend" => o.status = "revive"
    /\ \/ o.status = "ACTIVE" /\ o.emit = "add" /\ o.again \in {"no", "exists"}
       \/ o.status = "DISABLED" /\ o.emit = "remove" /\ o.again \in {"no", "exists"}
       \/ o.status = "GONE" /\ o.emit = "remove" /\ o.again = "no"
       \/ o.status \in {"revive", None} /\ o.emit = None /\ o.again = "no"
       \/ o.status = None /\ o.emit = "add" /\ o.again = "active"

Sane(o) == o.stage = "publish" \/ Resets(o) \/ Moves(o) \/ Sets(o)
AllSane == \A s \in Slots : op[s] # None => Sane(op[s])

(* A reset of a LIMITED user has published before it makes the user ACTIVE:  *)
(* until then the node is to follow what the row will be.                   *)
Early(o) == o.zero /\ o.status = "ACTIVE"
Due(o, u) == squad[u] = "here" /\ (status[u] = "ACTIVE" \/ Early(o))

(* An add that is queued for u becomes a call; a restart is still to read.   *)
Heard(u) == squad[u] \in {"here", "elsewhere"}
Repair == wanted \/ bulk # IdleBulk

(* What a restart has read still stands, unless another one will read.       *)
Read(u) == roster # None /\ ~Repair => (u \in roster <=> ShouldBeOn(u))

(* No request is on u, or only the one in slot s.                           *)
Unasked(u) == \A s \in Slots : ~OpOn(s, u)
Lone(s, u) == OpOn(s, u) /\ \A t \in Slots : OpOn(t, u) => t = s

(* Without a request, each event and call agrees with the row, and either    *)
(* the node does too, or something that will tell it is on its way.         *)
Resting(u) ==
    /\ bulk # IdleBulk => ~CallsInFlight(u)
    /\ fired[u] # NoCalls => Exists(u)
    /\ fired[u]["add"] > 0 => status[u] = "ACTIVE"
    /\ fired[u]["remove"] > 0 => status[u] # "ACTIVE"
    /\ jobs[u]["add"] > 0 => ShouldBeOn(u)
    /\ jobs[u]["remove"] > 0 => ~ShouldBeOn(u)
    /\ \/ u \in onNode <=> ShouldBeOn(u)
       \/ jobs[u] # NoCalls
       \/ fired[u]["remove"] > 0
       \/ fired[u]["add"] > 0 /\ Heard(u)
       \/ Repair
       \/ roster # None
    /\ Read(u)

(* The request o has read u, and has yet to write it.                       *)
Deciding(o, u) ==
    /\ o.stage # "publish"
    /\ fired[u] = NoCalls /\ bulk = IdleBulk /\ roster = None /\ Exists(u)
    /\ jobs[u] # NoCalls => Early(o)
    /\ jobs[u]["add"] > 0 => Due(o, u)
    /\ jobs[u]["remove"] > 0 => ~Due(o, u)
    /\ (u \in onNode <=> Due(o, u)) \/ jobs[u] # NoCalls \/ wanted

(* The request o has written u, and has yet to publish what it did.         *)
Publishing(o, u) ==
    /\ o.stage = "publish"
    /\ fired[u] = NoCalls /\ jobs[u] = NoCalls /\ bulk = IdleBulk
    /\ o.emit # None
    /\ o.emit = "remove" => ~ShouldBeOn(u) /\ o.again # "active"
    /\ o.emit = "add" /\ o.again # "active" => status[u] = "ACTIVE"
    /\ o.again = "exists" => Exists(u)
    /\ \/ u \in onNode <=> ShouldBeOn(u)
       \/ o.emit = "remove"
       \/ o.emit = "add" /\ Heard(u) /\ (o.again = "active" => status[u] = "ACTIVE")
       \/ wanted
       \/ roster # None
    /\ Read(u)

Tracked(u) ==
    \/ Unasked(u) /\ Resting(u)
    \/ \E s \in Slots : Lone(s, u) /\ (Deciding(op[s], u) \/ Publishing(op[s], u))

Tracking == \A u \in Users : u \notin adrift => Tracked(u)

LEMMA NoCallsAre ==
    ASSUME NEW c \in [Call -> Nat]
    PROVE  c = NoCalls <=> c["add"] = 0 /\ c["remove"] = 0
<1>1. c = [k \in Call |-> c[k]]
  OBVIOUS
<1>2. NoCalls = [k \in Call |-> 0]
  BY DEF NoCalls
<1>3. Call = {"add", "remove"}
  BY DEF Call
<1>4. ASSUME c["add"] = 0, c["remove"] = 0
      PROVE  c = NoCalls
  <2>1. \A k \in Call : c[k] = 0
    BY <1>3, <1>4
  <2>. QED
    BY <1>1, <1>2, <2>1
<1>. QED
  BY <1>2, <1>3, <1>4

(* What is queued for u does not touch the others' calls.                   *)
LEMMA QueuedOther ==
    ASSUME jobs \in Bags, NEW u \in Users, NEW k, NEW v \in Users, v # u
    PROVE  Queued(u, k)[v] = jobs[v]
<1>1. ASSUME NEW c
      PROVE  Put(jobs, {u}, c)[v] = jobs[v]
  BY DEF Put
<1>. QED
  BY <1>1 DEF Queued

LEMMA OneMore ==
    ASSUME NEW c \in [Call -> Nat], NEW k \in Call, NEW new, new = [c EXCEPT ![k] = @ + 1]
    PROVE  /\ new \in [Call -> Nat]
           /\ new[k] = c[k] + 1
           /\ \A l \in Call : l # k => new[l] = c[l]
           /\ new # NoCalls
<1>1. /\ new \in [Call -> Nat]
      /\ new[k] = c[k] + 1
      /\ \A l \in Call : l # k => new[l] = c[l]
  OBVIOUS
<1>2. NoCalls[k] = 0 /\ c[k] \in Nat
  BY DEF NoCalls
<1>. QED
  BY <1>1, <1>2

(* What a queued event adds to the calls of its user.                       *)
LEMMA QueuedOwn ==
    ASSUME jobs \in Bags, NEW u \in Users, NEW k \in Call,
           NEW new, new = Queued(u, k)[u]
    PROVE  /\ new \in [Call -> Nat]
           /\ new["add"] > 0 =>
                jobs[u]["add"] > 0 \/ (k = "add" /\ Exists(u) /\ squad[u] = "here")
           /\ new["remove"] > 0 =>
                jobs[u]["remove"] > 0 \/ k = "remove" \/ squad[u] = "elsewhere"
           /\ jobs[u] # NoCalls => new # NoCalls
           /\ k = "remove" \/ (Exists(u) /\ Heard(u)) => new # NoCalls
<1>1. "add" \in Call /\ "remove" \in Call /\ k \in {"add", "remove"} /\ jobs[u] \in [Call -> Nat]
  BY DEF Call, Bags
<1>2. CASE k = "remove" \/ (Exists(u) /\ squad[u] = "elsewhere")
  <2>1. new = [jobs[u] EXCEPT !["remove"] = @ + 1]
    BY <1>2 DEF Queued, Put
  <2>2. new \in [Call -> Nat] /\ new # NoCalls /\ new["add"] = jobs[u]["add"]
    BY <1>1, <2>1, OneMore
  <2>. QED
    BY <1>2, <2>2
<1>3. CASE ~(k = "remove" \/ (Exists(u) /\ squad[u] = "elsewhere"))
           /\ Exists(u) /\ squad[u] = "here"
  <2>1. new = [jobs[u] EXCEPT !["add"] = @ + 1]
    BY <1>3 DEF Queued, Put
  <2>2. new \in [Call -> Nat] /\ new # NoCalls /\ new["remove"] = jobs[u]["remove"]
    BY <1>1, <2>1, OneMore
  <2>. QED
    BY <1>1, <1>3, <2>2
<1>4. CASE ~(k = "remove" \/ (Exists(u) /\ squad[u] = "elsewhere"))
           /\ ~(Exists(u) /\ squad[u] = "here")
  <2>1. new = jobs[u]
    BY <1>4 DEF Queued
  <2>. QED
    BY <1>1, <1>4, <2>1 DEF Heard
<1>. QED
  BY <1>2, <1>3, <1>4

(* What each request decides when it reads the user: a plain request changes *)
(* nothing yet; a reset of a LIMITED user has published its add already; a   *)
(* new user is in the table.                                                *)
PlainRead(u, d) ==
    /\ Resets(d) \/ Moves(d) \/ Sets(d)
    /\ ~Early(d)
    /\ Exists(u)
    /\ UNCHANGED <<status, jobs>>

EarlyRead(u, d) ==
    /\ Resets(d)
    /\ Early(d)
    /\ status[u] = "LIMITED"
    /\ UNCHANGED status
    /\ jobs' = Queued(u, "add")

Creates(u, d) ==
    /\ d.stage = "publish" /\ d.emit = "add" /\ d.again = "active"
    /\ status[u] = "NEW"
    /\ \E st \in Status : status' = [status EXCEPT ![u] = st]
    /\ UNCHANGED jobs

LEMMA UpdateShape ==
    ASSUME TypeOK, NEW s \in Slots, NEW u \in Users, UpdateUser(s, u)
    PROVE  \E d : Starts(s, u, d) /\ UNCHANGED squad /\ d # None /\ d.user = u /\ PlainRead(u, d)
<1>1. PICK st \in {None, "ACTIVE", "DISABLED"}, lim \in Limits \cup {None}, date \in BOOLEAN,
           squads \in Squads \cup {None} :
        LET enables  == status[u] # "ACTIVE" /\ st = "ACTIVE"
            disables == status[u] = "ACTIVE" /\ st = "DISABLED"
            raises   == lim # None /\ status[u] = "LIMITED" /\ (lim > limit[u] \/ lim = 0)
            revives  == status[u] = "EXPIRED" /\ date /\ st = None
            changes  == squads # None /\ {squads, squad[u]} # {"none"}
            add      == IF changes THEN squads # "none" ELSE enables \/ raises \/ revives
            remove   == IF changes THEN squads = "none" ELSE disables
        IN Reads(s, u, [Decision(u) EXCEPT
                !.seen = IF lim = None THEN None ELSE Seen(u),
                !.status = IF disables THEN "DISABLED"
                           ELSE IF enables \/ raises \/ revives THEN "ACTIVE" ELSE None,
                !.limit = lim, !.renew = date, !.squad = IF changes THEN squads ELSE None,
                !.emit = IF remove THEN "remove" ELSE IF add THEN "add" ELSE None])
  BY DEF UpdateUser
<1> DEFINE enables  == status[u] # "ACTIVE" /\ st = "ACTIVE"
           disables == status[u] = "ACTIVE" /\ st = "DISABLED"
           raises   == lim # None /\ status[u] = "LIMITED" /\ (lim > limit[u] \/ lim = 0)
           revives  == status[u] = "EXPIRED" /\ date /\ st = None
           changes  == squads # None /\ {squads, squad[u]} # {"none"}
           add      == IF changes THEN squads # "none" ELSE enables \/ raises \/ revives
           remove   == IF changes THEN squads = "none" ELSE disables
           sn == IF lim = None THEN None ELSE Seen(u)
           stt == IF disables THEN "DISABLED"
                  ELSE IF enables \/ raises \/ revives THEN "ACTIVE" ELSE None
           sq == IF changes THEN squads ELSE None
           em == IF remove THEN "remove" ELSE IF add THEN "add" ELSE None
           d == [Decision(u) EXCEPT !.seen = sn, !.status = stt, !.limit = lim, !.renew = date,
                                    !.squad = sq, !.emit = em]
<1>2. Reads(s, u, d)
  BY <1>1
<1>3. Starts(s, u, d) /\ UNCHANGED <<rowVars, jobs>> /\ Exists(u)
  BY <1>2 DEF Reads
<1>4. /\ d.user = u /\ d.stage = "write" /\ ~d.zero /\ d.again = "no"
      /\ d.status = stt /\ d.squad = sq /\ d.emit = em /\ d.zero = FALSE
  <2> HIDE DEF stt, sq, em, sn
  <2>. QED
    BY DEF Decision
<1>5. d # None
  <2>1. d \in Op
    <3>1. sn \in (Status \X Limits) \cup {None}
      BY <1>3, SeenType
    <3>2. /\ stt \in {"ACTIVE", "DISABLED", "GONE", "revive", None}
          /\ sq \in Squads \cup {None} /\ em \in Call \cup {None}
      BY DEF Call
    <3> HIDE DEF sn, stt, sq, em
    <3>. QED
      BY <3>1, <3>2 DEF Decision, Op
  <2>. QED
    <3> HIDE DEF d
    <3>. QED
      BY <2>1, IdleAssumption
<1>6. CASE changes
  <2>1. sq = squads /\ sq # None /\ em = IF squads = "none" THEN "remove" ELSE "add"
    BY <1>6
  <2>2. Moves(d)
    <3>1. stt \in {"ACTIVE", "DISABLED", None}
      OBVIOUS
    <3> HIDE DEF d, stt, sq, em
    <3>. QED
      BY <1>4, <2>1, <3>1 DEF Moves
  <2>3. ~Early(d)
    <3> HIDE DEF d
    <3>. QED
      BY <1>4 DEF Early
  <2>. QED
    <3> HIDE DEF d
    <3>. QED
      BY <1>3, <1>4, <1>5, <2>2, <2>3 DEF PlainRead, rowVars
<1>7. CASE ~changes
  <2>1. sq = None
    BY <1>7
  <2>2. \/ stt = "ACTIVE" /\ em = "add"
        \/ stt = "DISABLED" /\ em = "remove"
        \/ stt = None /\ em = None
    BY <1>7
  <2>3. Sets(d)
    <3> HIDE DEF d, stt, sq, em
    <3>. QED
      BY <1>4, <2>1, <2>2 DEF Sets
  <2>4. ~Early(d)
    <3> HIDE DEF d
    <3>. QED
      BY <1>4 DEF Early
  <2>. QED
    <3> HIDE DEF d
    <3>. QED
      BY <1>3, <1>4, <1>5, <2>3, <2>4 DEF PlainRead, rowVars
<1>. QED
  BY <1>6, <1>7

LEMMA RequestShape ==
    ASSUME TypeOK, NEW s \in Slots, NEW u \in Users, Request(s, u)
    PROVE  \E d : /\ Starts(s, u, d) /\ UNCHANGED squad /\ d # None /\ d.user = u
                  /\ PlainRead(u, d) \/ EarlyRead(u, d) \/ Creates(u, d)
<1>. None \notin {"ACTIVE", "DISABLED", "GONE", "revive", "add", "remove"}
  BY UserAssumption
<1>1. ASSUME NEW d \in Op, Reads(s, u, d), d.user = u, Sets(d)
      PROVE  Starts(s, u, d) /\ UNCHANGED squad /\ d # None /\ PlainRead(u, d)
  <2>1. Starts(s, u, d) /\ UNCHANGED <<rowVars, jobs>> /\ Exists(u)
    BY <1>1 DEF Reads
  <2>2. ~Early(d)
    BY <1>1 DEF Sets, Early
  <2>. QED
    BY <1>1, <2>1, <2>2, IdleAssumption DEF PlainRead, rowVars
<1>2. CASE CreateUser(s, u)
  <2> DEFINE d == [Decision(u) EXCEPT !.stage = "publish", !.emit = "add", !.again = "active"]
  <2>1. d \in Op
    BY DEF Decision, Op, Call
  <2>2. Starts(s, u, d) /\ UNCHANGED <<squad, jobs>> /\ status[u] = "NEW"
    BY <1>2 DEF CreateUser
  <2>3. \E st \in Status : status' = [status EXCEPT ![u] = st]
    BY <1>2 DEF CreateUser
  <2>4. d.user = u /\ d.stage = "publish" /\ d.emit = "add" /\ d.again = "active"
    BY DEF Decision
  <2> HIDE DEF d
  <2>5. d # None
    BY <2>1, IdleAssumption
  <2>. QED
    BY <2>2, <2>3, <2>4, <2>5 DEF Creates
<1>3. CASE UpdateUser(s, u)
  BY <1>3, UpdateShape
<1>4. CASE DisableUser(s, u)
  <2> DEFINE d == [Decision(u) EXCEPT !.status = "DISABLED", !.emit = "remove",
                                      !.again = "exists"]
  <2>1. d \in Op /\ d.user = u
    BY DEF Decision, Op, Call
  <2>2. Sets(d)
    BY DEF Decision, Sets
  <2>3. Reads(s, u, d)
    BY <1>4 DEF DisableUser
  <2> HIDE DEF d
  <2>. QED
    BY <1>1, <2>1, <2>2, <2>3
<1>5. CASE EnableUser(s, u)
  <2> DEFINE d == [Decision(u) EXCEPT !.status = "ACTIVE", !.emit = "add", !.again = "exists"]
  <2>1. d \in Op /\ d.user = u
    BY DEF Decision, Op, Call
  <2>2. Sets(d)
    BY DEF Decision, Sets
  <2>3. Reads(s, u, d)
    BY <1>5 DEF EnableUser
  <2> HIDE DEF d
  <2>. QED
    BY <1>1, <2>1, <2>2, <2>3
<1>6. CASE ResetUserTraffic(s, u)
  <2> DEFINE st == IF status[u] = "LIMITED" THEN "ACTIVE" ELSE None
             d == [Decision(u) EXCEPT !.seen = Seen(u), !.zero = TRUE, !.status = st]
  <2>1. /\ Starts(s, u, d) /\ UNCHANGED rowVars /\ Exists(u)
        /\ jobs' = IF status[u] = "LIMITED" THEN Queued(u, "add") ELSE jobs
    BY <1>6 DEF ResetUserTraffic
  <2>2. d \in Op
    <3>1. Seen(u) \in Status \X Limits
      BY <2>1, SeenType
    <3>. QED
      BY <3>1 DEF Decision, Op
  <2>3. /\ d.user = u /\ d.zero = TRUE /\ d.status = st /\ d.stage = "write"
        /\ d.squad = None /\ d.emit = None /\ d.again = "no"
    <3> HIDE DEF st
    <3>. QED
      BY DEF Decision
  <2>4. st \in {"ACTIVE", None} /\ (st = "ACTIVE" <=> status[u] = "LIMITED")
    OBVIOUS
  <2> HIDE DEF d, st
  <2>5. Resets(d) /\ d # None
    BY <2>2, <2>3, <2>4, IdleAssumption DEF Resets
  <2>6. CASE status[u] = "LIMITED"
    BY <2>1, <2>3, <2>4, <2>5, <2>6 DEF EarlyRead, Early, rowVars
  <2>7. CASE status[u] # "LIMITED"
    BY <2>1, <2>3, <2>4, <2>5, <2>7 DEF PlainRead, Early, rowVars
  <2>. QED
    BY <2>6, <2>7
<1>7. CASE ExtendUser(s, u)
  <2> DEFINE d == [Decision(u) EXCEPT !.status = "revive", !.stage = "extend"]
  <2>1. d \in Op /\ d.user = u
    BY DEF Decision, Op, Call
  <2>2. Sets(d)
    BY DEF Decision, Sets
  <2>3. Reads(s, u, d)
    BY <1>7 DEF ExtendUser
  <2> HIDE DEF d
  <2>. QED
    BY <1>1, <2>1, <2>2, <2>3
<1>8. CASE RevokeUserSubscription(s, u)
  <2> DEFINE d == [Decision(u) EXCEPT !.emit = "add", !.again = "active"]
  <2>1. d \in Op /\ d.user = u
    BY DEF Decision, Op, Call
  <2>2. Sets(d)
    BY DEF Decision, Sets
  <2>3. Reads(s, u, d)
    BY <1>8 DEF RevokeUserSubscription
  <2> HIDE DEF d
  <2>. QED
    BY <1>1, <2>1, <2>2, <2>3
<1>9. CASE DeleteUser(s, u)
  <2> DEFINE d == [Decision(u) EXCEPT !.status = "GONE", !.emit = "remove"]
  <2>1. d \in Op /\ d.user = u
    BY DEF Decision, Op, Call
  <2>2. Sets(d)
    BY DEF Decision, Sets
  <2>3. Reads(s, u, d)
    BY <1>9 DEF DeleteUser
  <2> HIDE DEF d
  <2>. QED
    BY <1>1, <2>1, <2>2, <2>3
<1>. QED
  BY <1>2, <1>3, <1>4, <1>5, <1>6, <1>7, <1>8, <1>9 DEF Request

LEMMA SaneOp ==
    ASSUME TypeOK, AllSane, NEW s \in Slots, NEW d, op' = [op EXCEPT ![s] = d],
           d # None => Sane(d)
    PROVE  AllSane'
<1>1. ASSUME NEW t \in Slots, op'[t] # None
      PROVE  Sane(op'[t])
  <2>1. CASE t = s
    BY <1>1, <2>1 DEF TypeOK
  <2>2. CASE t # s
    <3>1. op'[t] = op[t]
      BY <2>2 DEF TypeOK
    <3>. QED
      BY <1>1, <3>1 DEF AllSane
  <2>. QED
    BY <2>1, <2>2
<1>. QED
  BY <1>1 DEF AllSane, Sane, Resets, Moves, Sets

LEMMA SaneStep ==
    ASSUME TypeOK, AllSane, [Next]_vars
    PROVE  AllSane'
<1>1. CASE UNCHANGED op
  BY <1>1 DEF AllSane, Sane, Resets, Moves, Sets
<1>2. ASSUME NEW s \in Slots, NEW u \in Users, Request(s, u)
      PROVE  AllSane'
  <2>1. PICK d : Starts(s, u, d) /\ d # None /\ d.user = u
                 /\ (PlainRead(u, d) \/ EarlyRead(u, d) \/ Creates(u, d))
    BY <1>2, RequestShape
  <2>2. Sane(d)
    BY <2>1 DEF PlainRead, EarlyRead, Creates, Sane
  <2>3. op' = [op EXCEPT ![s] = Left(d)]
    BY <2>1 DEF Starts
  <2>4. Left(d) # None => Sane(Left(d))
    BY <2>2 DEF Left
  <2>. QED
    BY <2>3, <2>4, SaneOp
<1>3. ASSUME NEW s \in Slots, op' = [op EXCEPT ![s] = None]
      PROVE  AllSane'
  BY <1>3, SaneOp
<1>4. ASSUME NEW s \in Slots, Extend(s)
      PROVE  AllSane'
  <2>1. /\ op[s] # None /\ op[s].stage = "extend"
        /\ \/ op' = [op EXCEPT ![s] = None]
           \/ op' = [op EXCEPT ![s] = [op[s] EXCEPT !.stage = "write"]]
    BY <1>4 DEF Extend
  <2>2. op[s] \in Op /\ Sane(op[s])
    BY <2>1 DEF TypeOK, AllSane
  <2>3. Sets(op[s])
    BY <2>1, <2>2 DEF Sane, Resets, Moves
  <2>4. Sets([op[s] EXCEPT !.stage = "write"])
    BY <2>2, <2>3 DEF Sets, Op
  <2>. QED
    BY <1>3, <2>1, <2>4, SaneOp DEF Sane
<1>5. ASSUME NEW s \in Slots, Write(s)
      PROVE  AllSane'
  <2> DEFINE o == op[s]
             em == IF o.status = "revive"
                    THEN IF Revived(o.user) THEN "add" ELSE None
                    ELSE IF o.emit = "add" /\ o.again = "no" /\ Written(o) # "ACTIVE"
                    THEN None ELSE o.emit
             d == [Decision(o.user) EXCEPT !.emit = em, !.again = o.again, !.stage = "publish"]
  <2>1. op' = [op EXCEPT ![s] = None] \/ op' = [op EXCEPT ![s] = Left(d)]
    BY <1>5 DEF Write
  <2>2. d.stage = "publish"
    <3> HIDE DEF em
    <3>. QED
      BY DEF Decision
  <2>3. Left(d) # None => Sane(Left(d))
    <3> HIDE DEF d
    <3>. QED
      BY <2>2 DEF Left, Sane
  <2> HIDE DEF d
  <2>. QED
    BY <1>3, <2>1, <2>3, SaneOp
<1>6. ASSUME NEW s \in Slots, Publish(s) \/ RequestFails(s)
      PROVE  AllSane'
  BY <1>3, <1>6 DEF Publish, RequestFails
<1>7. CASE \/ \E u \in Users : PassExpiry(u) \/ UseTraffic(u)
           \/ \E u \in Users, k \in Call : FireUserEvent(u, k) \/ CallNode(u, k)
           \/ ReadRoster \/ SendRoster
           \/ FindExceeded \/ FindExpired
           \/ SelectTargets \/ ZeroTargets \/ ResetLimited \/ CrashReset
           \/ SyncLimited \/ SyncExpired \/ BulkRestart \/ CrashBulk
  BY <1>1, <1>7
  DEF PassExpiry, UseTraffic, FireUserEvent, CallNode, ReadRoster, SendRoster, FindExceeded,
      FindExpired, SelectTargets, ZeroTargets, ResetLimited, CrashReset, SyncLimited,
      SyncExpired, BulkRestart, CrashBulk
<1>8. CASE StartReset \/ BulkUpdateAll \/ BulkExtendAll \/ BulkDeleteByStatus
  BY <1>1, <1>8 DEF StartReset, BulkUpdateAll, BulkExtendAll, BulkDeleteByStatus, StartBatch
<1>. QED
  BY <1>1, <1>2, <1>4, <1>5, <1>6, <1>7, <1>8 DEF Next, vars

LEMMA AlwaysSane == Spec => []AllSane
<1>1. Init => AllSane
  BY DEF Init, AllSane
<1>2. TypeOK /\ AllSane /\ [Next]_vars => AllSane'
  BY SaneStep
<1>3. Spec => []TypeOK
  BY TypeCorrect
<1>. QED
  BY <1>1, <1>2, <1>3, PTL DEF Spec

(* A step that leaves u, its calls, its requests and the jobs as they are     *)
(* keeps track of it; a restart may be asked for.                           *)
OpsKept(u) == \A t \in Slots : OpOn(t, u) \/ OpOn(t, u)' => op'[t] = op[t]

LEMMA KeptOps ==
    ASSUME NEW u \in Users, OpsKept(u)
    PROVE  /\ Unasked(u) => Unasked(u)'
           /\ \A s \in Slots : Lone(s, u) => Lone(s, u)' /\ op'[s] = op[s]
BY DEF OpsKept, Unasked, Lone, OpOn

LEMMA Frame ==
    ASSUME NEW u \in Users, Tracked(u), OpsKept(u),
           status'[u] = status[u], squad'[u] = squad[u],
           fired'[u] = fired[u], jobs'[u] = jobs[u],
           u \in onNode' <=> u \in onNode,
           wanted => wanted', UNCHANGED <<roster, bulk>>
    PROVE  Tracked(u)'
<1>1. /\ Exists(u)' <=> Exists(u)
      /\ ShouldBeOn(u)' <=> ShouldBeOn(u)
      /\ CallsInFlight(u)' <=> CallsInFlight(u)
      /\ Heard(u)' <=> Heard(u)
      /\ Repair => Repair'
  BY DEF Exists, ShouldBeOn, CallsInFlight, Heard, Repair, NoCalls
<1>2. Read(u) => Read(u)'
  BY <1>1 DEF Read
<1>3. NoCalls' = NoCalls /\ IdleBulk' = IdleBulk
  BY DEF NoCalls, IdleBulk
<1>4. CASE Unasked(u) /\ Resting(u)
  <2>1. Unasked(u)'
    BY <1>4, KeptOps
  <2>2. Resting(u)'
    BY <1>1, <1>2, <1>3, <1>4 DEF Resting
  <2>. QED
    BY <2>1, <2>2 DEF Tracked
<1>5. ASSUME NEW s \in Slots, Lone(s, u), Deciding(op[s], u) \/ Publishing(op[s], u)
      PROVE  Tracked(u)'
  <2>1. Lone(s, u)' /\ op'[s] = op[s]
    BY <1>5, KeptOps
  <2>2. Deciding(op[s], u) => Deciding(op[s], u)'
    BY <1>1, <1>3, <2>1 DEF Deciding, Due, Early
  <2>3. Publishing(op[s], u) => Publishing(op[s], u)'
    BY <1>1, <1>2, <1>3, <2>1 DEF Publishing
  <2>. QED
    BY <1>5, <2>1, <2>2, <2>3 DEF Tracked
<1>. QED
  BY <1>4, <1>5 DEF Tracked

(* Nothing is under way for u: the node agrees with the row.                 *)
LEMMA Settled ==
    ASSUME NEW u \in Users, Tracked(u), ~InFlight(u)
    PROVE  /\ Unasked(u)
           /\ fired[u] = NoCalls /\ jobs[u] = NoCalls /\ bulk = IdleBulk
           /\ wanted # TRUE /\ roster = None
           /\ u \in onNode <=> ShouldBeOn(u)
<1>1. /\ \A s \in Slots : ~OpOn(s, u)
      /\ fired[u] = NoCalls /\ jobs[u] = NoCalls /\ bulk = IdleBulk
      /\ ~wanted /\ roster = None
  BY DEF InFlight, Busy, CallsInFlight
<1>2. Unasked(u) /\ Resting(u)
  BY <1>1 DEF Tracked, Lone
<1>3. "add" \in Call /\ "remove" \in Call
  BY DEF Call
<1>4. fired[u]["add"] = 0 /\ fired[u]["remove"] = 0
  BY <1>1, <1>3 DEF NoCalls
<1>5. u \in onNode <=> ShouldBeOn(u)
  BY <1>1, <1>2, <1>4 DEF Resting, Repair
<1>. QED
  BY <1>1, <1>2, <1>5

LEMMA NothingQueued ==
    ASSUME NEW c, c = NoCalls
    PROVE  ~(c["add"] > 0) /\ ~(c["remove"] > 0)
BY DEF NoCalls, Call

LEMMA RequestTracked ==
    ASSUME TypeOK, Tracking, NEW s \in Slots, NEW u \in Users, Request(s, u),
           NEW v \in Users, v \notin adrift'
    PROVE  Tracked(v)'
<1>1. PICK d : /\ Starts(s, u, d) /\ UNCHANGED squad /\ d # None /\ d.user = u
               /\ PlainRead(u, d) \/ EarlyRead(u, d) \/ Creates(u, d)
  BY RequestShape
<1>2. /\ op[s] = None /\ op' = [op EXCEPT ![s] = Left(d)]
      /\ adrift' = adrift \cup {x \in {u} : InFlight(x)}
      /\ UNCHANGED <<bulk, fired, onNode, wanted, roster>>
  BY <1>1 DEF Starts, Begins, batchVars
<1>3. Tracked(v)
  BY <1>2 DEF Tracking
<1>4. Left(d) = d
  <2>1. None # "add"
    BY UserAssumption
  <2>. QED
    BY <1>1, <2>1 DEF Left, PlainRead, EarlyRead, Creates, Resets, Moves, Sets
<1>5. op'[s] = d /\ \A t \in Slots : t # s => op'[t] = op[t]
  BY <1>2, <1>4 DEF TypeOK
<1>6. jobs \in Bags
  BY DEF TypeOK, Bags
<1>7. CASE v # u
  <2>1. OpsKept(v)
    BY <1>1, <1>2, <1>5, <1>7 DEF OpsKept, OpOn
  <2>2. status'[v] = status[v] /\ jobs'[v] = jobs[v]
    <3>1. CASE PlainRead(u, d)
      BY <3>1 DEF PlainRead
    <3>2. CASE EarlyRead(u, d)
      BY <1>6, <1>7, <3>2, QueuedOther DEF EarlyRead
    <3>3. CASE Creates(u, d)
      BY <1>7, <3>3 DEF Creates, TypeOK
    <3>. QED
      BY <1>1, <3>1, <3>2, <3>3
  <2>. QED
    BY <1>1, <1>2, <1>3, <2>1, <2>2, Frame
<1>8. CASE v = u
  <2>1. ~InFlight(u)
    BY <1>2, <1>8
  <2>2. /\ Unasked(u)
        /\ fired[u] = NoCalls /\ jobs[u] = NoCalls /\ bulk = IdleBulk
        /\ wanted # TRUE /\ roster = None
        /\ u \in onNode <=> ShouldBeOn(u)
    BY <1>3, <1>8, <2>1, Settled
  <2>3. Lone(s, u)'
    BY <1>1, <1>5, <2>2 DEF Lone, Unasked, OpOn
  <2>4. NoCalls' = NoCalls /\ IdleBulk' = IdleBulk
    BY DEF NoCalls, IdleBulk
  <2>5. CASE PlainRead(u, d)
    <3>1. d.stage # "publish" /\ ~Early(d) /\ Exists(u)' /\ jobs' = jobs /\ status' = status
      BY <2>5 DEF PlainRead, Resets, Moves, Sets, Exists
    <3>2. Due(d, u)' <=> ShouldBeOn(u)
      BY <1>1, <3>1 DEF Due, ShouldBeOn, Early
    <3>3. Deciding(op[s], u)'
      BY <1>2, <1>5, <2>2, <2>4, <3>1, <3>2, NothingQueued DEF Deciding, Due, Early
    <3>. QED
      BY <2>3, <3>3, <1>8 DEF Tracked
  <2>6. CASE EarlyRead(u, d)
    <3>1. d.stage # "publish" /\ Early(d) /\ Exists(u)' /\ Exists(u) /\ status' = status
      BY <2>6 DEF EarlyRead, Resets, Exists, Status
    <3>2. Due(d, u)' <=> squad[u] = "here"
      BY <1>1, <3>1 DEF Due, Early
    <3>3. status[u] # "ACTIVE"
      BY <2>6 DEF EarlyRead
    <3>4. u \notin onNode
      BY <2>2, <3>3 DEF ShouldBeOn
    <3>5. jobs'[u] = Queued(u, "add")[u] /\ "add" \in Call
      BY <2>6 DEF EarlyRead, Call
    <3>6. /\ jobs'[u]["add"] > 0 => squad[u] = "here"
          /\ jobs'[u]["remove"] > 0 => squad[u] = "elsewhere"
          /\ Heard(u) => jobs'[u] # NoCalls
      BY <1>6, <2>2, <3>1, <3>5, QueuedOwn, NothingQueued
    <3>7. Deciding(op[s], u)'
      BY <1>2, <1>5, <2>2, <2>4, <3>1, <3>2, <3>4, <3>6 DEF Deciding, Due, Early, Heard
    <3>. QED
      BY <2>3, <3>7, <1>8 DEF Tracked
  <2>7. CASE Creates(u, d)
    <3>1. /\ d.stage = "publish" /\ d.emit = "add" /\ d.again = "active"
          /\ status[u] = "NEW" /\ jobs' = jobs
      BY <2>7 DEF Creates
    <3>2. u \notin onNode
      BY <2>2, <3>1 DEF ShouldBeOn
    <3>3. "add" # None
      BY UserAssumption
    <3>4. ShouldBeOn(u)' => Heard(u)' /\ status'[u] = "ACTIVE"
      BY DEF ShouldBeOn, Heard
    <3>5. Publishing(op[s], u)'
      BY <1>2, <1>5, <2>2, <2>4, <3>1, <3>2, <3>3, <3>4 DEF Publishing, Read
    <3>. QED
      BY <2>3, <3>5, <1>8 DEF Tracked
  <2>. QED
    BY <1>1, <2>5, <2>6, <2>7
<1>. QED
  BY <1>7, <1>8

LEMMA OtherSlots ==
    ASSUME TypeOK, NEW s \in Slots, op[s] # None, NEW d, op' = [op EXCEPT ![s] = d],
           d = None \/ d.user = op[s].user, NEW v \in Users, v # op[s].user
    PROVE  OpsKept(v)
BY DEF TypeOK, OpsKept, OpOn

LEMMA OwnSlot ==
    ASSUME NEW s \in Slots, NEW u \in Users, OpOn(s, u), Tracked(u)
    PROVE  Lone(s, u) /\ (Deciding(op[s], u) \/ Publishing(op[s], u))
BY DEF Tracked, Unasked, Lone

LEMMA NextSlot ==
    ASSUME TypeOK, NEW s \in Slots, NEW u \in Users, Lone(s, u),
           NEW d, op' = [op EXCEPT ![s] = d]
    PROVE  /\ d = None => Unasked(u)'
           /\ d # None /\ d.user = u => Lone(s, u)' /\ op'[s] = d
<1>1. op'[s] = d /\ \A t \in Slots : t # s => op'[t] = op[t]
  BY DEF TypeOK
<1>. QED
  BY <1>1 DEF Lone, Unasked, OpOn

LEMMA ExtendTracked ==
    ASSUME TypeOK, AllSane, Tracking, NEW s \in Slots, Extend(s),
           NEW v \in Users, v \notin adrift'
    PROVE  Tracked(v)'
<1>. PICK o : o = op[s]
  OBVIOUS
<1>. PICK u : u = o.user
  OBVIOUS
<1> DEFINE w == [o EXCEPT !.stage = "write"]
<1>1. /\ o # None /\ o \in Op /\ o.stage = "extend" /\ u \in Users
      /\ UNCHANGED <<status, squad, bulk, fired, jobs, onNode, wanted, roster, adrift>>
  BY DEF Extend, TypeOK, Op, batchVars, nodeVars
<1>2. Tracked(v)
  BY <1>1 DEF Tracking
<1>3. ~Early(o)
  BY <1>1 DEF AllSane, Sane, Resets, Moves, Sets, Early
<1>4. CASE v # u
  <2>1. op' = [op EXCEPT ![s] = None] \/ op' = [op EXCEPT ![s] = w]
    BY DEF Extend
  <2>2. w.user = u
    BY <1>1 DEF Op
  <2>3. OpsKept(v)
    <3> HIDE DEF w
    <3>. QED
      BY <1>1, <1>4, <2>1, <2>2, OtherSlots
  <2>. QED
    BY <1>1, <1>2, <2>3, Frame
<1>5. CASE v = u
  <2>1. Lone(s, u) /\ Deciding(o, u)
    BY <1>1, <1>2, <1>5, OwnSlot DEF OpOn, Publishing
  <2>2. op' = [op EXCEPT ![s] = w]
    BY <2>1 DEF Extend, Deciding
  <2>3. w # None /\ w.user = u /\ w.stage = "write" /\ w.zero = o.zero /\ w.status = o.status
    <3>1. w \in Op
      BY <1>1 DEF Op
    <3>2. w # None
      <4> HIDE DEF w
      <4>. QED
        BY <3>1, IdleAssumption
    <3>. QED
      BY <1>1, <3>2 DEF Op
  <2> HIDE DEF w
  <2>4. Lone(s, u)' /\ op'[s] = w
    BY <1>1, <2>1, <2>2, <2>3, NextSlot
  <2>5. NoCalls' = NoCalls /\ IdleBulk' = IdleBulk /\ (Exists(u)' <=> Exists(u))
    BY <1>1 DEF NoCalls, IdleBulk, Exists
  <2>6. Deciding(op[s], u)'
    BY <1>1, <2>1, <2>3, <2>4, <2>5 DEF Deciding, Due, Early
  <2>. QED
    BY <1>5, <2>4, <2>6 DEF Tracked
<1>. QED
  BY <1>4, <1>5

LEMMA PublishTracked ==
    ASSUME TypeOK, Tracking, NEW s \in Slots, Publish(s),
           NEW v \in Users, v \notin adrift'
    PROVE  Tracked(v)'
<1>. PICK o : o = op[s]
  OBVIOUS
<1>. PICK u : u = o.user
  OBVIOUS
<1> DEFINE dropped == \/ o.again = "exists" /\ ~Exists(u)
                      \/ o.again = "active" /\ status[u] # "ACTIVE"
<1>1. /\ o # None /\ o \in Op /\ o.stage = "publish" /\ u \in Users
      /\ o.emit \in Call \cup {None}
      /\ op' = [op EXCEPT ![s] = None]
      /\ UNCHANGED <<status, squad, bulk, fired, onNode, wanted, roster, adrift>>
  BY DEF Publish, TypeOK, Op, rowVars, batchVars
<1>2. jobs' = IF dropped THEN jobs ELSE Queued(u, o.emit)
  BY DEF Publish
<1>3. Tracked(v)
  BY <1>1 DEF Tracking
<1>4. jobs \in Bags
  BY DEF TypeOK, Bags
<1>5. CASE v # u
  <2>1. OpsKept(v)
    BY <1>1, <1>5, OtherSlots
  <2>2. jobs'[v] = jobs[v]
    BY <1>1, <1>2, <1>4, <1>5, QueuedOther
  <2>. QED
    BY <1>1, <1>3, <2>1, <2>2, Frame
<1>6. CASE v = u
  <2>1. Lone(s, u) /\ Publishing(o, u)
    BY <1>1, <1>3, <1>6, OwnSlot DEF OpOn, Deciding
  <2>2. Unasked(u)'
    BY <1>1, <2>1, NextSlot
  <2>3. o.emit \in Call
    BY <1>1, <2>1 DEF Publishing
  <2>4. o.emit \in {"add", "remove"}
    BY <2>3 DEF Call
  <2>5. /\ ~(jobs[u]["add"] > 0) /\ ~(jobs[u]["remove"] > 0)
        /\ ~(fired[u]["add"] > 0) /\ ~(fired[u]["remove"] > 0)
        /\ fired[u] = NoCalls /\ jobs[u] = NoCalls /\ bulk = IdleBulk
    BY <2>1, NothingQueued DEF Publishing
  <2>6. status[u] = "ACTIVE" => Exists(u)
    BY DEF Exists, Status
  <2>7. /\ jobs'[u]["add"] > 0 => ShouldBeOn(u)
        /\ jobs'[u]["remove"] > 0 => ~ShouldBeOn(u)
        /\ \/ u \in onNode <=> ShouldBeOn(u)
           \/ jobs'[u] # NoCalls
           \/ wanted
           \/ roster # None
    <3>1. CASE dropped
      <4>1. o.emit # "remove"
        BY <2>1, <3>1 DEF Publishing
      <4>2. o.again = "active" /\ status[u] # "ACTIVE"
        BY <2>1, <3>1 DEF Publishing
      <4>3. jobs' = jobs
        BY <1>2, <3>1
      <4>. QED
        BY <2>1, <2>5, <4>1, <4>2, <4>3 DEF Publishing
    <3>2. CASE ~dropped
      <4>1. jobs'[u] = Queued(u, o.emit)[u]
        BY <1>2, <3>2
      <4>2. /\ jobs'[u]["add"] > 0 => o.emit = "add" /\ squad[u] = "here"
            /\ jobs'[u]["remove"] > 0 => o.emit = "remove" \/ squad[u] = "elsewhere"
            /\ o.emit = "remove" \/ (Exists(u) /\ Heard(u)) => jobs'[u] # NoCalls
        BY <1>1, <1>4, <2>3, <2>5, <4>1, QueuedOwn
      <4>3. o.emit = "add" => status[u] = "ACTIVE"
        BY <2>1, <3>2 DEF Publishing
      <4> HIDE DEF dropped
      <4>. QED
        BY <2>1, <2>4, <2>6, <4>2, <4>3 DEF Publishing, ShouldBeOn
    <3>. QED
      BY <3>1, <3>2
  <2>8. /\ NoCalls' = NoCalls /\ IdleBulk' = IdleBulk
        /\ ShouldBeOn(u)' <=> ShouldBeOn(u)
        /\ Read(u) => Read(u)'
    BY <1>1 DEF NoCalls, IdleBulk, ShouldBeOn, Read, Repair
  <2>9. Resting(u)'
    BY <1>1, <2>1, <2>5, <2>7, <2>8 DEF Resting, Publishing, Repair
  <2>. QED
    BY <1>6, <2>2, <2>9 DEF Tracked
<1>. QED
  BY <1>5, <1>6

LEMMA FailTracked ==
    ASSUME TypeOK, Tracking, NEW s \in Slots, RequestFails(s),
           NEW v \in Users, v \notin adrift'
    PROVE  Tracked(v)'
<1>1. /\ op[s] # None /\ op' = [op EXCEPT ![s] = None]
      /\ v # op[s].user /\ v \notin adrift
      /\ UNCHANGED <<status, squad, bulk, fired, jobs, onNode, wanted, roster>>
  BY DEF RequestFails, rowVars, batchVars, nodeVars
<1>2. Tracked(v) /\ OpsKept(v)
  BY <1>1, OtherSlots DEF Tracking
<1>. QED
  BY <1>1, <1>2, Frame

(* The end of a write that publishes nothing, and of one that will publish.   *)
LEMMA WroteAll ==
    ASSUME TypeOK, NEW s \in Slots, NEW u \in Users, Lone(s, u),
           op' = [op EXCEPT ![s] = None],
           fired[u] = NoCalls, bulk = IdleBulk, roster = None,
           UNCHANGED <<bulk, fired, jobs, onNode, wanted, roster>>,
           jobs[u]["add"] > 0 => ShouldBeOn(u)',
           jobs[u]["remove"] > 0 => ~ShouldBeOn(u)',
           (u \in onNode <=> ShouldBeOn(u)') \/ jobs[u] # NoCalls \/ wanted
    PROVE  Tracked(u)'
<1>1. Unasked(u)'
  BY NextSlot
<1>2. ~(fired[u]["add"] > 0) /\ ~(fired[u]["remove"] > 0)
  BY NothingQueued
<1>3. NoCalls' = NoCalls /\ IdleBulk' = IdleBulk
  BY DEF NoCalls, IdleBulk
<1>4. Resting(u)'
  BY <1>2, <1>3 DEF Resting, Read, Repair
<1>. QED
  BY <1>1, <1>4 DEF Tracked

LEMMA WroteMore ==
    ASSUME TypeOK, NEW s \in Slots, NEW u \in Users, Lone(s, u),
           NEW d, op' = [op EXCEPT ![s] = d], d # None, d.user = u, d.stage = "publish",
           fired[u] = NoCalls, jobs[u] = NoCalls, bulk = IdleBulk, roster = None,
           UNCHANGED <<bulk, fired, jobs, onNode, wanted, roster>>,
           d.emit # None,
           d.emit = "remove" => ~ShouldBeOn(u)' /\ d.again # "active",
           d.emit = "add" /\ d.again # "active" => status'[u] = "ACTIVE",
           d.again = "exists" => Exists(u)',
           \/ u \in onNode <=> ShouldBeOn(u)'
           \/ d.emit = "remove"
           \/ d.emit = "add" /\ Heard(u)' /\ (d.again = "active" => status'[u] = "ACTIVE")
           \/ wanted
    PROVE  Tracked(u)'
<1>1. Lone(s, u)' /\ op'[s] = d
  BY NextSlot
<1>2. NoCalls' = NoCalls /\ IdleBulk' = IdleBulk
  BY DEF NoCalls, IdleBulk
<1>3. Publishing(op[s], u)'
  BY <1>1, <1>2 DEF Publishing, Read
<1>. QED
  BY <1>1, <1>3 DEF Tracked

LEMMA WriteTracked ==
    ASSUME TypeOK, AllSane, Tracking, NEW s \in Slots, Write(s),
           NEW v \in Users, v \notin adrift'
    PROVE  Tracked(v)'
<1>. PICK o : o = op[s]
  OBVIOUS
<1>. PICK u : u = o.user
  OBVIOUS
<1> DEFINE em == IF o.status = "revive"
                 THEN IF Revived(u) THEN "add" ELSE None
                 ELSE IF o.emit = "add" /\ o.again = "no" /\ Written(o) # "ACTIVE"
                 THEN None ELSE o.emit
           d == [Decision(u) EXCEPT !.emit = em, !.again = o.again, !.stage = "publish"]
<1>0. None \notin {"ACTIVE", "DISABLED", "GONE", "revive", "add", "remove"}
  BY UserAssumption
<1>1. /\ o # None /\ o \in Op /\ o.stage = "write" /\ u \in Users
      /\ Resets(o) \/ Moves(o) \/ Sets(o)
      /\ UNCHANGED <<bulk, fired, jobs, onNode, wanted, roster>>
  BY DEF Write, TypeOK, Op, AllSane, Sane, batchVars, nodeVars
<1>2. op' = [op EXCEPT ![s] = None] \/ op' = [op EXCEPT ![s] = Left(d)]
  BY DEF Write
<1>3. /\ d.user = u /\ d.emit = em /\ d.again = o.again /\ d.stage = "publish"
      /\ d \in Op
  <2>1. em \in Call \cup {None} /\ o.again \in {"no", "exists", "active"}
    BY <1>1 DEF Op, Call
  <2>2. d \in Op
    <3> HIDE DEF em
    <3>. QED
      BY <1>1, <2>1 DEF Decision, Op
  <2>3. d.user = u /\ d.emit = em /\ d.again = o.again /\ d.stage = "publish"
    <3> HIDE DEF em
    <3>. QED
      BY DEF Decision
  <2>. QED
    BY <2>2, <2>3
<1>4. d # None
  <2> HIDE DEF d
  <2>. QED
    BY <1>3, IdleAssumption
<1>5. Left(d) = IF em = None THEN None ELSE d
  <2> HIDE DEF d, em
  <2>. QED
    BY <1>3 DEF Left
<1>6. v \notin adrift /\ Tracked(v)
  BY DEF Write, Tracking
<1>7. CASE v # u
  <2>1. OpsKept(v)
    <3> HIDE DEF d, em
    <3>. QED
      BY <1>1, <1>2, <1>3, <1>5, <1>7, OtherSlots
  <2>2. status'[v] = status[v] /\ squad'[v] = squad[v]
    BY <1>1, <1>7 DEF Write, TypeOK, rowVars
  <2> HIDE DEF d, em
  <2>. QED
    BY <1>1, <1>6, <2>1, <2>2, Frame
<1>8. CASE v = u
  <2>1. Lone(s, u) /\ Deciding(o, u)
    BY <1>1, <1>6, <1>8, OwnSlot DEF OpOn, Publishing
  <2>2. Exists(u)
    BY <2>1 DEF Deciding
  <2>3. /\ status'[u] = Written(o)
        /\ squad'[u] = IF o.squad # None THEN o.squad ELSE squad[u]
        /\ op' = [op EXCEPT ![s] = Left(d)]
        /\ ~Unremoved(o)
    BY <1>1, <1>8, <2>2 DEF Write, TypeOK
  <2>4. /\ fired[u] = NoCalls /\ bulk = IdleBulk /\ roster = None
        /\ jobs[u] # NoCalls => Early(o)
        /\ jobs[u]["add"] > 0 => Due(o, u)
        /\ jobs[u]["remove"] > 0 => ~Due(o, u)
        /\ (u \in onNode <=> Due(o, u)) \/ jobs[u] # NoCalls \/ wanted
    BY <2>1 DEF Deciding
  <2>5. ShouldBeOn(u)' <=> Written(o) = "ACTIVE" /\ squad'[u] = "here"
    BY <2>3 DEF ShouldBeOn
  <2>6. CASE Resets(o)
    <3>1. em = None
      BY <1>0, <2>6 DEF Resets
    <3>2. Written(o) = "ACTIVE" <=> o.status = "ACTIVE" \/ status[u] = "ACTIVE"
      BY <1>0, <2>6 DEF Resets, Written
    <3>3. ShouldBeOn(u)' <=> Due(o, u)
      BY <2>3, <2>5, <2>6, <3>2 DEF Due, Early, Resets
    <3> HIDE DEF em, d
    <3>. QED
      BY <1>1, <1>5, <1>8, <2>1, <2>3, <2>4, <3>1, <3>3, WroteAll
  <2>7. ASSUME ~Resets(o)
        PROVE  /\ jobs[u] = NoCalls
               /\ ~(jobs[u]["add"] > 0) /\ ~(jobs[u]["remove"] > 0)
               /\ Due(o, u) <=> ShouldBeOn(u)
    <3>1. ~Early(o)
      BY <1>1, <2>7 DEF Moves, Sets, Early
    <3>. QED
      BY <2>4, <3>1, NothingQueued DEF Due, ShouldBeOn
  <2>8. ASSUME ~Resets(o), em = None, (ShouldBeOn(u)' <=> ShouldBeOn(u))
        PROVE  Tracked(v)'
    <3> HIDE DEF em, d
    <3>. QED
      BY <1>1, <1>5, <1>8, <2>1, <2>3, <2>4, <2>7, <2>8, WroteAll
  <2>9. ASSUME ~Resets(o), em # None,
               em = "remove" => ~ShouldBeOn(u)' /\ o.again # "active",
               em = "add" /\ o.again # "active" => status'[u] = "ACTIVE",
               o.again = "exists" => Exists(u)',
               \/ ShouldBeOn(u)' <=> ShouldBeOn(u)
               \/ em = "remove"
               \/ em = "add" /\ Heard(u)' /\ (o.again = "active" => status'[u] = "ACTIVE")
        PROVE  Tracked(v)'
    <3>1. \/ u \in onNode <=> ShouldBeOn(u)'
          \/ em = "remove"
          \/ em = "add" /\ Heard(u)' /\ (o.again = "active" => status'[u] = "ACTIVE")
          \/ wanted
      <4> HIDE DEF em, d
      <4>. QED
        BY <2>4, <2>7, <2>9
    <3>2. op' = [op EXCEPT ![s] = d]
      <4> HIDE DEF em, d
      <4>. QED
        BY <1>5, <2>3, <2>9
    <3> HIDE DEF em, d
    <3>. QED
      BY <1>1, <1>3, <1>4, <1>8, <2>1, <2>4, <2>7, <2>9, <3>1, <3>2, WroteMore
  <2>10. CASE Moves(o)
    <3>1. ~Resets(o) /\ squad'[u] = o.squad /\ o.again = "no" /\ o.status # "revive"
      BY <1>0, <2>3, <2>10 DEF Resets, Moves
    <3>2. CASE o.squad = "none"
      <4>1. em = "remove"
        BY <1>0, <2>10, <3>2 DEF Moves
      <4>2. ~ShouldBeOn(u)'
        BY <2>5, <3>1, <3>2
      <4> HIDE DEF em, d
      <4>. QED
        BY <1>0, <2>9, <3>1, <4>1, <4>2
    <3>3. CASE o.squad # "none"
      <4>1. o.emit = "add" /\ o.status \in {"ACTIVE", None} /\ o.squad \in {"elsewhere", "here"}
        <5>1. o.squad \in Squads /\ Squads \subseteq {"none", "bare", "elsewhere", "here"}
          BY <1>1, <2>10, UserAssumption DEF Op, Moves
        <5>. QED
          BY <2>3, <2>10, <3>3, <5>1 DEF Moves, Unremoved
      <4>2. CASE Written(o) = "ACTIVE"
        <5>1. em = "add"
          BY <1>0, <3>1, <4>1, <4>2
        <5>2. Heard(u)'
          BY <3>1, <4>1 DEF Heard
        <5> HIDE DEF em, d
        <5>. QED
          BY <1>0, <2>3, <2>9, <3>1, <4>2, <5>1, <5>2
      <4>3. CASE Written(o) # "ACTIVE"
        <5>1. em = None
          BY <3>1, <4>1, <4>3
        <5>2. status[u] # "ACTIVE"
          BY <1>0, <4>1, <4>3 DEF Written
        <5>3. ~ShouldBeOn(u)' /\ ~ShouldBeOn(u)
          BY <2>5, <4>3, <5>2 DEF ShouldBeOn
        <5> HIDE DEF em, d
        <5>. QED
          BY <2>8, <3>1, <5>1, <5>3
      <4>. QED
        BY <4>2, <4>3
    <3>. QED
      BY <3>2, <3>3
  <2>11. CASE Sets(o)
    <3>1. ~Resets(o) /\ squad'[u] = squad[u] /\ (Heard(u)' <=> Heard(u))
      BY <2>3, <2>11 DEF Resets, Sets, Heard
    <3>2. ~Heard(u)' => ~ShouldBeOn(u)' /\ ~ShouldBeOn(u)
      BY <3>1 DEF Heard, ShouldBeOn
    <3>3. ASSUME em = "add", o.again \in {"no", "exists"}, Written(o) = "ACTIVE"
          PROVE  Tracked(v)'
      <4>1. Exists(u)' /\ status'[u] = "ACTIVE"
        BY <2>3, <3>3 DEF Exists, Status
      <4> HIDE DEF em, d
      <4>. QED
        BY <1>0, <2>9, <3>1, <3>2, <3>3, <4>1
    <3>4. CASE o.status = "ACTIVE" /\ o.emit = "add" /\ o.again \in {"no", "exists"}
      <4>1. Written(o) = "ACTIVE"
        BY <1>0, <3>4 DEF Written
      <4>2. em = "add"
        BY <1>0, <3>4, <4>1
      <4> HIDE DEF em, d
      <4>. QED
        BY <3>3, <3>4, <4>1, <4>2
    <3>5. CASE /\ o.status \in {"DISABLED", "GONE"} /\ o.emit = "remove"
               /\ o.again \in {"no", "exists"} /\ (o.again = "exists" => o.status = "DISABLED")
      <4>1. Written(o) = o.status
        BY <1>0, <3>5 DEF Written
      <4>2. em = "remove" /\ ~ShouldBeOn(u)'
        BY <1>0, <2>5, <3>5, <4>1
      <4>3. o.again = "exists" => Exists(u)'
        BY <2>3, <3>5, <4>1 DEF Exists, Status
      <4> HIDE DEF em, d
      <4>. QED
        BY <1>0, <2>9, <3>1, <3>5, <4>2, <4>3
    <3>6. CASE o.status = "revive" /\ o.emit = None /\ o.again = "no"
      <4>1. CASE Revived(u)
        <5>1. em = "add" /\ Written(o) = "ACTIVE"
          <6>1. em = "add"
            BY <3>6, <4>1
          <6>2. Revived(o.user)
            BY <4>1
          <6>3. Written(o) = "ACTIVE"
            BY <1>0, <3>6, <6>2 DEF Written
          <6>. QED
            BY <6>1, <6>3
        <5> HIDE DEF em, d
        <5>. QED
          BY <3>3, <3>6, <5>1
      <4>2. CASE ~Revived(u)
        <5>1. em = None /\ Written(o) = status[u]
          BY <3>6, <4>2 DEF Written
        <5>2. ShouldBeOn(u)' <=> ShouldBeOn(u)
          BY <2>5, <3>1, <5>1 DEF ShouldBeOn
        <5> HIDE DEF em, d
        <5>. QED
          BY <2>8, <3>1, <5>1, <5>2
      <4>. QED
        BY <4>1, <4>2
    <3>7. CASE o.status = None
      <4>1. Written(o) = status[u]
        BY <1>0, <3>7 DEF Written
      <4>2. ShouldBeOn(u)' <=> ShouldBeOn(u)
        BY <2>5, <3>1, <4>1 DEF ShouldBeOn
      <4>3. CASE o.emit = None
        <5>1. em = None
          BY <1>0, <3>7, <4>3
        <5> HIDE DEF em, d
        <5>. QED
          BY <2>8, <3>1, <4>2, <5>1
      <4>4. CASE o.emit = "add" /\ o.again = "active"
        <5>1. em = "add"
          BY <1>0, <3>7, <4>4
        <5> HIDE DEF em, d
        <5>. QED
          BY <1>0, <2>9, <3>1, <4>2, <4>4, <5>1
      <4>. QED
        BY <1>0, <2>11, <3>7, <4>3, <4>4 DEF Sets
    <3>. QED
      BY <2>11, <3>4, <3>5, <3>6, <3>7 DEF Sets
  <2>. QED
    BY <1>1, <2>6, <2>10, <2>11
<1>. QED
  BY <1>7, <1>8

(* A user for which an event is queued, or a call, has no request that is     *)
(* about to publish, and one that has yet to write has queued its add itself. *)
LEMMA FireTracked ==
    ASSUME TypeOK, Tracking, NEW u \in Users, NEW k \in Call, FireUserEvent(u, k),
           NEW v \in Users, v \notin adrift'
    PROVE  Tracked(v)'
<1>1. /\ fired[u][k] > 0
      /\ fired' = [fired EXCEPT ![u][k] = @ - 1]
      /\ jobs' = IF Exists(u) THEN Queued(u, k) ELSE jobs
      /\ UNCHANGED <<status, squad, op, bulk, onNode, wanted, roster, adrift>>
  BY DEF FireUserEvent, rowVars, batchVars
<1>2. jobs \in Bags /\ fired \in Bags /\ k \in {"add", "remove"}
  BY DEF TypeOK, Bags, Call
<1>3. Tracked(v)
  BY <1>1 DEF Tracking
<1>4. OpsKept(v)
  BY <1>1 DEF OpsKept
<1>5. /\ fired'[u][k] = fired[u][k] - 1
      /\ \A c \in Call : c # k => fired'[u][c] = fired[u][c]
      /\ v # u => fired'[v] = fired[v]
  <2>1. /\ fired'[u] = [fired[u] EXCEPT ![k] = @ - 1]
        /\ v # u => fired'[v] = fired[v]
    BY <1>1, <1>2 DEF Bags
  <2>2. fired[u] \in [Call -> Nat]
    BY <1>2 DEF Bags
  <2>. QED
    BY <2>1, <2>2
<1>6. CASE v # u
  <2>1. jobs'[v] = jobs[v]
    BY <1>1, <1>2, <1>6, QueuedOther
  <2>. QED
    BY <1>1, <1>3, <1>4, <1>5, <1>6, <2>1, Frame
<1>7. CASE v = u
  <2>1. fired[u] # NoCalls
    BY <1>1 DEF NoCalls
  <2>2. Unasked(u) /\ Resting(u)
    BY <1>3, <1>7, <2>1 DEF Tracked, Deciding, Publishing
  <2>3. Unasked(u)'
    BY <1>4, <1>7, <2>2, KeptOps
  <2>4. Exists(u) /\ bulk = IdleBulk
    BY <2>1, <2>2 DEF Resting, CallsInFlight
  <2>5. jobs'[u] = Queued(u, k)[u]
    BY <1>1, <2>4
  <2>6. /\ jobs'[u]["add"] > 0 => jobs[u]["add"] > 0 \/ (k = "add" /\ squad[u] = "here")
        /\ jobs'[u]["remove"] > 0 =>
             jobs[u]["remove"] > 0 \/ k = "remove" \/ squad[u] = "elsewhere"
        /\ jobs[u] # NoCalls => jobs'[u] # NoCalls
        /\ k = "remove" \/ Heard(u) => jobs'[u] # NoCalls
    BY <1>2, <2>4, <2>5, QueuedOwn
  <2>7. /\ fired'[u]["add"] > 0 => fired[u]["add"] > 0
        /\ fired'[u]["remove"] > 0 => fired[u]["remove"] > 0
        /\ k # "add" => fired'[u]["add"] = fired[u]["add"]
        /\ k # "remove" => fired'[u]["remove"] = fired[u]["remove"]
    <3>1. "add" \in Call /\ "remove" \in Call /\ fired[u] \in [Call -> Nat]
      BY <1>2 DEF Call, Bags
    <3>. QED
      BY <1>2, <1>5, <3>1
  <2>8. /\ NoCalls' = NoCalls /\ IdleBulk' = IdleBulk
        /\ ShouldBeOn(u)' <=> ShouldBeOn(u)
        /\ Exists(u)' <=> Exists(u)
        /\ Heard(u)' <=> Heard(u)
        /\ Repair' <=> Repair
        /\ Read(u)' <=> Read(u)
    BY <1>1 DEF NoCalls, IdleBulk, ShouldBeOn, Exists, Heard, Repair, Read
  <2>9. /\ jobs'[u]["add"] > 0 => ShouldBeOn(u)
        /\ jobs'[u]["remove"] > 0 => ~ShouldBeOn(u)
    BY <1>1, <1>2, <2>2, <2>6 DEF Resting, ShouldBeOn
  <2>10. \/ u \in onNode <=> ShouldBeOn(u)
         \/ jobs'[u] # NoCalls
         \/ fired'[u]["remove"] > 0
         \/ fired'[u]["add"] > 0 /\ Heard(u)
         \/ Repair
         \/ roster # None
    BY <1>2, <2>2, <2>6, <2>7 DEF Resting
  <2>11. Resting(u)'
    BY <1>1, <2>2, <2>4, <2>7, <2>8, <2>9, <2>10 DEF Resting
  <2>. QED
    BY <1>7, <2>3, <2>11 DEF Tracked
<1>. QED
  BY <1>6, <1>7

LEMMA CallTracked ==
    ASSUME TypeOK, Tracking, NEW u \in Users, NEW k \in Call, CallNode(u, k),
           NEW v \in Users, v \notin adrift'
    PROVE  Tracked(v)'
<1>1. /\ jobs[u][k] > 0
      /\ jobs' = [jobs EXCEPT ![u][k] = @ - 1]
      /\ UNCHANGED <<status, squad, op, bulk, fired, wanted, roster>>
      /\ \/ /\ onNode' = IF k = "add" THEN onNode \cup {u} ELSE onNode \ {u}
            /\ adrift' = adrift
         \/ /\ adrift' = adrift \cup {u}
            /\ onNode' = onNode
  BY DEF CallNode, rowVars, batchVars
<1>2. jobs \in Bags /\ k \in {"add", "remove"}
  BY DEF TypeOK, Bags, Call
<1>3. Tracked(v)
  BY <1>1 DEF Tracking
<1>4. OpsKept(v)
  BY <1>1 DEF OpsKept
<1>5. /\ jobs'[u][k] = jobs[u][k] - 1
      /\ \A c \in Call : c # k => jobs'[u][c] = jobs[u][c]
      /\ v # u => jobs'[v] = jobs[v]
  <2>1. /\ jobs'[u] = [jobs[u] EXCEPT ![k] = @ - 1]
        /\ v # u => jobs'[v] = jobs[v]
    BY <1>1, <1>2 DEF Bags
  <2>2. jobs[u] \in [Call -> Nat]
    BY <1>2 DEF Bags
  <2>. QED
    BY <2>1, <2>2
<1>6. CASE v # u
  <2>1. u \in Users /\ (v \in onNode' <=> v \in onNode)
    BY <1>1, <1>6
  <2>. QED
    BY <1>1, <1>3, <1>4, <1>5, <1>6, <2>1, Frame
<1>7. CASE v = u
  <2>1. /\ onNode' = IF k = "add" THEN onNode \cup {u} ELSE onNode \ {u}
        /\ jobs[u] # NoCalls
    BY <1>1, <1>7 DEF NoCalls
  <2>2. /\ jobs'[u]["add"] > 0 => jobs[u]["add"] > 0
        /\ jobs'[u]["remove"] > 0 => jobs[u]["remove"] > 0
        /\ jobs'[u] # NoCalls => jobs[u] # NoCalls
    <3>1. "add" \in Call /\ "remove" \in Call /\ jobs[u] \in [Call -> Nat]
      BY <1>2 DEF Call, Bags
    <3>. QED
      BY <1>2, <1>5, <2>1, <3>1
  <2>3. /\ NoCalls' = NoCalls /\ IdleBulk' = IdleBulk
        /\ ShouldBeOn(u)' <=> ShouldBeOn(u)
        /\ Exists(u)' <=> Exists(u)
        /\ Heard(u)' <=> Heard(u)
        /\ Repair' <=> Repair
        /\ Read(u)' <=> Read(u)
    BY <1>1 DEF NoCalls, IdleBulk, ShouldBeOn, Exists, Heard, Repair, Read
  <2>4. CASE Unasked(u) /\ Resting(u)
    <3>1. Unasked(u)'
      BY <1>4, <1>7, <2>4, KeptOps
    <3>2. bulk = IdleBulk
      BY <2>1, <2>4 DEF Resting, CallsInFlight
    <3>3. u \in onNode' <=> ShouldBeOn(u)
      BY <1>1, <1>2, <2>1, <2>4 DEF Resting
    <3>4. Resting(u)'
      BY <1>1, <2>2, <2>3, <2>4, <3>2, <3>3 DEF Resting
    <3>. QED
      BY <1>7, <3>1, <3>4 DEF Tracked
  <2>5. ASSUME NEW s \in Slots, Lone(s, u), Deciding(op[s], u)
        PROVE  Tracked(u)'
    <3>1. Lone(s, u)' /\ op'[s] = op[s]
      BY <1>4, <1>7, <2>5, KeptOps
    <3>2. Due(op[s], u)' <=> Due(op[s], u)
      BY <1>1 DEF Due, Early
    <3>3. u \in onNode' <=> Due(op[s], u)
      BY <1>1, <1>2, <2>1, <2>5 DEF Deciding
    <3>4. Early(op[s])' <=> Early(op[s])
      BY <1>1 DEF Early
    <3>5. Deciding(op[s], u)'
      BY <1>1, <2>2, <2>3, <2>5, <3>2, <3>3, <3>4 DEF Deciding
    <3>. QED
      BY <3>1, <3>5 DEF Tracked
  <2>6. ~ \E s \in Slots : Lone(s, u) /\ Publishing(op[s], u)
    BY <2>1 DEF Publishing
  <2>. QED
    BY <1>3, <1>7, <2>4, <2>5, <2>6 DEF Tracked
<1>. QED
  BY <1>6, <1>7

(* A restart of all nodes sends every user its place: a user that nothing    *)
(* else is under way for is tracked again.                                  *)
LEMMA ReadTracked ==
    ASSUME TypeOK, Tracking, ReadRoster, NEW u \in Users, u \notin adrift'
    PROVE  Tracked(u)'
<1>1. /\ roster = None /\ wanted' = FALSE
      /\ roster' = {x \in Users : ShouldBeOn(x)}
      /\ ~(u \in adrift /\ Busy(u))
      /\ \A s \in Slots : OpOn(s, u) => op[s].stage = "publish"
      /\ UNCHANGED <<status, squad, op, bulk, fired, jobs, onNode>>
  BY DEF ReadRoster, rowVars, batchVars
<1>2. roster' # None
  <2>1. roster' \in SUBSET Users
    BY <1>1
  <2>. QED
    BY <2>1, UserAssumption
<1>3. /\ NoCalls' = NoCalls /\ IdleBulk' = IdleBulk
      /\ ShouldBeOn(u)' <=> ShouldBeOn(u)
      /\ Exists(u)' <=> Exists(u)
      /\ CallsInFlight(u)' <=> CallsInFlight(u)
      /\ Unasked(u)' <=> Unasked(u)
      /\ \A s \in Slots : Lone(s, u)' <=> Lone(s, u)
  BY <1>1 DEF NoCalls, IdleBulk, ShouldBeOn, Exists, CallsInFlight, Unasked, Lone, OpOn
<1>4. Read(u)'
  <2>1. u \in roster' <=> ShouldBeOn(u)
    BY <1>1
  <2>. QED
    BY <1>3, <2>1 DEF Read
<1>5. CASE ~Busy(u)
  <2>1. Unasked(u) /\ fired[u] = NoCalls /\ jobs[u] = NoCalls /\ bulk = IdleBulk
    BY <1>5 DEF Busy, CallsInFlight, Unasked
  <2>2. /\ ~(jobs[u]["add"] > 0) /\ ~(jobs[u]["remove"] > 0)
        /\ ~(fired[u]["add"] > 0) /\ ~(fired[u]["remove"] > 0)
    BY <2>1, NothingQueued
  <2>3. Resting(u)'
    BY <1>1, <1>2, <1>3, <1>4, <2>1, <2>2 DEF Resting
  <2>. QED
    BY <1>3, <2>1, <2>3 DEF Tracked
<1>6. CASE u \notin adrift
  <2>1. Tracked(u)
    BY <1>6 DEF Tracking
  <2>2. CASE Unasked(u) /\ Resting(u)
    <3>1. Resting(u)'
      BY <1>1, <1>2, <1>3, <1>4, <2>2 DEF Resting
    <3>. QED
      BY <1>3, <2>2, <3>1 DEF Tracked
  <2>3. ASSUME NEW s \in Slots, Lone(s, u), Deciding(op[s], u) \/ Publishing(op[s], u)
        PROVE  Tracked(u)'
    <3>1. Publishing(op[s], u)
      BY <1>1, <2>3 DEF Lone, Deciding
    <3>2. Publishing(op[s], u)'
      BY <1>1, <1>2, <1>3, <1>4, <3>1 DEF Publishing
    <3>. QED
      BY <1>3, <2>3, <3>2 DEF Tracked
  <2>. QED
    BY <2>1, <2>2, <2>3 DEF Tracked
<1>. QED
  BY <1>1, <1>5, <1>6

LEMMA SendTracked ==
    ASSUME TypeOK, Tracking, SendRoster, NEW u \in Users, u \notin adrift'
    PROVE  Tracked(u)'
<1>1. /\ roster # None /\ roster' = None /\ onNode' = roster /\ u \notin adrift
      /\ UNCHANGED <<status, squad, op, bulk, fired, jobs, wanted>>
  BY DEF SendRoster, rowVars, batchVars
<1>2. Tracked(u)
  BY <1>1 DEF Tracking
<1>3. /\ NoCalls' = NoCalls /\ IdleBulk' = IdleBulk
      /\ ShouldBeOn(u)' <=> ShouldBeOn(u)
      /\ Exists(u)' <=> Exists(u)
      /\ CallsInFlight(u)' <=> CallsInFlight(u)
      /\ Heard(u)' <=> Heard(u)
      /\ Repair' <=> Repair
      /\ Unasked(u)' <=> Unasked(u)
      /\ \A s \in Slots : Lone(s, u)' <=> Lone(s, u)
  BY <1>1
  DEF NoCalls, IdleBulk, ShouldBeOn, Exists, CallsInFlight, Heard, Repair, Unasked, Lone, OpOn
<1>4. Read(u) => Repair \/ (u \in onNode' <=> ShouldBeOn(u))
  BY <1>1 DEF Read
<1>5. Read(u)'
  BY <1>1 DEF Read
<1>6. CASE Unasked(u) /\ Resting(u)
  <2>1. Resting(u)'
    BY <1>1, <1>3, <1>4, <1>5, <1>6 DEF Resting
  <2>. QED
    BY <1>3, <1>6, <2>1 DEF Tracked
<1>7. ASSUME NEW s \in Slots, Lone(s, u), Deciding(op[s], u) \/ Publishing(op[s], u)
      PROVE  Tracked(u)'
  <2>1. Publishing(op[s], u)
    BY <1>1, <1>7 DEF Deciding
  <2>2. Publishing(op[s], u)'
    BY <1>1, <1>3, <1>4, <1>5, <2>1 DEF Publishing, Repair
  <2>. QED
    BY <1>3, <1>7, <2>2 DEF Tracked
<1>. QED
  BY <1>2, <1>6, <1>7 DEF Tracked

(* The statements of the watchdog and of the reset job: those whose status    *)
(* changes had nothing under way, and their event or a restart follows.       *)
LEMMA AnnounceTracked ==
    ASSUME TypeOK, Tracking, NEW S \in SUBSET Users, NEW st \in Status, NEW k \in Call,
           NEW last \in BOOLEAN,
           Announce(S, k, last), status' = Assign(S, st),
           \A x \in S : k = "add" => status[x] # "ACTIVE",
           k = "remove" <=> st # "ACTIVE",
           UNCHANGED <<squad, op, bulk, jobs, onNode, roster>>,
           NEW u \in Users, u \notin adrift'
    PROVE  Tracked(u)'
<1>1. fired \in Bags /\ k \in {"add", "remove"}
  BY DEF TypeOK, Bags, Call
<1>2. u \notin adrift /\ (wanted => wanted')
  <2>1. u \notin adrift
    BY DEF Announce, Begins
  <2>2. wanted => wanted'
    BY Zenon DEF Announce
  <2>. QED
    BY <2>1, <2>2
<1>3. Tracked(u) /\ OpsKept(u)
  BY <1>2 DEF Tracking, OpsKept
<1>4. CASE u \notin S
  <2>1. status'[u] = status[u]
    BY <1>4 DEF Assign
  <2>2. fired'[u] = fired[u]
    BY <1>4 DEF Announce, Put
  <2>. QED
    BY <1>2, <1>3, <2>1, <2>2, Frame
<1>5. CASE u \in S
  <2>1. /\ ~InFlight(u)
        /\ fired' = IF Cardinality(S) < RestartCap THEN Put(fired, S, k) ELSE fired
        /\ wanted' = (wanted \/ last \/ Cardinality(S) >= RestartCap)
    BY <1>5 DEF Announce, Begins
  <2>2. /\ Unasked(u)
        /\ fired[u] = NoCalls /\ jobs[u] = NoCalls /\ bulk = IdleBulk
        /\ wanted # TRUE /\ roster = None
        /\ u \in onNode <=> ShouldBeOn(u)
    BY <1>3, <2>1, Settled
  <2>3. /\ ~(jobs[u]["add"] > 0) /\ ~(jobs[u]["remove"] > 0)
        /\ ~(fired[u]["add"] > 0) /\ ~(fired[u]["remove"] > 0)
    BY <2>2, NothingQueued
  <2>4. status'[u] = st /\ squad'[u] = squad[u]
    BY <1>5 DEF Assign
  <2>5. Exists(u)' /\ (ShouldBeOn(u)' => Heard(u)')
    BY <2>4 DEF Exists, ShouldBeOn, Heard
  <2>6. /\ NoCalls' = NoCalls /\ IdleBulk' = IdleBulk
        /\ Heard(u)' <=> Heard(u)
        /\ Read(u)'
    BY <2>2 DEF NoCalls, IdleBulk, Heard, Read
  <2>7. Unasked(u)'
    BY <1>3, <2>2, KeptOps
  <2>8. k = "add" => u \notin onNode
    BY <1>1, <1>5, <2>2 DEF ShouldBeOn
  <2>9. k = "remove" => ~ShouldBeOn(u)'
    BY <2>4 DEF ShouldBeOn
  <2>10. CASE Cardinality(S) < RestartCap
    <3>1. fired'[u] = [fired[u] EXCEPT ![k] = @ + 1]
      BY <1>5, <2>1, <2>10 DEF Put
    <3>2. fired[u] \in [Call -> Nat]
      BY <1>1 DEF Bags
    <3>3. fired'[u][k] = fired[u][k] + 1 /\ \A c \in Call : c # k => fired'[u][c] = fired[u][c]
      BY <3>1, <3>2, OneMore
    <3>4. fired[u][k] = 0
      BY <2>2 DEF NoCalls
    <3>5. /\ fired'[u]["add"] > 0 <=> k = "add"
          /\ fired'[u]["remove"] > 0 <=> k = "remove"
      <4>1. "add" \in Call /\ "remove" \in Call
        BY DEF Call
      <4>. QED
        BY <1>1, <2>3, <3>3, <3>4, <4>1
    <3>6. Resting(u)'
      BY <1>1, <2>2, <2>3, <2>4, <2>5, <2>6, <2>8, <2>9, <3>5 DEF Resting
    <3>. QED
      BY <2>7, <3>6 DEF Tracked
  <2>11. CASE ~(Cardinality(S) < RestartCap)
    <3>1. Cardinality(S) \in Nat /\ RestartCap \in Nat
      <4>1. IsFiniteSet(S)
        BY UserAssumption, FS_Subset
      <4>. QED
        BY <4>1, FS_CardinalityType, UserAssumption
    <3>2. wanted' /\ fired' = fired
      <4>1. Cardinality(S) >= RestartCap
        BY <2>11, <3>1
      <4>. QED
        BY <2>1, <2>11, <4>1, Zenon
    <3>3. Resting(u)'
      BY <2>2, <2>3, <2>6, <3>2 DEF Resting, Repair
    <3>. QED
      BY <2>7, <3>3 DEF Tracked
  <2>. QED
    BY <2>10, <2>11
<1>. QED
  BY <1>4, <1>5

LEMMA StatementTracked ==
    ASSUME TypeOK, Tracking, FindExceeded \/ FindExpired \/ ResetLimited,
           NEW u \in Users, u \notin adrift'
    PROVE  Tracked(u)'
<1>. "add" \in Call /\ "remove" \in Call /\ {"ACTIVE", "LIMITED", "EXPIRED"} \subseteq Status
  BY DEF Call, Status
<1>1. CASE FindExceeded
  <2> DEFINE found == {x \in Users : status[x] = "ACTIVE" /\ Exceeded(x)}
  <2>1. /\ status' = Assign(found, "LIMITED") /\ Announce(found, "remove", FALSE)
        /\ UNCHANGED <<squad, op, bulk, jobs, onNode, roster>>
    BY <1>1 DEF FindExceeded, batchVars
  <2>2. /\ found \in SUBSET Users
        /\ \A x \in found : Exists(x) /\ status[x] = "ACTIVE"
    BY DEF Exists, Status
  <2> HIDE DEF found
  <2>. QED
    BY <2>1, <2>2, AnnounceTracked
<1>2. CASE FindExpired
  <2> DEFINE found == {x \in overdue : status[x] \in {"ACTIVE", "LIMITED"}}
  <2>1. /\ status' = Assign(found, "EXPIRED") /\ Announce(found, "remove", FALSE)
        /\ UNCHANGED <<squad, op, bulk, jobs, onNode, roster>>
    BY <1>2 DEF FindExpired, batchVars
  <2>2. found \in SUBSET Users
    BY DEF TypeOK
  <2> HIDE DEF found
  <2>. QED
    BY <2>1, <2>2, AnnounceTracked
<1>3. CASE ResetLimited
  <2> DEFINE found == {x \in reset.due : status[x] = "LIMITED"}
             last  == reset.all /\ reset.rest = {}
  <2>1. UNCHANGED <<squad, op, bulk, jobs, onNode, roster>>
    BY <1>3 DEF ResetLimited
  <2>2. CASE status' = Assign(found, "ACTIVE") /\ Announce(found, "add", last)
    <3>1. /\ found \in SUBSET Users /\ last \in BOOLEAN
          /\ \A x \in found : status[x] # "ACTIVE"
      BY DEF TypeOK
    <3> HIDE DEF found, last
    <3>. QED
      BY <2>1, <2>2, <3>1, AnnounceTracked
  <2>3. CASE wanted' = (wanted \/ last) /\ UNCHANGED <<status, fired, adrift>>
    <3>1. wanted => wanted'
      BY <2>3
    <3>2. Tracked(u) /\ OpsKept(u)
      BY <2>1, <2>3 DEF Tracking, OpsKept
    <3>. QED
      BY <2>1, <2>3, <3>1, <3>2, Frame
  <2>. QED
    BY <1>3, <2>2, <2>3 DEF ResetLimited
<1>. QED
  BY <1>1, <1>2, <1>3

(* The serial jobs: whatever one changes, a restart of all nodes is to come.  *)
LEMMA BulkTracked ==
    ASSUME TypeOK, Tracking,
           \/ BulkUpdateAll \/ BulkExtendAll \/ BulkDeleteByStatus
           \/ SyncLimited \/ SyncExpired \/ BulkRestart,
           NEW u \in Users, u \notin adrift'
    PROVE  Tracked(u)'
<1>1. u \notin adrift
  BY DEF BulkUpdateAll, BulkExtendAll, BulkDeleteByStatus, SyncLimited, SyncExpired, BulkRestart,
         Begins
<1>2. Tracked(u)
  BY <1>1 DEF Tracking
<1>3. UNCHANGED <<op, fired, jobs, onNode, roster>>
  BY DEF BulkUpdateAll, BulkExtendAll, BulkDeleteByStatus, SyncLimited, SyncExpired, BulkRestart,
         StartBatch, nodeVars
<1>4. Unasked(u)' <=> Unasked(u)
  BY <1>3 DEF Unasked, OpOn
<1>5. NoCalls' = NoCalls /\ IdleBulk' = IdleBulk
  BY DEF NoCalls, IdleBulk
<1>6. ASSUME Unasked(u), fired[u] = NoCalls, jobs[u] = NoCalls, Repair'
      PROVE  Tracked(u)'
  <2>1. Resting(u)'
    BY <1>3, <1>5, <1>6, NothingQueued DEF Resting, CallsInFlight, Read
  <2>. QED
    BY <1>4, <1>6, <2>1 DEF Tracked
<1>7. CASE BulkUpdateAll \/ BulkExtendAll \/ BulkDeleteByStatus
  <2>1. ~InFlight(u)
    BY <1>7 DEF BulkUpdateAll, BulkExtendAll, BulkDeleteByStatus, Begins
  <2>2. /\ Unasked(u)
        /\ fired[u] = NoCalls /\ jobs[u] = NoCalls /\ bulk = IdleBulk
        /\ wanted # TRUE /\ roster = None
        /\ u \in onNode <=> ShouldBeOn(u)
    BY <1>2, <2>1, Settled
  <2>3. CASE BulkUpdateAll \/ BulkExtendAll
    <3>1. bulk'.stage # "idle"
      BY <2>3 DEF BulkUpdateAll, BulkExtendAll
    <3>2. Repair'
      BY <1>5, <3>1 DEF Repair, IdleBulk
    <3>. QED
      BY <1>6, <2>2, <3>2
  <2>4. CASE BulkDeleteByStatus
    <3>1. PICK st \in Status, hit \in SUBSET Rows :
            /\ Hits(hit, {x \in Users : status[x] = st})
            /\ status' = Assign(hit, "GONE")
            /\ wanted' = (wanted \/ st = "ACTIVE")
      BY <2>4 DEF BulkDeleteByStatus
    <3>2. UNCHANGED <<squad, bulk>>
      BY <2>4 DEF BulkDeleteByStatus, batchVars
    <3>3. CASE st = "ACTIVE"
      BY <1>6, <2>2, <3>1, <3>3 DEF Repair
    <3>4. CASE st # "ACTIVE"
      <4>1. u \in hit => status[u] = st
        BY <3>1 DEF Hits
      <4>2. u \in onNode <=> ShouldBeOn(u)'
        BY <2>2, <3>1, <3>2, <3>4, <4>1 DEF ShouldBeOn, Assign
      <4>3. Resting(u)'
        BY <1>3, <1>5, <2>2, <3>2, <4>2, NothingQueued DEF Resting, CallsInFlight, Read
      <4>. QED
        BY <1>4, <2>2, <4>3 DEF Tracked
    <3>. QED
      BY <3>3, <3>4
  <2>. QED
    BY <1>7, <2>3, <2>4
<1>8. CASE SyncLimited \/ SyncExpired \/ BulkRestart
  <2>1. bulk # IdleBulk
    BY <1>8 DEF SyncLimited, SyncExpired, BulkRestart, IdleBulk
  <2>2. Unasked(u) /\ fired[u] = NoCalls /\ jobs[u] = NoCalls
    BY <1>2, <2>1 DEF Tracked, Deciding, Publishing, Resting, CallsInFlight
  <2>3. Repair'
    <3>1. CASE BulkRestart
      BY <3>1 DEF BulkRestart, Repair
    <3>2. CASE SyncLimited
      <4>1. bulk'.stage # "idle"
        BY <3>2 DEF SyncLimited, TypeOK
      <4>. QED
        BY <1>5, <4>1 DEF Repair, IdleBulk
    <3>3. CASE SyncExpired
      <4>1. bulk'.stage # "idle"
        BY <3>3 DEF SyncExpired, TypeOK
      <4>. QED
        BY <1>5, <4>1 DEF Repair, IdleBulk
    <3>. QED
      BY <1>8, <3>1, <3>2, <3>3
  <2>. QED
    BY <1>6, <2>2, <2>3
<1>. QED
  BY <1>7, <1>8

LEMMA TrackStep ==
    ASSUME TypeOK, AllSane, Tracking, [Next]_vars
    PROVE  Tracking'
<1>. SUFFICES ASSUME NEW u \in Users, u \notin adrift'
              PROVE  Tracked(u)'
  BY DEF Tracking
<1>1. CASE UNCHANGED <<status, squad, op, bulk, nodeVars, adrift>>
  <2>1. Tracked(u) /\ OpsKept(u)
    BY <1>1 DEF Tracking, OpsKept
  <2>. QED
    BY <1>1, <2>1, Frame DEF nodeVars
<1>2. ASSUME NEW s \in Slots, NEW v \in Users, Request(s, v)
      PROVE  Tracked(u)'
  BY <1>2, RequestTracked
<1>3. ASSUME NEW s \in Slots, Extend(s) \/ Write(s) \/ Publish(s) \/ RequestFails(s)
      PROVE  Tracked(u)'
  BY <1>3, ExtendTracked, WriteTracked, PublishTracked, FailTracked
<1>4. ASSUME NEW v \in Users, NEW k \in Call, FireUserEvent(v, k) \/ CallNode(v, k)
      PROVE  Tracked(u)'
  BY <1>4, FireTracked, CallTracked
<1>5. CASE ReadRoster \/ SendRoster
  BY <1>5, ReadTracked, SendTracked
<1>6. CASE FindExceeded \/ FindExpired \/ ResetLimited
  BY <1>6, StatementTracked
<1>7. CASE \/ BulkUpdateAll \/ BulkExtendAll \/ BulkDeleteByStatus
           \/ SyncLimited \/ SyncExpired \/ BulkRestart
  BY <1>7, BulkTracked
<1>8. CASE CrashBulk
  BY <1>8 DEF CrashBulk
<1>9. CASE \/ \E v \in Users : PassExpiry(v) \/ UseTraffic(v)
           \/ SelectTargets \/ ZeroTargets \/ CrashReset
  BY <1>1, <1>9
  DEF PassExpiry, UseTraffic, SelectTargets, ZeroTargets, CrashReset, rowVars, batchVars, Tracking
<1>10. CASE StartReset
  BY <1>1, <1>10 DEF StartReset, StartBatch, rowVars, nodeVars
<1>11. CASE UNCHANGED vars
  BY <1>1, <1>11 DEF vars, rowVars, batchVars
<1>. QED
  BY <1>2, <1>3, <1>4, <1>5, <1>6, <1>7, <1>8, <1>9, <1>10, <1>11 DEF Next

(* However requests, watchdog, reset and serial jobs, restarts and calls      *)
(* interleave: once nothing about a user is under way, the node lets it in    *)
(* exactly if it should, unless activities overlapped on it or something      *)
(* failed since the last restart of all nodes.                              *)
THEOREM NodeMatches == Spec => []NodeMatchesWhenQuiet
<1>1. Init => Tracking
  <2>. SUFFICES ASSUME Init, NEW u \in Users
                PROVE  Tracked(u)
    BY DEF Tracking
  <2>1. /\ op = [s \in Slots |-> None] /\ bulk = IdleBulk
        /\ fired[u] = NoCalls /\ jobs[u] = NoCalls /\ wanted = FALSE /\ roster = None
        /\ u \in onNode <=> ShouldBeOn(u)
    BY DEF Init, ShouldBeOn
  <2>2. Unasked(u) /\ Resting(u)
    BY <2>1, NothingQueued DEF Unasked, OpOn, Resting, Read
  <2>. QED
    BY <2>2 DEF Tracked
<1>2. TypeOK /\ AllSane /\ Tracking /\ [Next]_vars => Tracking'
  BY TrackStep
<1>3. Tracking => NodeMatchesWhenQuiet
  BY Settled DEF Tracking, NodeMatchesWhenQuiet
<1>. QED
  BY <1>1, <1>2, <1>3, TypeCorrect, AlwaysSane, PTL DEF Spec
=============================================================================
