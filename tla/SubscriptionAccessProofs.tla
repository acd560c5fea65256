---------------------- MODULE SubscriptionAccessProofs ----------------------
(* Proofs about SubscriptionAccess for every finite set of devices and of    *)
(* requests at work, all settings and limits, and every bound.              *)
EXTENDS SubscriptionAccess, FiniteSetTheorems, TLAPS

-----------------------------------------------------------------------------
(* What a request holds at each step.                                       *)

(* The settings of the panel are known before the squad's are read, whoever  *)
(* is past the settings has a device, and only then is it held to a limit.   *)
Sound(o) ==
    /\ o.scope = "squad" => o.panel # None
    /\ o.scope = "panel" /\ o.at = "fill" => o.read # None
    /\ o.kind = "create" => o.device # None
    /\ o.at \in {"exists", "count", "insert", "queue"} => o.device # None
    /\ o.at \in {"cache", "read", "fill", "user"} => ~o.counted
    /\ o.at = "exists" /\ o.kind # "create" => o.counted /\ o.scope = "squad"
    /\ o.at = "exists" /\ o.kind = "create" => ~o.counted
    /\ o.at = "count" => o.counted /\ o.scope = "squad"

PanelKnown == stored["panel"] # None /\ cached["panel"] # None
SlotsSound == \A r \in Requests : req[r] # None => Sound(req[r])
Base == TypeOK /\ PanelKnown /\ SlotsSound

LEMMA SettingsFit == \A v \in Content : v # None => v.enabled \in BOOLEAN /\ v.fallback \in Nat
BY AccessAssumption DEF Content

LEMMA Slot ==
    ASSUME Base, NEW r \in Requests, req[r] # None
    PROVE  req[r] \in Request /\ Sound(req[r])
BY DEF Base, TypeOK, SlotsSound

LEMMA EffectiveFit ==
    ASSUME NEW o \in Request, o.panel # None
    PROVE  Effective(o).enabled \in BOOLEAN /\ Effective(o).fallback \in Nat
<1>1. Effective(o) \in Content /\ Effective(o) # None
  BY DEF Effective, Request
<1>. QED
  BY <1>1, SettingsFit

(* A request that knows all settings.                                        *)
LEMMA DecidedFit ==
    ASSUME NEW o \in Request, o.panel # None, o.scope = "squad", ~o.counted,
           o.kind = "create" => o.device # None
    PROVE  /\ Decided(o) \in Request
           /\ Decided(o).device # None => Sound(Decided(o))
           /\ Decided(o).device = None => Decided(o).at \in {"exists", "queue"}
           /\ Decided(o).at \in {"exists", "queue", "count", "insert"}
           /\ Decided(o).at \in {"queue", "insert"} => ~Decided(o).counted
<1>1. Effective(o).enabled \in BOOLEAN
  BY EffectiveFit
<1> DEFINE on == Effective(o).enabled
<1>2. CASE o.kind = "create"
  <2>1. Decided(o) = [o EXCEPT !.at = IF on THEN "count" ELSE "insert", !.counted = on]
    BY <1>2 DEF Decided
  <2>. QED
    BY <1>1, <1>2, <2>1 DEF Request, At, Sound
<1>3. CASE o.kind # "create" /\ (~on \/ o.limit = 0)
  <2>1. Decided(o) = [o EXCEPT !.at = "queue"]
    BY <1>3 DEF Decided
  <2>. QED
    BY <1>3, <2>1 DEF Request, At, Sound
<1>4. CASE o.kind # "create" /\ ~(~on \/ o.limit = 0)
  <2>1. Decided(o) = [o EXCEPT !.at = "exists", !.counted = TRUE]
    BY <1>4 DEF Decided
  <2>. QED
    BY <1>4, <2>1 DEF Request, At, Sound
<1>. QED
  BY <1>2, <1>3, <1>4

(* What Goto may be given: the record at its next step.                      *)
Fits(o) ==
    /\ o \in Request /\ Sound(o)
    /\ o.at = "fill" => o.read = stored[o.scope]
    /\ o.at = "queue" /\ o.counted /\ ~o.removed => o.device \in devices
    /\ o.at = "insert" /\ o.counted => Cardinality(devices) < cap'

LEMMA ProceedFits ==
    ASSUME Base, NEW r \in Requests, req[r] # None, req[r].at \in {"cache", "fill"},
           NEW value \in Content, req[r].scope = "panel" => value # None,
           Proceed(r, Got(req[r], value))
    PROVE  End(r) \/ \E o : Fits(o) /\ Goto(r, o)
<1>1. req[r] \in Request /\ Sound(req[r])
  BY Slot
<1> DEFINE o == req[r]
<1>2. CASE o.scope = "panel"
  <2>1. Got(o, value) = [o EXCEPT !.panel = value, !.scope = "squad",
                                  !.at = IF o.kind = "subscribe" THEN "user" ELSE "cache"]
    BY <1>2 DEF Got
  <2>2. Got(o, value) \in Request /\ Sound(Got(o, value)) /\ Got(o, value).at \in {"user", "cache"}
    BY <1>1, <1>2, <2>1 DEF Request, At, Scope, Sound
  <2>. QED
    BY <2>2 DEF Proceed, Fits
<1>3. CASE o.scope # "panel"
  <2> DEFINE p == [o EXCEPT !.squad = value]
  <2>1. p \in Request /\ p.panel # None /\ p.scope = "squad" /\ ~p.counted
        /\ (p.kind = "create" => p.device # None)
    BY <1>1, <1>3 DEF Request, Scope, Sound
  <2>2. Got(o, value) = Decided(p)
    BY <1>3 DEF Got
  <2>. QED
    BY <2>1, <2>2, DecidedFit DEF Proceed, Fits
<1>. QED
  BY <1>2, <1>3

LEMMA UnreadFits ==
    ASSUME Base, NEW r \in Requests, req[r] # None, req[r].at \in {"cache", "fill"}, Unread(r)
    PROVE  End(r) \/ \E o : Fits(o) /\ Goto(r, o)
<1>1. None \in Content
  BY DEF Content
<1>. QED
  BY <1>1, ProceedFits DEF Unread

(* Whatever a request does next, its record fits the state it leaves.        *)
LEMMA Outcome ==
    ASSUME Base, NEW r \in Requests, RequestStep(r)
    PROVE  End(r) \/ \E o : Fits(o) /\ Goto(r, o)
<1>1. CASE Begin(r)
  <2>1. PICK kind \in Kinds, d \in Devices \cup {None} :
          /\ kind = "create" => d # None
          /\ Goto(r, [kind |-> kind, device |-> d, scope |-> "panel",
                      at |-> IF kind = "subscribe" THEN "cache" ELSE "user",
                      panel |-> None, squad |-> None, limit |-> None, read |-> None,
                      crossed |-> FALSE, removed |-> FALSE, counted |-> FALSE])
    BY <1>1 DEF Begin
  <2> DEFINE o == [kind |-> kind, device |-> d, scope |-> "panel",
                   at |-> IF kind = "subscribe" THEN "cache" ELSE "user",
                   panel |-> None, squad |-> None, limit |-> None, read |-> None,
                   crossed |-> FALSE, removed |-> FALSE, counted |-> FALSE]
  <2>2. o \in Request
    BY DEF Request, At, Scope, Content
  <2>3. Sound(o) /\ o.at \in {"cache", "user"}
    BY <2>1 DEF Sound
  <2>. QED
    BY <2>1, <2>2, <2>3 DEF Fits
<1>2. CASE GetCached(r)
  <2>1. req[r] # None /\ req[r].at = "cache"
    BY <1>2 DEF GetCached, Is
  <2>2. req[r] \in Request /\ Sound(req[r])
    BY <2>1, Slot
  <2>3. CASE cached[req[r].scope] = Miss /\ Goto(r, [req[r] EXCEPT !.at = "read"])
    <3>1. [req[r] EXCEPT !.at = "read"] \in Request /\ Sound([req[r] EXCEPT !.at = "read"])
          /\ [req[r] EXCEPT !.at = "read"].at = "read"
      BY <2>1, <2>2 DEF Request, At, Sound
    <3>. QED
      BY <2>3, <3>1 DEF Fits
  <2>4. CASE cached[req[r].scope] # Miss /\ Proceed(r, Got(req[r], cached[req[r].scope]))
    <3>1. cached[req[r].scope] \in Content
      BY <2>2, <2>4 DEF Base, TypeOK, Request
    <3>2. req[r].scope = "panel" => cached[req[r].scope] # None
      BY DEF Base, PanelKnown
    <3>. QED
      BY <2>1, <2>4, <3>1, <3>2, ProceedFits
  <2>. QED
    BY <1>2, <2>1, <2>3, <2>4, UnreadFits DEF GetCached
<1>3. CASE ReadStored(r)
  <2>1. req[r] # None /\ req[r].at = "read"
    BY <1>3 DEF ReadStored, Is
  <2>2. req[r] \in Request /\ Sound(req[r])
    BY <2>1, Slot
  <2> DEFINE o == [req[r] EXCEPT !.at = "fill", !.read = stored[req[r].scope], !.crossed = FALSE]
  <2>3. stored[req[r].scope] \in Content /\ (req[r].scope = "panel" => stored[req[r].scope] # None)
    BY <2>2 DEF Base, TypeOK, PanelKnown, Request
  <2>4. o \in Request /\ Sound(o) /\ o.at = "fill" /\ o.read = stored[o.scope]
    BY <2>1, <2>2, <2>3 DEF Request, At, Sound
  <2>. QED
    BY <1>3, <2>4 DEF ReadStored, Fits
<1>4. CASE FillCache(r)
  <2>1. req[r] # None /\ req[r].at = "fill"
    BY <1>4 DEF FillCache, Is
  <2>2. req[r] \in Request /\ Sound(req[r])
    BY <2>1, Slot
  <2>3. req[r].read \in Content /\ (req[r].scope = "panel" => req[r].read # None)
    BY <2>1, <2>2 DEF Request, Sound
  <2>. QED
    BY <1>4, <2>1, <2>3, ProceedFits, UnreadFits DEF FillCache
<1>5. CASE ReadUser(r)
  <2>1. req[r] # None /\ req[r].at = "user"
    BY <1>5 DEF ReadUser, Is
  <2>2. req[r] \in Request /\ Sound(req[r])
    BY <2>1, Slot
  <2> DEFINE o == [req[r] EXCEPT !.limit = limit,
                        !.at = IF req[r].kind = "create" THEN "exists" ELSE "cache"]
  <2>3. o \in Request /\ Sound(o) /\ o.at \in {"exists", "cache"}
    BY <2>1, <2>2 DEF Request, At, Sound, Base, TypeOK
  <2>. QED
    BY <1>5, <2>3 DEF ReadUser, Fits
<1>6. CASE CheckExists(r)
  <2>1. req[r] # None /\ req[r].at = "exists"
    BY <1>6 DEF CheckExists, Is
  <2>2. req[r] \in Request /\ Sound(req[r])
    BY <2>1, Slot
  <2>3. CASE req[r].device \in devices /\ Goto(r, [req[r] EXCEPT !.at = "queue", !.removed = FALSE])
    <3> DEFINE o == [req[r] EXCEPT !.at = "queue", !.removed = FALSE]
    <3>1. o \in Request /\ Sound(o) /\ o.at = "queue" /\ o.device = req[r].device
      BY <2>1, <2>2 DEF Request, At, Sound
    <3>. QED
      BY <2>3, <3>1 DEF Fits
  <2>4. CASE req[r].kind = "create" /\ Goto(r, [req[r] EXCEPT !.at = "cache"])
    <3> DEFINE o == [req[r] EXCEPT !.at = "cache"]
    <3>1. o \in Request /\ Sound(o) /\ o.at = "cache"
      BY <2>1, <2>2, <2>4 DEF Request, At, Sound
    <3>. QED
      BY <2>4, <3>1 DEF Fits
  <2>5. CASE req[r].kind # "create" /\ Goto(r, [req[r] EXCEPT !.at = "count"])
    <3> DEFINE o == [req[r] EXCEPT !.at = "count"]
    <3>1. o \in Request /\ Sound(o) /\ o.at = "count"
      BY <2>1, <2>2, <2>5 DEF Request, At, Sound
    <3>. QED
      BY <2>5, <3>1 DEF Fits
  <2>. QED
    BY <1>6, <2>3, <2>4, <2>5 DEF CheckExists
<1>7. CASE CountDevices(r)
  <2>1. req[r] # None /\ req[r].at = "count"
    BY <1>7 DEF CountDevices, Is
  <2>2. req[r] \in Request /\ Sound(req[r])
    BY <2>1, Slot
  <2>3. CASE HasRoom(req[r]) /\ Goto(r, [req[r] EXCEPT !.at = "insert"])
             /\ cap' = IF Allowed(req[r]) > cap THEN Allowed(req[r]) ELSE cap
    <3> DEFINE o == [req[r] EXCEPT !.at = "insert"]
    <3>1. o \in Request /\ Sound(o) /\ o.at = "insert"
      BY <2>1, <2>2 DEF Request, At, Sound
    <3>2. Allowed(req[r]) \in Nat
      <4>1. Effective(req[r]).fallback \in Nat
        BY <2>1, <2>2, EffectiveFit DEF Sound
      <4>. QED
        BY <2>2, <4>1 DEF Allowed, Request
    <3>3. IsFiniteSet(devices) /\ Cardinality(devices) \in Nat /\ cap \in Nat
      BY AccessAssumption, FS_Subset, FS_CardinalityType DEF Base, TypeOK
    <3>4. Cardinality(devices) < cap'
      BY <2>3, <3>2, <3>3 DEF HasRoom
    <3>. QED
      BY <2>3, <3>1, <3>4 DEF Fits
  <2>. QED
    BY <1>7, <2>3 DEF CountDevices
<1>8. CASE Insert(r) \/ QueueUpsert(r)
  BY <1>8 DEF Insert, QueueUpsert
<1>. QED
  BY <1>1, <1>2, <1>3, <1>4, <1>5, <1>6, <1>7, <1>8 DEF RequestStep

-----------------------------------------------------------------------------
(* Types, group by group.                                                   *)

RowsOK == alive \in BOOLEAN /\ limit \in Nat \cup {None} /\ devices \in SUBSET Devices
CacheOK ==
    /\ stored \in [Scope -> Content] /\ cached \in [Scope -> Content \cup {Miss}]
    /\ editing \in SUBSET Scope /\ slipped \in SUBSET Scope
    /\ PanelKnown
JobsOK == jobs \in SUBSET Devices /\ written \in SUBSET Devices
PastOK == cap \in Nat /\ unchecked \in SUBSET Devices /\ served \in SUBSET Devices
CountsOK == requests \in Nat /\ edits \in Nat /\ mishaps \in Nat
ReqOK == req \in [Requests -> Request \cup {None}] /\ SlotsSound

LEMMA BaseParts ==
    /\ Base <=> (RowsOK /\ CacheOK /\ JobsOK /\ PastOK /\ CountsOK /\ ReqOK)
    /\ Base' <=> (RowsOK' /\ CacheOK' /\ JobsOK' /\ PastOK' /\ CountsOK' /\ ReqOK')
BY DEF Base, TypeOK, RowsOK, CacheOK, JobsOK, PastOK, CountsOK, ReqOK

LEMMA Kept ==
    /\ RowsOK /\ UNCHANGED rowVars => RowsOK'
    /\ CacheOK /\ UNCHANGED cacheVars => CacheOK'
    /\ JobsOK /\ UNCHANGED jobVars => JobsOK'
    /\ PastOK /\ UNCHANGED pastVars => PastOK'
    /\ CountsOK /\ UNCHANGED <<requests, edits, mishaps>> => CountsOK'
    /\ ReqOK /\ UNCHANGED req => ReqOK'
BY DEF RowsOK, CacheOK, PanelKnown, JobsOK, PastOK, CountsOK, ReqOK, SlotsSound, Sound,
       rowVars, cacheVars, jobVars, pastVars

LEMMA Counted ==
    ASSUME CountsOK
    PROVE  /\ (Mishap \/ UNCHANGED mishaps) /\ UNCHANGED <<requests, edits>> => CountsOK'
           /\ Edit /\ UNCHANGED <<requests, mishaps>> => CountsOK'
           /\ requests' = requests + 1 /\ UNCHANGED <<edits, mishaps>> => CountsOK'
BY DEF CountsOK, Mishap, Edit

LEMMA OutcomeType ==
    ASSUME Base, NEW r \in Requests, End(r) \/ \E o : Fits(o) /\ Goto(r, o)
    PROVE  ReqOK'
<1>1. CASE End(r)
  BY <1>1 DEF End, Base, TypeOK, SlotsSound, ReqOK
<1>2. ASSUME NEW o, Fits(o), Goto(r, o) PROVE ReqOK'
  <2>1. o \in Request /\ Sound(o) /\ req' = [req EXCEPT ![r] = o]
    BY <1>2 DEF Fits, Goto
  <2>2. req'[r] = o /\ \A q \in Requests : q # r => req'[q] = req[q]
    BY <2>1 DEF Base, TypeOK
  <2>3. ASSUME NEW q \in Requests, req'[q] # None PROVE Sound(req'[q])
    BY <2>1, <2>2, <2>3 DEF Base, SlotsSound
  <2>4. req' \in [Requests -> Request \cup {None}]
    BY <2>1 DEF Base, TypeOK
  <2>. QED
    BY <2>3, <2>4 DEF ReqOK, SlotsSound, Sound
<1>. QED
  BY <1>1, <1>2

LEMMA RequestType ==
    ASSUME Base, NEW r \in Requests, RequestStep(r)
    PROVE  Base'
<1> USE BaseParts, Kept
<1>0. ReqOK'
  BY Outcome, OutcomeType
<1>1. CASE Begin(r)
  BY <1>0, <1>1, Counted DEF Begin
<1>2. CASE GetCached(r)
  BY <1>0, <1>2, Counted DEF GetCached, Unread, cacheVars
<1>3. CASE ReadStored(r)
  BY <1>0, <1>3 DEF ReadStored
<1>4. CASE FillCache(r)
  <2>1. req[r] # None /\ req[r].at = "fill"
    BY <1>4 DEF FillCache, Is
  <2>2. req[r] \in Request /\ Sound(req[r])
    BY <2>1, Slot
  <2>3. req[r].scope \in Scope /\ req[r].read \in Content /\ (req[r].scope = "panel" => req[r].read # None)
    BY <2>1, <2>2 DEF Request, Sound
  <2>4. ASSUME cached' = [cached EXCEPT ![req[r].scope] = req[r].read], UNCHANGED <<stored, editing>>,
               slipped' = IF req[r].crossed THEN slipped \cup {req[r].scope} ELSE slipped \ {req[r].scope}
        PROVE  CacheOK'
    <3>1. cached'["panel"] # None
      BY <2>3, <2>4 DEF CacheOK, PanelKnown, Scope
    <3>2. cached' \in [Scope -> Content \cup {Miss}]
      BY <2>3, <2>4 DEF CacheOK
    <3>3. slipped' \in SUBSET Scope
      BY <2>3, <2>4 DEF CacheOK
    <3>4. PanelKnown'
      BY <2>4, <3>1 DEF CacheOK, PanelKnown
    <3>5. stored' \in [Scope -> Content] /\ editing' \in SUBSET Scope
      BY <2>4 DEF CacheOK
    <3>. QED
      BY <3>2, <3>3, <3>4, <3>5 DEF CacheOK
  <2>5. CacheOK'
    BY <1>4, <2>4 DEF FillCache, Unread
  <2>. QED
    BY <1>0, <1>4, <2>5, Counted DEF FillCache, Unread
<1>5. CASE ReadUser(r)
  BY <1>0, <1>5 DEF ReadUser
<1>6. CASE CheckExists(r)
  BY <1>0, <1>6, Counted DEF CheckExists
<1>7. CASE CountDevices(r)
  <2>1. req[r] # None /\ req[r].at = "count"
    BY <1>7 DEF CountDevices, Is
  <2>2. req[r] \in Request /\ Sound(req[r])
    BY <2>1, Slot
  <2>3. Allowed(req[r]) \in Nat
    BY <2>1, <2>2, EffectiveFit DEF Sound, Allowed, Request
  <2>4. PastOK'
    BY <1>7, <2>3 DEF CountDevices, PastOK
  <2>. QED
    BY <1>0, <1>7, <2>4, Counted DEF CountDevices
<1>8. CASE Insert(r)
  <2>1. req[r].device \in Devices
    BY <1>8, Slot DEF Insert, Is, Request, Sound
  <2>2. RowsOK' /\ PastOK'
    BY <1>8, <2>1 DEF Insert, RowsOK, PastOK
  <2>. QED
    BY <1>0, <1>8, <2>2, Counted DEF Insert
<1>9. CASE QueueUpsert(r)
  <2>1. req[r].device \in Devices
    BY <1>9, Slot DEF QueueUpsert, Is, Request, Sound
  <2>2. JobsOK' /\ PastOK'
    BY <1>9, <2>1 DEF QueueUpsert, JobsOK, PastOK
  <2>. QED
    BY <1>0, <1>9, <2>2, Counted DEF QueueUpsert
<1>. QED
  BY <1>1, <1>2, <1>3, <1>4, <1>5, <1>6, <1>7, <1>8, <1>9 DEF RequestStep

(* Flags that others set in a record leave it sound.                         *)
LEMMA FlagsFit ==
    ASSUME NEW o \in Request, Sound(o)
    PROVE  /\ [o EXCEPT !.crossed = TRUE] \in Request /\ Sound([o EXCEPT !.crossed = TRUE])
           /\ [o EXCEPT !.removed = TRUE] \in Request /\ Sound([o EXCEPT !.removed = TRUE])
BY DEF Request, Sound

LEMMA EditType ==
    ASSUME Base, Next, ~\E r \in Requests : RequestStep(r)
    PROVE  Base'
<1> USE BaseParts, Kept
<1>1. ASSUME NEW s \in Scope, Expire(s) PROVE Base'
  <2>1. CacheOK'
    BY <1>1, AccessAssumption DEF Expire, CacheOK, PanelKnown, Scope
  <2>. QED
    BY <1>1, <2>1 DEF Expire
<1>2. ASSUME NEW s \in Scope, UpdateSettings(s) PROVE Base'
  <2>1. PICK value \in Content : (s = "panel" => value # None) /\ stored' = [stored EXCEPT ![s] = value]
    BY <1>2 DEF UpdateSettings
  <2>2. CacheOK'
    BY <1>2, <2>1 DEF UpdateSettings, CacheOK, PanelKnown, Scope
  <2>3. \A q \in Requests : req'[q] = req[q] \/ (req[q] # None /\ req'[q] = [req[q] EXCEPT !.crossed = TRUE])
    BY <1>2 DEF UpdateSettings, Cross
  <2>4. \A q \in Requests : req'[q] \in Request \cup {None} /\ (req'[q] # None => Sound(req'[q]))
    BY <2>3, Slot, FlagsFit
  <2>5. ReqOK'
    BY <1>2, <2>4 DEF UpdateSettings, Cross, ReqOK, SlotsSound, Sound
  <2>. QED
    BY <1>2, <2>2, <2>5, Counted DEF UpdateSettings
<1>3. ASSUME NEW s \in Scope, DropCached(s) PROVE Base'
  <2>1. CacheOK'
    BY <1>3, AccessAssumption DEF DropCached, CacheOK, PanelKnown, Scope
  <2>. QED
    BY <1>3, <2>1, Counted DEF DropCached
<1>4. ASSUME NEW d \in Devices, RunUpsert(d) PROVE Base'
  <2>1. RowsOK' /\ JobsOK' /\ PastOK'
    BY <1>4 DEF RunUpsert, RowsOK, JobsOK, PastOK
  <2>. QED
    BY <1>4, <2>1, Counted DEF RunUpsert
<1>5. ASSUME NEW d \in Devices, FinishUpsert(d) PROVE Base'
  <2>1. JobsOK'
    BY <1>5 DEF FinishUpsert, JobsOK
  <2>. QED
    BY <1>5, <2>1 DEF FinishUpsert
<1>6. CASE EditLimit
  <2>1. RowsOK'
    BY <1>6, AccessAssumption DEF EditLimit, RowsOK
  <2>. QED
    BY <1>6, <2>1, Counted DEF EditLimit
<1>7. ASSUME NEW S \in SUBSET Devices, Remove(S), alive' \in BOOLEAN PROVE Base'
  <2>1. RowsOK' /\ PastOK'
    BY <1>7 DEF Remove, RowsOK, PastOK
  <2>2. \A q \in Requests : req'[q] = req[q] \/ (req[q] # None /\ req'[q] = [req[q] EXCEPT !.removed = TRUE])
    BY <1>7 DEF Remove
  <2>3. \A q \in Requests : req'[q] \in Request \cup {None} /\ (req'[q] # None => Sound(req'[q]))
    BY <2>2, Slot, FlagsFit
  <2>4. ReqOK'
    BY <1>7, <2>3 DEF Remove, ReqOK, SlotsSound, Sound
  <2>. QED
    BY <1>7, <2>1, <2>4, Counted DEF Remove
<1>8. ASSUME NEW d \in Devices, DeleteDevice(d) PROVE Base'
  BY <1>7, <1>8 DEF DeleteDevice, RowsOK
<1>9. CASE DeleteAllDevices
  BY <1>7, <1>9 DEF DeleteAllDevices, RowsOK
<1>10. CASE DeleteUser
  BY <1>7, <1>10 DEF DeleteUser, RowsOK
<1>. QED
  BY <1>1, <1>2, <1>3, <1>4, <1>5, <1>6, <1>8, <1>9, <1>10 DEF Next

LEMMA InitBase == Init => Base
<1> SUFFICES ASSUME Init PROVE Base
  OBVIOUS
<1>1. RowsOK /\ JobsOK /\ PastOK /\ CountsOK
  BY AccessAssumption DEF Init, RowsOK, JobsOK, PastOK, CountsOK
<1>2. CacheOK
  BY AccessAssumption DEF Init, CacheOK, PanelKnown, Scope
<1>3. ReqOK
  BY DEF Init, ReqOK, SlotsSound
<1>. QED
  BY <1>1, <1>2, <1>3, BaseParts

LEMMA StepBase == Base /\ [Next]_vars => Base'
<1> SUFFICES ASSUME Base, [Next]_vars PROVE Base'
  OBVIOUS
<1>1. CASE UNCHANGED vars
  BY <1>1, BaseParts, Kept DEF vars, rowVars, cacheVars, jobVars, pastVars
<1>. QED
  BY <1>1, RequestType, EditType

(* The variables keep their types: the limit that a device is held to is     *)
(* always a number, since a request knows the panel's settings by then.      *)
THEOREM TypeCorrect == Spec => []TypeOK
<1>. QED
  BY InitBase, StepBase, PTL DEF Spec, Base

-----------------------------------------------------------------------------
(* The cache of the settings.                                               *)

(* A request about to fill the cache holds what the database holds, unless   *)
(* an edit has overtaken it.                                                *)
FillsFresh ==
    \A r \in Requests :
        req[r] # None /\ req[r].at = "fill" /\ ~req[r].crossed => req[r].read = stored[req[r].scope]

CacheInv == Base /\ StaleHasCause /\ FillsFresh

(* A step after which the records of the requests fit.                       *)
LEMMA OutcomeFresh ==
    ASSUME Base, FillsFresh, UNCHANGED stored, NEW r \in Requests,
           End(r) \/ \E o : Fits(o) /\ Goto(r, o)
    PROVE  FillsFresh'
<1>1. PICK o : req' = [req EXCEPT ![r] = o] /\ (o # None => Fits(o))
  BY DEF End, Goto
<1>2. req'[r] = o /\ \A q \in Requests : q # r => req'[q] = req[q]
  BY <1>1 DEF Base, TypeOK
<1>. QED
  BY <1>1, <1>2 DEF FillsFresh, Fits

LEMMA CacheRequests ==
    ASSUME CacheInv, NEW r \in Requests, RequestStep(r)
    PROVE  StaleHasCause' /\ FillsFresh'
<1>1. UNCHANGED <<stored, editing>>
  BY DEF RequestStep, Begin, GetCached, ReadStored, FillCache, Unread, ReadUser, CheckExists,
         CountDevices, Insert, QueueUpsert, cacheVars
<1>2. FillsFresh'
  BY <1>1, Outcome, OutcomeFresh DEF CacheInv
<1>3. CASE UNCHANGED <<cached, slipped>>
  BY <1>1, <1>2, <1>3 DEF CacheInv, StaleHasCause
<1>4. ASSUME req[r] # None, req[r].at = "fill", cached' = [cached EXCEPT ![req[r].scope] = req[r].read],
             slipped' = IF req[r].crossed THEN slipped \cup {req[r].scope} ELSE slipped \ {req[r].scope}
      PROVE  StaleHasCause'
  <2>1. ASSUME NEW s \in Scope, cached'[s] \notin {Miss, stored[s]}, s \notin editing PROVE s \in slipped'
    <3>1. CASE s = req[r].scope
      <4>1. cached'[s] = req[r].read
        BY <1>4, <3>1 DEF CacheInv, Base, TypeOK
      <4>2. req[r].crossed
        BY <1>4, <2>1, <3>1, <4>1 DEF CacheInv, FillsFresh
      <4>. QED
        BY <1>4, <3>1, <4>2
    <3>2. CASE s # req[r].scope
      <4>1. cached'[s] = cached[s]
        BY <1>4, <3>2 DEF CacheInv, Base, TypeOK
      <4>2. s \in slipped
        BY <2>1, <4>1 DEF CacheInv, StaleHasCause
      <4>. QED
        BY <1>4, <3>2, <4>2
    <3>. QED
      BY <3>1, <3>2
  <2>. QED
    BY <1>1, <2>1 DEF StaleHasCause
<1>5. StaleHasCause'
  BY <1>3, <1>4 DEF RequestStep, Begin, GetCached, ReadStored, FillCache, Is, Unread, ReadUser,
                    CheckExists, CountDevices, Insert, QueueUpsert, cacheVars
<1>. QED
  BY <1>2, <1>5

(* An entry that leaves the cache, and the requests stay as they are.        *)
LEMMA CacheDropped ==
    ASSUME CacheInv, NEW s \in Scope, UNCHANGED <<stored, req>>, editing \ {s} \subseteq editing',
           \/ cached' = [cached EXCEPT ![s] = Miss] /\ slipped' = slipped \ {s}
           \/ UNCHANGED cached /\ slipped' = slipped \cup {s}
    PROVE  StaleHasCause' /\ FillsFresh'
<1>1. FillsFresh'
  BY DEF CacheInv, FillsFresh
<1>2. ASSUME NEW z \in Scope, cached'[z] \notin {Miss, stored[z]} PROVE z \in editing' \cup slipped'
  <2>1. CASE z = s
    BY <1>2, <2>1 DEF CacheInv, Base, TypeOK
  <2>2. CASE z # s
    <3>1. cached'[z] = cached[z]
      BY <2>2 DEF CacheInv, Base, TypeOK
    <3>. QED
      BY <1>2, <2>2, <3>1 DEF CacheInv, StaleHasCause
  <2>. QED
    BY <2>1, <2>2
<1>. QED
  BY <1>1, <1>2 DEF StaleHasCause

LEMMA SettingsEdited ==
    ASSUME CacheInv, NEW s \in Scope, UpdateSettings(s)
    PROVE  StaleHasCause' /\ FillsFresh'
<1>1. \A z \in Scope : z # s => stored'[z] = stored[z]
  BY DEF UpdateSettings, CacheInv, Base, TypeOK
<1>2. StaleHasCause'
  BY <1>1 DEF UpdateSettings, CacheInv, StaleHasCause
<1>3. ASSUME NEW q \in Requests, req'[q] # None, req'[q].at = "fill", ~req'[q].crossed
      PROVE  req'[q].read = stored'[req'[q].scope]
  <2>1. req'[q] = IF req[q] # None /\ req[q].at = "fill" /\ req[q].scope = s
                  THEN [req[q] EXCEPT !.crossed = TRUE] ELSE req[q]
    BY DEF UpdateSettings, Cross
  <2>2. CASE req[q] # None /\ req[q].at = "fill" /\ req[q].scope = s
    <3>1. req[q] \in Request
      BY <2>2, Slot DEF CacheInv
    <3>2. req'[q].crossed = TRUE
      BY <2>1, <2>2, <3>1 DEF Request
    <3>. QED
      BY <1>3, <3>2
  <2>3. CASE ~(req[q] # None /\ req[q].at = "fill" /\ req[q].scope = s)
    <3>1. req'[q] = req[q]
      BY <2>1, <2>3
    <3>2. req[q].scope \in Scope /\ req[q].scope # s
      BY <1>3, <2>3, <3>1, Slot DEF CacheInv, Request
    <3>. QED
      BY <1>1, <1>3, <3>1, <3>2 DEF CacheInv, FillsFresh
  <2>. QED
    BY <2>2, <2>3
<1>4. FillsFresh'
  BY <1>3 DEF FillsFresh
<1>. QED
  BY <1>2, <1>4

(* A flag about the device says nothing about the settings.                  *)
LEMMA CacheRemoved ==
    ASSUME CacheInv, NEW S, Remove(S)
    PROVE  StaleHasCause' /\ FillsFresh'
<1>1. UNCHANGED <<stored, cached, editing, slipped>>
  BY DEF Remove, cacheVars
<1>2. ASSUME NEW q \in Requests, req'[q] # None
      PROVE  /\ req[q] # None /\ req'[q].at = req[q].at /\ req'[q].crossed = req[q].crossed
             /\ req'[q].read = req[q].read /\ req'[q].scope = req[q].scope
  <2>1. req'[q] = req[q] \/ (req[q] # None /\ req'[q] = [req[q] EXCEPT !.removed = TRUE])
    BY DEF Remove
  <2>2. req[q] # None /\ req[q] \in Request
    BY <1>2, <2>1, Slot DEF CacheInv
  <2>. QED
    BY <2>1, <2>2 DEF Request
<1>. QED
  BY <1>1, <1>2 DEF CacheInv, StaleHasCause, FillsFresh

LEMMA CacheStep == CacheInv /\ [Next]_vars => CacheInv'
<1> SUFFICES ASSUME CacheInv, [Next]_vars PROVE CacheInv'
  OBVIOUS
<1>1. Base'
  BY StepBase DEF CacheInv
<1>2. CASE UNCHANGED <<stored, cached, editing, slipped, req>>
  BY <1>1, <1>2 DEF CacheInv, StaleHasCause, FillsFresh
<1>3. ASSUME NEW s \in Scope, Expire(s) PROVE CacheInv'
  BY <1>1, <1>3, CacheDropped DEF Expire, CacheInv
<1>4. ASSUME NEW s \in Scope, DropCached(s) PROVE CacheInv'
  BY <1>1, <1>4, CacheDropped DEF DropCached, CacheInv
<1>5. ASSUME NEW s \in Scope, UpdateSettings(s) PROVE CacheInv'
  BY <1>1, <1>5, SettingsEdited DEF CacheInv
<1>6. ASSUME NEW d \in Devices, RunUpsert(d) \/ FinishUpsert(d) PROVE CacheInv'
  BY <1>2, <1>6 DEF RunUpsert, FinishUpsert, cacheVars
<1>7. CASE EditLimit
  BY <1>2, <1>7 DEF EditLimit, cacheVars
<1>8. ASSUME NEW r \in Requests, RequestStep(r) PROVE CacheInv'
  BY <1>1, <1>8, CacheRequests DEF CacheInv
<1>9. ASSUME NEW d \in Devices, DeleteDevice(d) PROVE CacheInv'
  BY <1>1, <1>9, CacheRemoved DEF DeleteDevice, CacheInv
<1>10. CASE DeleteAllDevices \/ DeleteUser
  BY <1>1, <1>10, CacheRemoved DEF DeleteAllDevices, DeleteUser, CacheInv
<1>11. CASE UNCHANGED vars
  BY <1>2, <1>11 DEF vars, cacheVars
<1>. QED
  BY <1>3, <1>4, <1>5, <1>6, <1>7, <1>8, <1>9, <1>10, <1>11 DEF Next

(* Settings in the cache that are not those of the database have a cause: an *)
(* edit about to delete them, a read that it overtook, or a failed delete.   *)
THEOREM CacheStale == Spec => []StaleHasCause
<1>1. Init => CacheInv
  BY InitBase DEF Init, CacheInv, StaleHasCause, FillsFresh
<1>. QED
  BY <1>1, CacheStep, PTL DEF Spec, CacheInv

-----------------------------------------------------------------------------
(* Who was served.                                                          *)

(* A request that will be served without a count has found its device, and   *)
(* it was not removed since.                                                *)
QueuedIsKnown ==
    \A r \in Requests :
        req[r] # None /\ req[r].at = "queue" /\ req[r].counted /\ ~req[r].removed
            => req[r].device \in devices

ServedInv == Base /\ ServedIsRegistered /\ QueuedIsKnown

LEMMA ServedRequests ==
    ASSUME ServedInv, NEW r \in Requests, RequestStep(r)
    PROVE  ServedIsRegistered' /\ QueuedIsKnown'
<1>1. devices \subseteq devices'
  BY DEF RequestStep, Begin, GetCached, ReadStored, FillCache, ReadUser, CheckExists,
         CountDevices, Insert, QueueUpsert, rowVars
<1>2. PICK o : req' = [req EXCEPT ![r] = o] /\ (o # None => Fits(o))
  BY Outcome DEF End, Goto, ServedInv
<1>3. req'[r] = o /\ \A q \in Requests : q # r => req'[q] = req[q]
  BY <1>2 DEF ServedInv, Base, TypeOK
<1>4. QueuedIsKnown'
  BY <1>1, <1>2, <1>3 DEF ServedInv, QueuedIsKnown, Fits
<1>5. CASE Insert(r)
  BY <1>4, <1>5 DEF Insert, ServedInv, ServedIsRegistered
<1>6. CASE QueueUpsert(r)
  BY <1>1, <1>4, <1>6 DEF QueueUpsert, Is, ServedInv, ServedIsRegistered, QueuedIsKnown
<1>7. CASE UNCHANGED served
  BY <1>1, <1>4, <1>7 DEF ServedInv, ServedIsRegistered
<1>. QED
  BY <1>5, <1>6, <1>7 DEF RequestStep, Begin, GetCached, ReadStored, FillCache, ReadUser,
                                CheckExists, CountDevices, pastVars

LEMMA ServedRemoved ==
    ASSUME ServedInv, NEW S, Remove(S)
    PROVE  ServedIsRegistered' /\ QueuedIsKnown'
<1>1. ServedIsRegistered'
  BY DEF Remove, ServedInv, ServedIsRegistered
<1>2. ASSUME NEW q \in Requests, req'[q] # None, req'[q].at = "queue", req'[q].counted, ~req'[q].removed
      PROVE  req'[q].device \in devices'
  <2>1. req'[q] = IF req[q] # None /\ req[q].device \in S
                  THEN [req[q] EXCEPT !.removed = TRUE] ELSE req[q]
    BY DEF Remove
  <2>2. CASE req[q] # None /\ req[q].device \in S
    <3>1. req[q] \in Request
      BY <2>2, Slot DEF ServedInv
    <3>2. req'[q].removed = TRUE
      BY <2>1, <2>2, <3>1 DEF Request
    <3>. QED
      BY <1>2, <3>2
  <2>3. CASE ~(req[q] # None /\ req[q].device \in S)
    <3>1. req'[q] = req[q] /\ req[q].device \notin S
      BY <1>2, <2>1, <2>3
    <3>. QED
      BY <1>2, <3>1 DEF Remove, ServedInv, QueuedIsKnown
  <2>. QED
    BY <2>2, <2>3
<1>. QED
  BY <1>1, <1>2 DEF QueuedIsKnown

LEMMA ServedStep == ServedInv /\ [Next]_vars => ServedInv'
<1> SUFFICES ASSUME ServedInv, [Next]_vars PROVE ServedInv'
  OBVIOUS
<1>1. Base'
  BY StepBase DEF ServedInv
<1>2. CASE devices \subseteq devices' /\ UNCHANGED <<served, req>>
  BY <1>1, <1>2 DEF ServedInv, ServedIsRegistered, QueuedIsKnown
<1>3. ASSUME NEW s \in Scope, Expire(s) \/ DropCached(s) PROVE ServedInv'
  BY <1>2, <1>3 DEF Expire, DropCached, rowVars, pastVars
<1>4. ASSUME NEW s \in Scope, UpdateSettings(s) PROVE ServedInv'
  <2>1. ASSUME NEW q \in Requests, req'[q] # None
        PROVE  /\ req[q] # None /\ req'[q].at = req[q].at /\ req'[q].counted = req[q].counted
               /\ req'[q].removed = req[q].removed /\ req'[q].device = req[q].device
    <3>1. req'[q] = req[q] \/ (req[q] # None /\ req'[q] = [req[q] EXCEPT !.crossed = TRUE])
      BY <1>4 DEF UpdateSettings, Cross
    <3>2. req[q] # None /\ req[q] \in Request
      BY <2>1, <3>1, Slot DEF ServedInv
    <3>. QED
      BY <3>1, <3>2 DEF Request
  <2>. QED
    BY <1>1, <1>4, <2>1 DEF UpdateSettings, rowVars, pastVars, ServedInv, ServedIsRegistered, QueuedIsKnown
<1>5. ASSUME NEW d \in Devices, RunUpsert(d) \/ FinishUpsert(d) PROVE ServedInv'
  BY <1>2, <1>5 DEF RunUpsert, FinishUpsert, rowVars, pastVars
<1>6. CASE EditLimit
  BY <1>2, <1>6 DEF EditLimit, pastVars
<1>7. ASSUME NEW r \in Requests, RequestStep(r) PROVE ServedInv'
  BY <1>1, <1>7, ServedRequests DEF ServedInv
<1>8. ASSUME NEW d \in Devices, DeleteDevice(d) PROVE ServedInv'
  BY <1>1, <1>8, ServedRemoved DEF DeleteDevice, ServedInv
<1>9. CASE DeleteAllDevices \/ DeleteUser
  BY <1>1, <1>9, ServedRemoved DEF DeleteAllDevices, DeleteUser, ServedInv
<1>10. CASE UNCHANGED vars
  BY <1>2, <1>10 DEF vars, rowVars, pastVars
<1>. QED
  BY <1>3, <1>4, <1>5, <1>6, <1>7, <1>8, <1>9, <1>10 DEF Next

(* A device served under the limit is registered until it is removed.        *)
THEOREM ServedRegistered == Spec => []ServedIsRegistered
<1>1. Init => ServedInv
  BY InitBase DEF Init, ServedInv, ServedIsRegistered, QueuedIsKnown
<1>. QED
  BY <1>1, ServedStep, PTL DEF Spec, ServedInv

-----------------------------------------------------------------------------
(* How far the limit is overrun.                                            *)

(* Requests that were counted and have not added their device yet.           *)
Counting == {r \in Requests : req[r] # None /\ req[r].at = "insert" /\ req[r].counted}

(* The strengthening: whoever was counted takes part in the overrun already. *)
Overrun == Cardinality(devices \ unchecked) + Cardinality(Counting) + 1 <= cap + Cardinality(Requests)

LimitInv == Base /\ Overrun

LEMMA Sizes ==
    ASSUME Base
    PROVE  /\ IsFiniteSet(devices) /\ Cardinality(devices) \in Nat
           /\ \A S \in SUBSET Devices : IsFiniteSet(S) /\ Cardinality(S) \in Nat
           /\ \A S \in SUBSET Requests : /\ IsFiniteSet(S) /\ Cardinality(S) \in Nat
                                         /\ Cardinality(S) <= Cardinality(Requests)
           /\ Cardinality(Requests) \in Nat /\ cap \in Nat
BY AccessAssumption, FS_Subset, FS_CardinalityType DEF Base, TypeOK

LEMMA OverrunKept ==
    ASSUME LimitInv, Base', cap <= cap', devices' \ unchecked' \subseteq devices \ unchecked,
           Counting' \subseteq Counting
    PROVE  Overrun'
<1>1. devices \ unchecked \in SUBSET Devices
  BY DEF LimitInv, Base, TypeOK
<1>2. Cardinality(devices' \ unchecked') <= Cardinality(devices \ unchecked)
  BY <1>1, Sizes, FS_Subset DEF LimitInv
<1>3. Counting \in SUBSET Requests
  BY DEF Counting
<1>4. Cardinality(Counting') <= Cardinality(Counting)
  BY <1>3, Sizes, FS_Subset DEF LimitInv
<1>5. /\ Cardinality(devices' \ unchecked') \in Nat /\ Cardinality(devices \ unchecked) \in Nat
      /\ Cardinality(Counting') \in Nat /\ Cardinality(Counting) \in Nat
      /\ Cardinality(Requests) \in Nat /\ cap \in Nat /\ cap' \in Nat
  <2>1. devices' \ unchecked' \in SUBSET Devices /\ Counting' \in SUBSET Requests /\ cap' \in Nat
    BY DEF Base, TypeOK, Counting
  <2>. QED
    BY <1>1, <1>3, <2>1, Sizes DEF LimitInv
<1>. QED
  BY <1>2, <1>4, <1>5 DEF LimitInv, Overrun

(* A device is counted: there is room, and at most every other request has   *)
(* been counted too.                                                        *)
LEMMA OverrunCounted ==
    ASSUME LimitInv, Base', NEW r \in Requests, CountDevices(r)
    PROVE  Overrun'
<1>1. PICK o : req' = [req EXCEPT ![r] = o] /\ (o # None => Fits(o))
  <2>1. RequestStep(r)
    BY DEF RequestStep
  <2>. QED
    BY <2>1, Outcome DEF End, Goto, LimitInv
<1>2. req'[r] = o /\ \A q \in Requests : q # r => req'[q] = req[q]
  BY <1>1 DEF LimitInv, Base, TypeOK
<1>3. UNCHANGED <<devices, unchecked>> /\ cap <= cap'
  <2>1. req[r] \in Request /\ req[r].panel # None
    <3>1. req[r] # None /\ req[r].at = "count"
      BY DEF CountDevices, Is
    <3>. QED
      BY <3>1, Slot DEF LimitInv, Sound
  <2>2. Allowed(req[r]) \in Nat
    BY <2>1, EffectiveFit DEF Allowed, Request
  <2>. QED
    BY <2>2 DEF CountDevices, rowVars, LimitInv, Base, TypeOK
<1>4. CASE r \in Counting'
  <2>1. Cardinality(devices) < cap'
    BY <1>1, <1>2, <1>4 DEF Counting, Fits
  <2>2. devices \ unchecked \subseteq devices /\ devices \ unchecked \in SUBSET Devices
    BY DEF LimitInv, Base, TypeOK
  <2>3. Cardinality(devices \ unchecked) <= Cardinality(devices)
    BY <2>2, Sizes, FS_Subset DEF LimitInv
  <2>4. Cardinality(Counting') <= Cardinality(Requests) /\ Cardinality(Counting') \in Nat
    BY Sizes DEF Counting, LimitInv
  <2>5. Cardinality(devices \ unchecked) \in Nat /\ Cardinality(devices) \in Nat /\ cap' \in Nat
        /\ Cardinality(Requests) \in Nat
    BY <2>2, Sizes DEF LimitInv, Base, TypeOK
  <2>. QED
    BY <1>3, <2>1, <2>3, <2>4, <2>5 DEF Overrun
<1>5. CASE r \notin Counting'
  <2>1. Counting' \subseteq Counting
    BY <1>2, <1>5 DEF Counting
  <2>. QED
    BY <1>3, <2>1, OverrunKept
<1>. QED
  BY <1>4, <1>5

(* A counted device is added: the request no longer takes part.              *)
LEMMA OverrunInserted ==
    ASSUME LimitInv, Base', NEW r \in Requests, Insert(r)
    PROVE  Overrun'
<1>1. req[r] # None /\ req[r].at = "insert" /\ req' = [req EXCEPT ![r] = None] /\ UNCHANGED cap
  BY DEF Insert, Is, End
<1>2. req'[r] = None /\ \A q \in Requests : q # r => req'[q] = req[q]
  BY <1>1 DEF LimitInv, Base, TypeOK
<1>3. Counting' = Counting \ {r}
  BY <1>2 DEF Counting
<1>4. cap <= cap'
  BY <1>1 DEF LimitInv, Base, TypeOK
<1>5. CASE devices' \ unchecked' \subseteq devices \ unchecked
  BY <1>3, <1>4, <1>5, OverrunKept
<1>6. CASE ~(devices' \ unchecked' \subseteq devices \ unchecked)
  <2>1. req[r].counted /\ devices' = devices \cup {req[r].device} /\ unchecked' = unchecked \ {req[r].device}
    BY <1>6 DEF Insert
  <2> DEFINE D == devices \ unchecked
  <2>2. devices' \ unchecked' \subseteq D \cup {req[r].device}
    BY <2>1
  <2>3. req[r].device \in Devices /\ D \in SUBSET Devices
    BY <1>1, Slot DEF Request, Sound, LimitInv, Base, TypeOK
  <2>4. IsFiniteSet(D) /\ Cardinality(D) \in Nat
    BY <2>3, Sizes DEF LimitInv
  <2>5. IsFiniteSet(D \cup {req[r].device}) /\ Cardinality(D \cup {req[r].device}) <= Cardinality(D) + 1
        /\ Cardinality(D \cup {req[r].device}) \in Nat
    <3>1. IsFiniteSet(D \cup {req[r].device})
      BY <2>4, FS_AddElement
    <3>2. Cardinality(D \cup {req[r].device}) \in Nat
      BY <3>1, FS_CardinalityType
    <3>3. Cardinality(D \cup {req[r].device}) = IF req[r].device \in D THEN Cardinality(D) ELSE Cardinality(D) + 1
      BY <2>4, FS_AddElement
    <3>. QED
      BY <2>4, <3>1, <3>2, <3>3
  <2>6. Cardinality(devices' \ unchecked') \in Nat /\ Cardinality(devices' \ unchecked') <= Cardinality(D) + 1
    <3>1. /\ IsFiniteSet(devices' \ unchecked')
          /\ Cardinality(devices' \ unchecked') <= Cardinality(D \cup {req[r].device})
      BY <2>2, <2>5, FS_Subset
    <3>2. Cardinality(devices' \ unchecked') \in Nat
      BY <3>1, FS_CardinalityType
    <3>. QED
      BY <2>4, <2>5, <3>1, <3>2
  <2>7. r \in Counting /\ IsFiniteSet(Counting) /\ Cardinality(Counting) \in Nat
    BY <1>1, <2>1, Sizes DEF Counting, LimitInv
  <2>8. Cardinality(Counting') = Cardinality(Counting) - 1
    BY <1>3, <2>7, FS_RemoveElement
  <2>9. Cardinality(Requests) \in Nat /\ cap \in Nat
    BY Sizes DEF LimitInv
  <2>10. Cardinality(D) + Cardinality(Counting) + 1 <= cap + Cardinality(Requests)
    BY DEF LimitInv, Overrun
  <2>. QED
    BY <1>1, <2>4, <2>6, <2>7, <2>8, <2>9, <2>10 DEF Overrun
<1>. QED
  BY <1>5, <1>6

LEMMA LimitStep == LimitInv /\ [Next]_vars => LimitInv'
<1> SUFFICES ASSUME LimitInv, [Next]_vars PROVE Overrun'
  BY StepBase DEF LimitInv
<1>1. Base' /\ cap \in Nat
  BY StepBase DEF LimitInv, Base, TypeOK
<1>2. CASE UNCHANGED <<devices, unchecked, cap, req>>
  BY <1>2 DEF LimitInv, Overrun, Counting
<1>3. ASSUME NEW s \in Scope, Expire(s) \/ DropCached(s) PROVE Overrun'
  BY <1>2, <1>3 DEF Expire, DropCached, rowVars, pastVars
<1>4. ASSUME UNCHANGED <<devices, unchecked, cap>>, Counting' \subseteq Counting PROVE Overrun'
  BY <1>1, <1>4, OverrunKept
<1>5. ASSUME NEW s \in Scope, UpdateSettings(s) PROVE Overrun'
  <2>1. ASSUME NEW q \in Counting' PROVE q \in Counting
    <3>1. req'[q] = req[q] \/ (req[q] # None /\ req'[q] = [req[q] EXCEPT !.crossed = TRUE])
      BY <1>5 DEF UpdateSettings, Cross, Counting
    <3>2. q \in Requests /\ req'[q] # None /\ req'[q].at = "insert" /\ req'[q].counted
      BY DEF Counting
    <3>3. req[q] # None /\ req[q] \in Request
      BY <3>1, <3>2, Slot DEF LimitInv
    <3>4. req[q].at = "insert" /\ req[q].counted
      BY <3>1, <3>2, <3>3 DEF Request
    <3>. QED
      BY <3>2, <3>3, <3>4 DEF Counting
  <2>. QED
    BY <1>4, <1>5, <2>1 DEF UpdateSettings, rowVars, pastVars
<1>6. ASSUME NEW d \in Devices, RunUpsert(d) PROVE Overrun'
  <2>1. devices' \ unchecked' \subseteq devices \ unchecked /\ UNCHANGED <<cap, req>>
    BY <1>6 DEF RunUpsert
  <2>2. Counting' = Counting
    BY <2>1 DEF Counting
  <2>. QED
    BY <1>1, <2>1, <2>2, OverrunKept
<1>7. ASSUME NEW d \in Devices, FinishUpsert(d) PROVE Overrun'
  BY <1>2, <1>7 DEF FinishUpsert, rowVars, pastVars
<1>8. CASE EditLimit
  BY <1>2, <1>8 DEF EditLimit, pastVars
<1>9. ASSUME NEW S, Remove(S) PROVE Overrun'
  <2>1. devices' \ unchecked' \subseteq devices \ unchecked /\ UNCHANGED cap
    BY <1>9 DEF Remove
  <2>2. ASSUME NEW q \in Counting' PROVE q \in Counting
    <3>1. req'[q] = req[q] \/ (req[q] # None /\ req'[q] = [req[q] EXCEPT !.removed = TRUE])
      BY <1>9 DEF Remove, Counting
    <3>2. q \in Requests /\ req'[q] # None /\ req'[q].at = "insert" /\ req'[q].counted
      BY DEF Counting
    <3>3. req[q] # None /\ req[q] \in Request
      BY <3>1, <3>2, Slot DEF LimitInv
    <3>4. req[q].at = "insert" /\ req[q].counted
      BY <3>1, <3>2, <3>3 DEF Request
    <3>. QED
      BY <3>2, <3>3, <3>4 DEF Counting
  <2>. QED
    BY <1>1, <2>1, <2>2, OverrunKept
<1>10. ASSUME NEW d \in Devices, DeleteDevice(d) PROVE Overrun'
  BY <1>9, <1>10 DEF DeleteDevice
<1>11. CASE DeleteAllDevices \/ DeleteUser
  BY <1>9, <1>11 DEF DeleteAllDevices, DeleteUser
<1>12. ASSUME NEW r \in Requests, RequestStep(r), ~CountDevices(r), ~Insert(r) PROVE Overrun'
  <2>1. UNCHANGED <<devices, unchecked, cap>>
    BY <1>12 DEF RequestStep, Begin, GetCached, ReadStored, FillCache, ReadUser, CheckExists,
                 QueueUpsert, rowVars, pastVars
  <2>2. PICK o : req' = [req EXCEPT ![r] = o] /\ (o # None => Fits(o))
    BY <1>12, Outcome DEF End, Goto, LimitInv
  <2>3. req'[r] = o /\ \A q \in Requests : q # r => req'[q] = req[q]
    BY <2>2 DEF LimitInv, Base, TypeOK
  <2>4. CASE r \notin Counting'
    <3>1. Counting' \subseteq Counting
      BY <2>3, <2>4 DEF Counting
    <3>. QED
      BY <1>4, <2>1, <3>1
  <2>5. CASE r \in Counting'
    <3>1. Cardinality(devices) < cap
      BY <2>1, <2>2, <2>3, <2>5 DEF Counting, Fits
    <3>2. devices \ unchecked \subseteq devices /\ devices \ unchecked \in SUBSET Devices
      BY DEF LimitInv, Base, TypeOK
    <3>3. Cardinality(devices \ unchecked) <= Cardinality(devices)
      BY <3>2, Sizes, FS_Subset DEF LimitInv
    <3>4. Cardinality(Counting') <= Cardinality(Requests) /\ Cardinality(Counting') \in Nat
      BY Sizes DEF Counting, LimitInv
    <3>5. Cardinality(devices \ unchecked) \in Nat /\ Cardinality(devices) \in Nat /\ cap \in Nat
          /\ Cardinality(Requests) \in Nat
      BY <3>2, Sizes DEF LimitInv
    <3>. QED
      BY <2>1, <3>1, <3>3, <3>4, <3>5 DEF Overrun
  <2>. QED
    BY <2>4, <2>5
<1>13. ASSUME NEW r \in Requests, CountDevices(r) \/ Insert(r) PROVE Overrun'
  BY <1>1, <1>13, OverrunCounted, OverrunInserted
<1>14. CASE UNCHANGED vars
  BY <1>2, <1>14 DEF vars, rowVars, pastVars
<1>. QED
  BY <1>3, <1>5, <1>6, <1>7, <1>8, <1>10, <1>11, <1>12, <1>13, <1>14 DEF Next

(* Of the devices that were counted, there are never more than the highest   *)
(* limit and one for every other request at work: the overrun of a count     *)
(* made before the insert is bounded by the requests that race.              *)
THEOREM LimitOverrun == Spec => []OverrunIsBounded
<1>1. Init => LimitInv
  <2> SUFFICES ASSUME Init PROVE Overrun
    BY InitBase DEF LimitInv
  <2>1. devices \ unchecked = {} /\ Counting = {} /\ cap = 0
    BY DEF Init, Counting
  <2>2. Cardinality({}) = 0
    BY FS_EmptySet
  <2>3. Cardinality(Requests) \in Nat /\ Cardinality(Requests) # 0
    BY AccessAssumption, FS_CardinalityType, FS_EmptySet
  <2>. QED
    BY <2>1, <2>2, <2>3 DEF Overrun
<1>2. LimitInv => OverrunIsBounded
  <2> SUFFICES ASSUME LimitInv PROVE OverrunIsBounded
    OBVIOUS
  <2>1. devices \ unchecked \in SUBSET Devices /\ Counting \in SUBSET Requests
    BY DEF LimitInv, Base, TypeOK, Counting
  <2>2. /\ Cardinality(devices \ unchecked) \in Nat /\ Cardinality(Counting) \in Nat
        /\ cap \in Nat /\ Cardinality(Requests) \in Nat
    BY <2>1, Sizes DEF LimitInv
  <2>. QED
    BY <2>2 DEF LimitInv, Overrun, OverrunIsBounded
<1>. QED
  BY <1>1, <1>2, LimitStep, PTL DEF Spec
=============================================================================
