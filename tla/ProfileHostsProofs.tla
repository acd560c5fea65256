------------------------- MODULE ProfileHostsProofs -------------------------
(* Proofs about ProfileHosts for every set of profiles, tags, inbounds,      *)
(* hosts and list items, every number of requests at the same time, and      *)
(* every bound.                                                             *)
EXTENDS ProfileHosts, SequenceTheorems, TLAPS

-----------------------------------------------------------------------------
(* The parts of the invariant.                                              *)

(* What a request has left to do, by the order of its statements.            *)
CreatePlans ==
    {<<WriteRow, Add("nodes"), Add("excluded")>>, <<WriteRow, Add("nodes")>>,
     <<WriteRow, Add("excluded")>>, <<WriteRow>>,
     <<Add("nodes"), Add("excluded")>>, <<Add("nodes")>>, <<Add("excluded")>>}
UpdatePlans ==
    {<<Clear("nodes"), Add("nodes"), Clear("excluded"), Add("excluded"), WriteRow>>,
     <<Add("nodes"), Clear("excluded"), Add("excluded"), WriteRow>>,
     <<Clear("excluded"), Add("excluded"), WriteRow>>, <<Add("excluded"), WriteRow>>,
     <<Clear("nodes"), Add("nodes"), WriteRow>>, <<Add("nodes"), WriteRow>>, <<WriteRow>>}

Names(todo, l) == \E i \in DOMAIN todo : todo[i] \in {Clear(l), Add(l)}

CreatePlanned(o) ==
    /\ o.op = "create" /\ o.todo \in CreatePlans /\ o.inbound # None
    /\ \A l \in Lists : o.want[l] \in SUBSET Items
    /\ Head(o.todo) = WriteRow => \A l \in Lists : o.want[l] # {} => Names(o.todo, l)
UpdatePlanned(o) ==
    /\ o.op = "update" /\ o.todo \in UpdatePlans
    /\ \A l \in Lists : Names(o.todo, l) => o.want[l] # None
AssignPlanned(o) == o.op = "assign" /\ o.todo = <<WriteRow>> /\ o.inbound # None
Planned(o) == CreatePlanned(o) \/ UpdatePlanned(o) \/ AssignPlanned(o)

(* What an edit has read of its profile p: a row that is still there has kept *)
(* its profile and its type.                                                *)
TrueRead(p, read) ==
    \A t \in Tags : read[t] # None =>
        /\ read[t].profile = p
        /\ Still(read, t) => rows[t].profile = p /\ rows[t].type = read[t].type

(* What a request has chosen for its host: a row that is still there has     *)
(* kept its profile.                                                        *)
TrueChoice(o) ==
    o.inbound # None =>
        /\ o.profile \in Profiles
        /\ RowOf(o.inbound) # None => RowOf(o.inbound).profile = o.profile

Sane(s) ==
    /\ Is(s, "edit") => TrueRead(slot[s].profile, slot[s].read)
    /\ OnHost(s) => Planned(slot[s]) /\ TrueChoice(slot[s])

AllSane == \A s \in Slots : Sane(s)
RowsLive == \A t \in Tags : rows[t] # None => rows[t].profile \in Live
SeedAlone == seeding # {} => \A s \in Slots : slot[s] = None

Ground == TypeOK /\ AllSane /\ RowsLive /\ SeedAlone

-----------------------------------------------------------------------------
(* Types.                                                                   *)

HostsOK == host \in [Hosts -> Host \cup {None}]
Refers(o) == o.inbound # None => /\ RowOf(o.inbound) # None
                                 /\ o.profile = RowOf(o.inbound).profile
RefsOK == \A h \in Hosts : host[h] # None => Refers(host[h])
SlotsOK == slot \in [Slots -> Edit \cup HostRequest \cup {None}]
ListsOK == asked \in [Hosts -> [Lists -> SUBSET Items]] /\ crossed \subseteq Hosts \X Lists
ProfilesOK ==
    /\ config \in [Profiles -> Config \cup {None}]
    /\ seeding \subseteq Live /\ torn \subseteq Live /\ mixed \subseteq Live
CountsOK == requests \in Nat /\ mishaps \in Nat

LEMMA TypeParts ==
    TypeOK <=> /\ ProfilesOK /\ rows \in Rows /\ HostsOK /\ RefsOK /\ SlotsOK /\ ListsOK /\ CountsOK
BY DEF TypeOK, ProfilesOK, HostsOK, RefsOK, Refers, SlotsOK, ListsOK, CountsOK

LEMMA SlotTypes ==
    ASSUME TypeOK, NEW s \in Slots
    PROVE  /\ Is(s, "edit") => slot[s] \in Edit
           /\ OnHost(s) => slot[s] \in HostRequest
<1>1. slot[s] \in Edit => slot[s].op = "edit"
  BY DEF Edit
<1>2. slot[s] \in HostRequest => slot[s].op \in {"create", "update", "assign"}
  BY DEF HostRequest
<1>3. slot[s] \in Edit \cup HostRequest \cup {None}
  BY DEF TypeOK
<1>. QED
  BY <1>1, <1>2, <1>3 DEF Is, OnHost

(* A uuid that nobody remembers.                                            *)
LEMMA FreshUuid ==
    ASSUME TypeOK, NEW t \in Tags
    PROVE  /\ Fresh(t) \in Uuids
           /\ \A s \in Slots : ~Remembers(s, t, Fresh(t))
           /\ rows[t] # None => rows[t].uuid # Fresh(t)
<1>1. PICK g0 \in Uuids : TRUE
  BY UuidAssumption
<1>. DEFINE Read(s) == IF slot[s].read[t] # None THEN slot[s].read[t].uuid ELSE g0
            Chosen(s) == IF slot[s].inbound # None THEN slot[s].inbound.uuid ELSE g0
            OfSlot(s) == IF Is(s, "edit") THEN Read(s) ELSE IF OnHost(s) THEN Chosen(s) ELSE g0
            OfRow == IF rows[t] # None THEN rows[t].uuid ELSE g0
            used == [s \in Slots \cup {None} |-> IF s = None THEN OfRow ELSE OfSlot(s)]
<1>2. OfRow \in Uuids
  BY <1>1 DEF TypeOK, Rows, Row
<1>3. ASSUME NEW s \in Slots PROVE OfSlot(s) \in Uuids
  <2>1. CASE Is(s, "edit")
    <3>1. slot[s].read[t] \in Row \cup {None}
      BY <2>1, SlotTypes DEF Edit, Rows
    <3>. QED
      BY <3>1, <2>1, <1>1 DEF Row
  <2>2. CASE ~Is(s, "edit") /\ OnHost(s)
    <3>1. slot[s].inbound \in Ref \cup {None}
      BY <2>2, SlotTypes DEF HostRequest
    <3>. QED
      BY <3>1, <2>2, <1>1 DEF Ref
  <2>. QED
    BY <2>1, <2>2, <1>1
<1>4. used \in [Slots \cup {None} -> Uuids]
  BY <1>2, <1>3
<1>5. PICK g \in Uuids : \A s \in Slots \cup {None} : used[s] # g
  BY <1>4, UuidAssumption
<1>6. ASSUME NEW s \in Slots PROVE ~Remembers(s, t, g)
  <2>1. OfSlot(s) # g
    BY <1>5, UuidAssumption
  <2>2. CASE Is(s, "edit")
    BY <2>1, <2>2 DEF Remembers, Is
  <2>3. CASE OnHost(s)
    <3>1. ~Is(s, "edit")
      BY <2>3 DEF OnHost, Is
    <3>2. [tag |-> t, uuid |-> g] \in Ref
      BY DEF Ref
    <3>3. [tag |-> t, uuid |-> g] # None /\ [tag |-> t, uuid |-> g].uuid = g
      BY <3>2, ProfileAssumption
    <3>. QED
      BY <2>1, <2>3, <3>1, <3>3 DEF Remembers, OnHost
  <2>. QED
    BY <2>2, <2>3 DEF Remembers, Is, OnHost
<1>7. rows[t] # None => rows[t].uuid # g
  <2>1. OfRow # g
    BY <1>5
  <2>. QED
    BY <2>1
<1>8. \E u \in Uuids : /\ \A s \in Slots : ~Remembers(s, t, u)
                       /\ rows[t] # None => rows[t].uuid # u
  BY <1>6, <1>7
<1>. QED
  BY <1>8 DEF Fresh

-----------------------------------------------------------------------------
(* What a step does to the rows: each goes, keeps its uuid, profile and type, *)
(* or is one nobody knows.                                                  *)

Akin(t, row) ==
    \/ /\ rows[t] # None /\ row.uuid = rows[t].uuid
       /\ row.profile = rows[t].profile /\ row.type = rows[t].type
    \/ row.uuid = Fresh(t)
Kin(new) == new \in Rows /\ \A t \in Tags : new[t] # None => Akin(t, new[t])

(* The rows of other profiles are left alone, and no profile gets any but p. *)
Local(p, new) ==
    \A t \in Tags :
        /\ new[t] # None /\ new[t].profile # p => rows[t] # None /\ rows[t].profile = new[t].profile
        /\ rows[t] # None /\ rows[t].profile # p => new[t] = rows[t]

LEMMA RowTypes ==
    ASSUME TypeOK
    PROVE  /\ \A t \in Tags : rows[t] # None => rows[t] \in Row
           /\ \A p \in Profiles : RowsOf(p) \in Rows /\ TrueRead(p, RowsOf(p))
BY DEF TypeOK, Rows, RowsOf, TrueRead, Still

LEMMA InsertedRow ==
    ASSUME TypeOK, NEW p \in Profiles, NEW t \in Tags, NEW inbound \in Inbound
    PROVE  /\ Inserted(p, t, inbound) \in Row
           /\ Inserted(p, t, inbound) # None
           /\ Inserted(p, t, inbound).uuid = Fresh(t)
           /\ Inserted(p, t, inbound).profile = p
           /\ Inserted(p, t, inbound).type = inbound.type
           /\ Inserted(p, t, inbound).raw = inbound.raw
<1>1. Inserted(p, t, inbound) \in Row
  BY FreshUuid DEF Inserted, Row, Inbound
<1>. QED
  BY <1>1, ProfileAssumption DEF Inserted

LEMMA WithoutRows ==
    ASSUME TypeOK, NEW p \in Profiles, NEW read \in Rows, TrueRead(p, read),
           NEW gone \in SUBSET {t \in Tags : read[t] # None}
    PROVE  Kin(Without(read, gone)) /\ Local(p, Without(read, gone))
<1>. DEFINE new == Without(read, gone)
<1>1. new \in Rows
  BY DEF TypeOK, Rows, Without
<1>2. \A t \in Tags : new[t] = rows[t] \/ (new[t] = None /\ t \in gone /\ Still(read, t))
  BY DEF Without
<1>3. \A t \in Tags : t \in gone /\ Still(read, t) => rows[t].profile = p
  BY DEF TrueRead
<1>4. Kin(new)
  BY <1>1, <1>2 DEF Kin, Akin
<1>5. Local(p, new)
  BY <1>2, <1>3 DEF Local
<1>. QED
  BY <1>4, <1>5

(* A transaction that does not collide leaves each row as it was, writes it, *)
(* removes it, or inserts it where there is none or its own.                 *)
LEMMA SyncedRow ==
    ASSUME TypeOK, NEW p \in Profiles, NEW read \in Rows, NEW want \in Config,
           TrueRead(p, read), ~Collides(read, want), NEW t \in Tags
    PROVE  LET new == Synced(p, read, want)
           IN \/ /\ t \in Added(read, want)
                 /\ new[t] = Inserted(p, t, want[t])
                 /\ rows[t] # None => /\ rows[t].profile = p
                                      /\ t \in Removed(read, want) /\ Still(read, t)
              \/ /\ t \in Updated(read, want) \ Added(read, want)
                 /\ rows[t] # None /\ rows[t].profile = p
                 /\ new[t] = [rows[t] EXCEPT !.raw = want[t].raw]
              \/ /\ t \notin Added(read, want) \cup Updated(read, want)
                 /\ \/ new[t] = None /\ t \in Removed(read, want) /\ Still(read, t)
                       /\ rows[t].profile = p
                    \/ new[t] = rows[t] /\ ~(t \in Removed(read, want) /\ Still(read, t))
<1>. DEFINE new == Synced(p, read, want)
<1>1. t \in Removed(read, want) => read[t] # None
  BY DEF Removed
<1>2. t \in Removed(read, want) /\ Still(read, t) => rows[t] # None /\ rows[t].profile = p
  BY <1>1 DEF TrueRead, Still
<1>3. CASE t \in Added(read, want)
  BY <1>2, <1>3 DEF Synced, Collides
<1>4. CASE t \in Updated(read, want) \ Added(read, want)
  <2>1. read[t] # None /\ Still(read, t)
    BY <1>4 DEF Collides, Updated, Changed, Fits
  <2>2. rows[t] # None /\ rows[t].profile = p
    BY <2>1 DEF TrueRead, Still
  <2>. QED
    BY <1>4, <2>2 DEF Synced
<1>5. CASE t \notin Added(read, want) \cup Updated(read, want)
  BY <1>2, <1>5 DEF Synced, Without
<1>. QED
  BY <1>3, <1>4, <1>5

LEMMA AddedInbound ==
    ASSUME NEW read, NEW want \in Config, NEW t \in Added(read, want)
    PROVE  want[t] \in Inbound
BY DEF Added, Config

LEMMA ChangedInbound ==
    ASSUME NEW read, NEW want \in Config, NEW t \in Updated(read, want)
    PROVE  want[t] \in Inbound /\ want[t] # None
BY DEF Updated, Changed, Fits, Config

LEMMA SyncedRows ==
    ASSUME TypeOK, NEW p \in Profiles, NEW read \in Rows, NEW want \in Config,
           TrueRead(p, read), ~Collides(read, want)
    PROVE  Kin(Synced(p, read, want)) /\ Local(p, Synced(p, read, want))
<1>. DEFINE new == Synced(p, read, want)
<1>1. ASSUME NEW t \in Tags
      PROVE  /\ new[t] \in Row \cup {None}
             /\ new[t] # None => Akin(t, new[t])
             /\ new[t] # None /\ new[t].profile # p => rows[t] # None /\ rows[t].profile = new[t].profile
             /\ rows[t] # None /\ rows[t].profile # p => new[t] = rows[t]
  <2>1. CASE t \in Added(read, want) /\ new[t] = Inserted(p, t, want[t])
             /\ (rows[t] # None => rows[t].profile = p)
    BY <2>1, AddedInbound, InsertedRow DEF Akin
  <2>2. CASE /\ t \in Updated(read, want) /\ rows[t] # None /\ rows[t].profile = p
             /\ new[t] = [rows[t] EXCEPT !.raw = want[t].raw]
    <3>1. rows[t] \in Row /\ want[t].raw \in Raws
      BY <2>2, RowTypes, ChangedInbound DEF Inbound
    <3>. QED
      BY <2>2, <3>1 DEF Akin, Row
  <2>3. CASE new[t] = None /\ rows[t].profile = p
    BY <2>3
  <2>4. CASE new[t] = rows[t]
    BY <2>4, RowTypes DEF Akin
  <2>. HIDE DEF new
  <2>. QED
    BY <2>1, <2>2, <2>3, <2>4, SyncedRow DEF new
<1>2. new \in Rows
  BY <1>1 DEF Rows, Synced
<1>. QED
  BY <1>1, <1>2 DEF Kin, Local

(* A request that goes on as it was has nothing to fear from such a step.    *)
LEMMA KinSane ==
    ASSUME TypeOK, Kin(rows'), NEW s \in Slots, Sane(s), slot'[s] \in {slot[s], None}
    PROVE  Sane(s)'
<1>1. CASE slot'[s] = None
  BY <1>1 DEF Sane, Is, OnHost
<1>2. CASE slot'[s] = slot[s] /\ Is(s, "edit")
  <2>1. ASSUME NEW t \in Tags, slot[s].read[t] # None
        PROVE  /\ slot[s].read[t].profile = slot[s].profile
               /\ Still(slot[s].read, t)' =>
                    rows'[t].profile = slot[s].profile /\ rows'[t].type = slot[s].read[t].type
    <3>1. slot[s].read[t].profile = slot[s].profile
          /\ (Still(slot[s].read, t) =>
                rows[t].profile = slot[s].profile /\ rows[t].type = slot[s].read[t].type)
      BY <1>2, <2>1 DEF Sane, TrueRead
    <3>2. CASE Still(slot[s].read, t)'
      <4>1. rows'[t] # None /\ rows'[t].uuid = slot[s].read[t].uuid
        BY <3>2, <1>2 DEF Still
      <4>2. rows'[t].uuid # Fresh(t)
        BY <4>1, <2>1, <1>2, FreshUuid DEF Remembers, Is
      <4>3. rows[t] # None /\ rows'[t].uuid = rows[t].uuid
            /\ rows'[t].profile = rows[t].profile /\ rows'[t].type = rows[t].type
        BY <4>1, <4>2 DEF Kin, Akin
      <4>. QED
        BY <4>1, <4>3, <3>1 DEF Still
    <3>. QED
      BY <3>1, <3>2
  <2>2. Is(s, "edit")' /\ ~OnHost(s)'
    BY <1>2 DEF Is, OnHost
  <2>. QED
    BY <2>1, <2>2, <1>2 DEF Sane, TrueRead
<1>3. CASE slot'[s] = slot[s] /\ OnHost(s)
  <2>1. Planned(slot[s]) /\ TrueChoice(slot[s]) /\ slot[s] \in HostRequest
    BY <1>3, SlotTypes DEF Sane
  <2>2. ASSUME slot[s].inbound # None, RowOf(slot[s].inbound)' # None
        PROVE  RowOf(slot[s].inbound)'.profile = slot[s].profile
    <3>. DEFINE r == slot[s].inbound
                t == r.tag
    <3>1. r \in Ref /\ t \in Tags /\ r = [tag |-> t, uuid |-> r.uuid]
      BY <2>1, <2>2 DEF HostRequest, Ref
    <3>2. rows'[t] # None /\ rows'[t].uuid = r.uuid
          /\ RowOf(r)' = rows'[t]
      BY <2>2, <1>3 DEF RowOf
    <3>3. rows'[t].uuid # Fresh(t)
      BY <3>1, <3>2, <1>3, FreshUuid DEF Remembers, OnHost
    <3>4. rows[t] # None /\ rows'[t].uuid = rows[t].uuid /\ rows'[t].profile = rows[t].profile
      BY <3>1, <3>2, <3>3 DEF Kin, Akin
    <3>5. RowOf(r) = rows[t]
      BY <3>2, <3>4 DEF RowOf
    <3>. QED
      BY <3>2, <3>4, <3>5, <2>1, <2>2, <1>3 DEF TrueChoice
  <2>3. OnHost(s)' /\ ~Is(s, "edit")'
    BY <1>3 DEF Is, OnHost
  <2>4. TrueChoice(slot[s])'
    BY <2>1, <2>2, <1>3 DEF TrueChoice
  <2>5. Planned(slot[s])'
    BY <2>1, <1>3 DEF Planned, CreatePlanned, UpdatePlanned, AssignPlanned
  <2>. QED
    BY <2>3, <2>4, <2>5, <1>3 DEF Sane
<1>4. CASE slot'[s] = slot[s] /\ ~Is(s, "edit") /\ ~OnHost(s)
  BY <1>4 DEF Sane, Is, OnHost
<1>. QED
  BY <1>1, <1>2, <1>3, <1>4

(* The foreign keys of a host lead to a row of its profile, or nowhere.      *)
LEMMA DetachedHost ==
    ASSUME TypeOK, Kin(rows'), NEW live \in SUBSET Profiles,
           \A t \in Tags : rows'[t] # None => rows'[t].profile \in live,
           host' = Detached(rows', live), NEW h \in Hosts
    PROVE  /\ host'[h] \in Host \cup {None}
           /\ host'[h] # None <=> host[h] # None
           /\ host'[h] # None =>
                /\ Refers(host[h])'
                /\ \A l \in Lists : host'[h][l] = host[h][l]
                /\ host'[h].inbound = None /\ host[h].inbound # None =>
                     LET t == host[h].inbound.tag
                     IN ~(rows'[t] # None /\ rows'[t].uuid = host[h].inbound.uuid)
<1>1. CASE host[h] = None
  BY <1>1 DEF Detached
<1>2. CASE host[h] # None
  <2>1. PICK o : o = host[h]
    OBVIOUS
  <2>. DEFINE there == /\ o.inbound # None /\ rows'[o.inbound.tag] # None
                       /\ rows'[o.inbound.tag].uuid = o.inbound.uuid
  <2>2. PICK new : new = [o EXCEPT !.inbound = IF there THEN o.inbound ELSE None,
                                   !.profile = IF o.profile \in live THEN o.profile ELSE None]
    OBVIOUS
  <2>3. o \in Host /\ Refers(o)
    BY <1>2, <2>1 DEF TypeOK, Refers
  <2>4. host'[h] = new
    BY <1>2, <2>1, <2>2 DEF Detached
  <2>5. /\ new \in Host /\ new.inbound = (IF there THEN o.inbound ELSE None)
        /\ new.profile = (IF o.profile \in live THEN o.profile ELSE None)
        /\ new.nodes = o.nodes /\ new.excluded = o.excluded
    BY <2>2, <2>3 DEF Host
  <2>6. ASSUME there
        PROVE  new.inbound = o.inbound /\ new.profile = rows'[o.inbound.tag].profile
    <3>1. PICK t : t = o.inbound.tag
      OBVIOUS
    <3>2. t \in Tags /\ rows'[t] # None /\ rows'[t].uuid = o.inbound.uuid /\ o.inbound # None
      BY <2>3, <2>6, <3>1 DEF Host, Ref
    <3>3. rows[t] # None /\ rows[t].uuid = o.inbound.uuid /\ o.profile = rows[t].profile
      BY <2>3, <3>1, <3>2 DEF Refers, RowOf
    <3>4. rows'[t].uuid # Fresh(t)
      BY <3>2, <3>3, FreshUuid
    <3>5. rows'[t].profile = rows[t].profile
      BY <3>2, <3>4 DEF Kin, Akin
    <3>. QED
      BY <2>5, <2>6, <3>1, <3>2, <3>3, <3>5
  <2>7. Refers(host[h])'
    BY <2>4, <2>5, <2>6 DEF Refers, RowOf
  <2>8. new # None /\ \A l \in Lists : new[l] = o[l]
    BY <2>5, ProfileAssumption DEF Lists
  <2>9. new.inbound = None /\ o.inbound # None =>
            ~(rows'[o.inbound.tag] # None /\ rows'[o.inbound.tag].uuid = o.inbound.uuid)
    BY <2>5
  <2>. QED
    BY <1>2, <2>1, <2>4, <2>5, <2>7, <2>8, <2>9
<1>. QED
  BY <1>1, <1>2

-----------------------------------------------------------------------------
(* The plans of requests about hosts.                                       *)

LEMMA Joins ==
    ASSUME NEW a, NEW b, NEW c, NEW d
    PROVE  /\ <<a>> \o <<b>> = <<a, b>>
           /\ <<a, b>> \o <<c>> = <<a, b, c>>
           /\ <<a, b>> \o <<c, d>> = <<a, b, c, d>>
           /\ \A seq \in {<<>>, <<a>>, <<a, b>>} : seq \o <<>> = seq /\ <<>> \o seq = seq
<1>. DEFINE S == {a, b, c, d}
<1>1. <<a>> \o <<b>> = <<a, b>>
  <2>1. <<a>> \in Seq(S) /\ <<b>> \in Seq(S) /\ <<a, b>> \in Seq(S)
    OBVIOUS
  <2>2. <<a>> \o <<b>> \in Seq(S) /\ Len(<<a>> \o <<b>>) = 2
    BY <2>1
  <2>3. \A i \in 1..2 : (<<a>> \o <<b>>)[i] = <<a, b>>[i]
    BY <2>1
  <2>. QED
    BY <2>1, <2>2, <2>3, SeqEqual
<1>2. <<a, b>> \o <<c>> = <<a, b, c>>
  <2>1. <<a, b>> \in Seq(S) /\ <<c>> \in Seq(S) /\ <<a, b, c>> \in Seq(S)
    OBVIOUS
  <2>2. <<a, b>> \o <<c>> \in Seq(S) /\ Len(<<a, b>> \o <<c>>) = 3
    BY <2>1
  <2>3. \A i \in 1..3 : (<<a, b>> \o <<c>>)[i] = <<a, b, c>>[i]
    BY <2>1
  <2>. QED
    BY <2>1, <2>2, <2>3, SeqEqual
<1>3. <<a, b>> \o <<c, d>> = <<a, b, c, d>>
  <2>1. <<a, b>> \in Seq(S) /\ <<c, d>> \in Seq(S) /\ <<a, b, c, d>> \in Seq(S)
    OBVIOUS
  <2>2. <<a, b>> \o <<c, d>> \in Seq(S) /\ Len(<<a, b>> \o <<c, d>>) = 4
    BY <2>1
  <2>3. \A i \in 1..4 : (<<a, b>> \o <<c, d>>)[i] = <<a, b, c, d>>[i]
    BY <2>1
  <2>. QED
    BY <2>1, <2>2, <2>3, SeqEqual
<1>4. \A seq \in {<<>>, <<a>>, <<a, b>>} : seq \o <<>> = seq /\ <<>> \o seq = seq
  <2>1. <<>> \in Seq(S) /\ <<a>> \in Seq(S) /\ <<a, b>> \in Seq(S)
    OBVIOUS
  <2>. QED
    BY <2>1, ConcatEmptySeq
<1>. QED
  BY <1>1, <1>2, <1>3, <1>4

LEMMA JoinLast ==
    ASSUME NEW a, NEW b, NEW c, NEW d, NEW e
    PROVE  <<a, b, c, d>> \o <<e>> = <<a, b, c, d, e>>
<1>. DEFINE S == {a, b, c, d, e}
<1>1. <<a, b, c, d>> \in Seq(S) /\ <<e>> \in Seq(S) /\ <<a, b, c, d, e>> \in Seq(S)
  OBVIOUS
<1>2. <<a, b, c, d>> \o <<e>> \in Seq(S) /\ Len(<<a, b, c, d>> \o <<e>>) = 5
  BY <1>1
<1>3. \A i \in 1..5 : (<<a, b, c, d>> \o <<e>>)[i] = <<a, b, c, d, e>>[i]
  BY <1>1
<1>. QED
  BY <1>1, <1>2, <1>3, SeqEqual

LEMMA Tuples ==
    ASSUME NEW a, NEW b, NEW c, NEW d, NEW e, NEW X
    PROVE  /\ Len(<<a>>) = 1 /\ Head(<<a>>) = a
           /\ Len(<<a, b>>) = 2 /\ Head(<<a, b>>) = a /\ Tail(<<a, b>>) = <<b>>
           /\ Len(<<a, b, c>>) = 3 /\ Head(<<a, b, c>>) = a /\ Tail(<<a, b, c>>) = <<b, c>>
           /\ Len(<<a, b, c, d>>) = 4 /\ Head(<<a, b, c, d>>) = a
              /\ Tail(<<a, b, c, d>>) = <<b, c, d>>
           /\ Len(<<a, b, c, d, e>>) = 5 /\ Head(<<a, b, c, d, e>>) = a
              /\ Tail(<<a, b, c, d, e>>) = <<b, c, d, e>>
           /\ (\E i \in DOMAIN <<a>> : <<a>>[i] \in X) <=> a \in X
           /\ (\E i \in DOMAIN <<a, b>> : <<a, b>>[i] \in X) <=> (a \in X \/ b \in X)
           /\ (\E i \in DOMAIN <<a, b, c>> : <<a, b, c>>[i] \in X)
                 <=> (a \in X \/ b \in X \/ c \in X)
           /\ (\E i \in DOMAIN <<a, b, c, d>> : <<a, b, c, d>>[i] \in X)
                 <=> (a \in X \/ b \in X \/ c \in X \/ d \in X)
           /\ (\E i \in DOMAIN <<a, b, c, d, e>> : <<a, b, c, d, e>>[i] \in X)
                 <=> (a \in X \/ b \in X \/ c \in X \/ d \in X \/ e \in X)
<1>1. /\ Len(<<a>>) = 1 /\ Head(<<a>>) = a
      /\ Len(<<a, b>>) = 2 /\ Head(<<a, b>>) = a /\ Tail(<<a, b>>) = <<b>>
      /\ Len(<<a, b, c>>) = 3 /\ Head(<<a, b, c>>) = a /\ Tail(<<a, b, c>>) = <<b, c>>
      /\ Len(<<a, b, c, d>>) = 4 /\ Head(<<a, b, c, d>>) = a
         /\ Tail(<<a, b, c, d>>) = <<b, c, d>>
      /\ Len(<<a, b, c, d, e>>) = 5 /\ Head(<<a, b, c, d, e>>) = a
         /\ Tail(<<a, b, c, d, e>>) = <<b, c, d, e>>
  OBVIOUS
<1>2. /\ (\E i \in DOMAIN <<a>> : <<a>>[i] \in X) <=> a \in X
      /\ (\E i \in DOMAIN <<a, b>> : <<a, b>>[i] \in X) <=> (a \in X \/ b \in X)
      /\ (\E i \in DOMAIN <<a, b, c>> : <<a, b, c>>[i] \in X)
            <=> (a \in X \/ b \in X \/ c \in X)
  OBVIOUS
<1>3. (\E i \in DOMAIN <<a, b, c, d>> : <<a, b, c, d>>[i] \in X)
        <=> (a \in X \/ b \in X \/ c \in X \/ d \in X)
  OBVIOUS
<1>4. (\E i \in DOMAIN <<a, b, c, d, e>> : <<a, b, c, d, e>>[i] \in X)
        <=> (a \in X \/ b \in X \/ c \in X \/ d \in X \/ e \in X)
  OBVIOUS
<1>. QED
  BY <1>1, <1>2, <1>3, <1>4

LEMMA Steps ==
    /\ \A l \in Lists : Clear(l) \in Step /\ Add(l) \in Step
    /\ WriteRow \in Step
    /\ \A l, m \in Lists :
         /\ WriteRow \notin {Clear(l), Add(l)}
         /\ Clear(l) \in {Clear(m), Add(m)} <=> l = m
         /\ Add(l) \in {Clear(m), Add(m)} <=> l = m
         /\ Clear(l) # Add(m) /\ Clear(l) # WriteRow /\ Add(l) # WriteRow
BY DEF Step, Clear, Add, WriteRow, Lists

LEMMA PlanTypes ==
    \A todo \in CreatePlans \cup UpdatePlans : todo \in Seq(Step)
<1>1. ASSUME NEW a \in Step, NEW b \in Step, NEW c \in Step, NEW d \in Step, NEW e \in Step
      PROVE  /\ <<a>> \in Seq(Step) /\ <<a, b>> \in Seq(Step) /\ <<a, b, c>> \in Seq(Step)
             /\ <<a, b, c, d>> \in Seq(Step) /\ <<a, b, c, d, e>> \in Seq(Step)
  OBVIOUS
<1>2. "nodes" \in Lists /\ "excluded" \in Lists
  BY DEF Lists
<1>3. /\ Clear("nodes") \in Step /\ Add("nodes") \in Step
      /\ Clear("excluded") \in Step /\ Add("excluded") \in Step /\ WriteRow \in Step
  BY <1>2, Steps
<1>4. \A todo \in CreatePlans : todo \in Seq(Step)
  BY <1>1, <1>3 DEF CreatePlans
<1>5. \A todo \in UpdatePlans : todo \in Seq(Step)
  <2>1. PICK a \in Step, b \in Step, c \in Step, d \in Step, w \in Step :
          /\ a = Clear("nodes") /\ b = Add("nodes")
          /\ c = Clear("excluded") /\ d = Add("excluded") /\ w = WriteRow
    BY <1>3
  <2>2. UpdatePlans = {<<a, b, c, d, w>>, <<b, c, d, w>>, <<c, d, w>>, <<d, w>>, <<a, b, w>>,
                       <<b, w>>, <<w>>}
    BY <2>1 DEF UpdatePlans
  <2>3. <<a, b, c, d, w>> \in Seq(Step) /\ <<b, c, d, w>> \in Seq(Step)
    OBVIOUS
  <2>4. <<c, d, w>> \in Seq(Step) /\ <<a, b, w>> \in Seq(Step)
    OBVIOUS
  <2>5. <<d, w>> \in Seq(Step) /\ <<b, w>> \in Seq(Step) /\ <<w>> \in Seq(Step)
    OBVIOUS
  <2>. QED
    BY <2>2, <2>3, <2>4, <2>5, Zenon
<1>. QED
  BY <1>4, <1>5

(* The plans one by one: the lists they name.                                *)
LEMMA CreateTable ==
    ASSUME NEW l \in Lists
    PROVE  /\ Names(<<WriteRow, Add("nodes"), Add("excluded")>>, l)
           /\ Names(<<WriteRow, Add("nodes")>>, l) <=> l = "nodes"
           /\ Names(<<WriteRow, Add("excluded")>>, l) <=> l = "excluded"
           /\ ~Names(<<WriteRow>>, l)
<1>1. PICK a, b, w : a = Add("nodes") /\ b = Add("excluded") /\ w = WriteRow
  OBVIOUS
<1>2. PICK X : X = {Clear(l), Add(l)}
  OBVIOUS
<1>3. (a \in X <=> l = "nodes") /\ (b \in X <=> l = "excluded") /\ w \notin X
      /\ (l = "nodes" \/ l = "excluded")
  BY <1>1, <1>2, Steps DEF Lists
<1>4. /\ \E i \in DOMAIN <<w, a, b>> : <<w, a, b>>[i] \in X
      /\ (\E i \in DOMAIN <<w, a>> : <<w, a>>[i] \in X) <=> l = "nodes"
      /\ (\E i \in DOMAIN <<w, b>> : <<w, b>>[i] \in X) <=> l = "excluded"
      /\ ~\E i \in DOMAIN <<w>> : <<w>>[i] \in X
  BY <1>3, Tuples
<1>. QED
  BY <1>1, <1>2, <1>4 DEF Names

LEMMA UpdateTable ==
    ASSUME NEW l \in Lists
    PROVE  /\ Names(<<Clear("nodes"), Add("nodes"), WriteRow>>, l) <=> l = "nodes"
           /\ Names(<<Clear("excluded"), Add("excluded"), WriteRow>>, l) <=> l = "excluded"
<1>1. PICK a, b, c, d, w : /\ a = Clear("nodes") /\ b = Add("nodes")
                           /\ c = Clear("excluded") /\ d = Add("excluded") /\ w = WriteRow
  OBVIOUS
<1>2. PICK X : X = {Clear(l), Add(l)}
  OBVIOUS
<1>3. /\ a \in X <=> l = "nodes"
      /\ b \in X <=> l = "nodes"
      /\ c \in X <=> l = "excluded"
      /\ d \in X <=> l = "excluded"
      /\ w \notin X
  BY <1>1, <1>2, Steps DEF Lists
<1>4. /\ (\E i \in DOMAIN <<a, b, w>> : <<a, b, w>>[i] \in X) <=> l = "nodes"
      /\ (\E i \in DOMAIN <<c, d, w>> : <<c, d, w>>[i] \in X) <=> l = "excluded"
  BY <1>3, Tuples
<1>. QED
  BY <1>1, <1>2, <1>4 DEF Names

LEMMA CreatePlan ==
    ASSUME NEW want \in [Lists -> SUBSET Items],
           NEW todo, todo = <<WriteRow>> \o If(want["nodes"] # {}, <<Add("nodes")>>)
                                \o If(want["excluded"] # {}, <<Add("excluded")>>)
    PROVE  /\ todo \in CreatePlans /\ Head(todo) = WriteRow
           /\ \A l \in Lists : want[l] # {} => Names(todo, l)
<1>1. CASE want["nodes"] # {} /\ want["excluded"] # {}
  <2>1. todo = <<WriteRow, Add("nodes"), Add("excluded")>>
    BY <1>1, Joins DEF If
  <2>2. todo \in CreatePlans
    BY <2>1 DEF CreatePlans
  <2>3. Head(todo) = WriteRow
    BY <2>1, Tuples
  <2>4. \A l \in Lists : Names(todo, l)
    BY <2>1, CreateTable
  <2>. QED
    BY <2>2, <2>3, <2>4
<1>2. CASE want["nodes"] # {} /\ want["excluded"] = {}
  <2>1. todo = <<WriteRow, Add("nodes")>>
    BY <1>2, Joins DEF If
  <2>2. todo \in CreatePlans
    BY <2>1 DEF CreatePlans
  <2>3. Head(todo) = WriteRow
    BY <2>1, Tuples
  <2>4. \A l \in Lists : l = "nodes" => Names(todo, l)
    BY <2>1, CreateTable
  <2>. QED
    BY <1>2, <2>2, <2>3, <2>4 DEF Lists
<1>3. CASE want["nodes"] = {} /\ want["excluded"] # {}
  <2>1. todo = <<WriteRow, Add("excluded")>>
    BY <1>3, Joins DEF If
  <2>2. todo \in CreatePlans
    BY <2>1 DEF CreatePlans
  <2>3. Head(todo) = WriteRow
    BY <2>1, Tuples
  <2>4. \A l \in Lists : l = "excluded" => Names(todo, l)
    BY <2>1, CreateTable
  <2>. QED
    BY <1>3, <2>2, <2>3, <2>4 DEF Lists
<1>4. CASE want["nodes"] = {} /\ want["excluded"] = {}
  <2>1. todo = <<WriteRow>>
    BY <1>4, Joins DEF If
  <2>2. todo \in CreatePlans
    BY <2>1 DEF CreatePlans
  <2>3. Head(todo) = WriteRow
    BY <2>1, Tuples
  <2>. QED
    BY <1>4, <2>2, <2>3 DEF Lists
<1>. QED
  BY <1>1, <1>2, <1>3, <1>4

LEMMA UpdatePlan ==
    ASSUME NEW want \in [Lists -> (SUBSET Items) \cup {None}],
           NEW todo, todo = Replace(want, "nodes") \o Replace(want, "excluded") \o <<WriteRow>>
    PROVE  /\ todo \in UpdatePlans
           /\ \A l \in Lists : Names(todo, l) => want[l] # None
           /\ \A l \in Lists : Head(todo) # Add(l)
<1>1. CASE want["nodes"] # None /\ want["excluded"] # None
  <2>1. PICK a, b, c, d, w : /\ a = Clear("nodes") /\ b = Add("nodes")
                             /\ c = Clear("excluded") /\ d = Add("excluded") /\ w = WriteRow
    OBVIOUS
  <2>2. todo = (<<a, b>> \o <<c, d>>) \o <<w>>
    BY <1>1, <2>1 DEF If, Replace
  <2>3. todo = <<a, b, c, d, w>>
    <3>1. <<a, b>> \o <<c, d>> = <<a, b, c, d>>
      BY Joins, Zenon
    <3>2. <<a, b, c, d>> \o <<w>> = <<a, b, c, d, w>>
      BY JoinLast, Zenon
    <3>. QED
      BY <2>2, <3>1, <3>2, Zenon
  <2>4. todo \in UpdatePlans
    BY <2>1, <2>3 DEF UpdatePlans
  <2>5. Head(todo) = Clear("nodes")
    BY <2>1, <2>3, Tuples
  <2>. QED
    BY <1>1, <2>4, <2>5, Steps DEF Lists
<1>2. CASE want["nodes"] # None /\ want["excluded"] = None
  <2>1. todo = <<Clear("nodes"), Add("nodes"), WriteRow>>
    BY <1>2, Joins DEF If, Replace
  <2>2. todo \in UpdatePlans
    BY <2>1 DEF UpdatePlans
  <2>3. \A l \in Lists : Names(todo, l) => l = "nodes"
    BY <2>1, UpdateTable
  <2>4. Head(todo) = Clear("nodes")
    BY <2>1, Tuples
  <2>. QED
    BY <1>2, <2>2, <2>3, <2>4, Steps DEF Lists
<1>3. CASE want["nodes"] = None /\ want["excluded"] # None
  <2>1. todo = <<Clear("excluded"), Add("excluded"), WriteRow>>
    BY <1>3, Joins DEF If, Replace
  <2>2. todo \in UpdatePlans
    BY <2>1 DEF UpdatePlans
  <2>3. \A l \in Lists : Names(todo, l) => l = "excluded"
    BY <2>1, UpdateTable
  <2>4. Head(todo) = Clear("excluded")
    BY <2>1, Tuples
  <2>. QED
    BY <1>3, <2>2, <2>3, <2>4, Steps DEF Lists
<1>4. CASE want["nodes"] = None /\ want["excluded"] = None
  <2>1. todo = <<WriteRow>>
    BY <1>4, Joins DEF If, Replace
  <2>2. todo \in UpdatePlans
    BY <2>1 DEF UpdatePlans
  <2>3. \A l \in Lists : ~Names(todo, l)
    BY <2>1, CreateTable
  <2>4. Head(todo) = WriteRow
    BY <2>1, Tuples
  <2>. QED
    BY <2>2, <2>3, <2>4, Steps
<1>. QED
  BY <1>1, <1>2, <1>3, <1>4

(* Whoever has done a statement goes on with the rest of its plan.           *)
LEMMA PlanTail ==
    ASSUME NEW todo \in CreatePlans \cup UpdatePlans, Len(todo) # 1
    PROVE  /\ todo \in CreatePlans => Tail(todo) \in CreatePlans /\ Head(Tail(todo)) # WriteRow
           /\ todo \in UpdatePlans => Tail(todo) \in UpdatePlans
           /\ \A l \in Lists : Names(Tail(todo), l) => Names(todo, l)
<1>1. PICK a, b, c, d, w : /\ a = Clear("nodes") /\ b = Add("nodes")
                           /\ c = Clear("excluded") /\ d = Add("excluded") /\ w = WriteRow
  OBVIOUS
<1>2. PICK C : C = {<<w, b, d>>, <<w, b>>, <<w, d>>, <<w>>, <<b, d>>, <<b>>, <<d>>}
  OBVIOUS
<1>3. PICK U : U = {<<a, b, c, d, w>>, <<b, c, d, w>>, <<c, d, w>>, <<d, w>>, <<a, b, w>>,
                    <<b, w>>, <<w>>}
  OBVIOUS
<1>4. CreatePlans = C /\ UpdatePlans = U
  BY <1>1, <1>2, <1>3 DEF CreatePlans, UpdatePlans
<1>5. b # w /\ d # w
  BY <1>1, Steps DEF Lists
<1>6. ASSUME todo \in C PROVE Tail(todo) \in C /\ Head(Tail(todo)) # w
  <2>1. todo = <<w, b, d>> \/ todo = <<w, b>> \/ todo = <<w, d>> \/ todo = <<b, d>>
    BY <1>2, <1>6, Tuples
  <2>2. CASE todo = <<w, b, d>>
    BY <1>2, <1>5, <2>2, Tuples
  <2>3. CASE todo = <<w, b>>
    BY <1>2, <1>5, <2>3, Tuples
  <2>4. CASE todo = <<w, d>>
    BY <1>2, <1>5, <2>4, Tuples
  <2>5. CASE todo = <<b, d>>
    BY <1>2, <1>5, <2>5, Tuples
  <2>. QED
    BY <2>1, <2>2, <2>3, <2>4, <2>5
<1>7. ASSUME todo \in U PROVE Tail(todo) \in U
  <2>1. todo # <<w>>
    BY Tuples
  <2>2. CASE todo = <<a, b, c, d, w>>
    BY <1>3, <2>2, Tuples
  <2>3. CASE todo = <<b, c, d, w>>
    BY <1>3, <2>3, Tuples
  <2>4. CASE todo = <<c, d, w>> \/ todo = <<a, b, w>>
    <3>1. Tail(<<c, d, w>>) = <<d, w>> /\ Tail(<<a, b, w>>) = <<b, w>>
      BY Tuples
    <3>. QED
      BY <1>3, <2>4, <3>1, Zenon
  <2>5. CASE todo = <<d, w>> \/ todo = <<b, w>>
    <3>1. Tail(<<d, w>>) = <<w>> /\ Tail(<<b, w>>) = <<w>>
      BY Tuples
    <3>. QED
      BY <1>3, <2>5, <3>1, Zenon
  <2>. QED
    BY <1>3, <1>7, <2>1, <2>2, <2>3, <2>4, <2>5
<1>8. ASSUME NEW i \in DOMAIN Tail(todo)
      PROVE  i + 1 \in DOMAIN todo /\ todo[i + 1] = Tail(todo)[i]
  <2>1. todo \in Seq(Step)
    BY PlanTypes
  <2>2. todo # <<>>
    BY Tuples DEF CreatePlans, UpdatePlans
  <2>. QED
    BY <2>1, <2>2
<1>9. \A l \in Lists : Names(Tail(todo), l) => Names(todo, l)
  BY <1>8 DEF Names
<1>. QED
  BY <1>1, <1>4, <1>6, <1>7, <1>9

-----------------------------------------------------------------------------
(* Ground holds at first.                                                   *)

LEMMA InitGround == Init => Ground
<1>. SUFFICES ASSUME Init PROVE Ground
  OBVIOUS
<1>1. PICK p \in Profiles, t \in Tags, inbound \in Inbound :
        /\ config = [q \in Profiles |-> IF q = p THEN Only(t, inbound) ELSE None]
        /\ rows = Only(t, [uuid |-> CHOOSE g \in Uuids : TRUE, profile |-> p,
                           type |-> inbound.type, raw |-> inbound.raw])
  BY DEF Init
<1>2. PICK row : row = [uuid |-> CHOOSE g \in Uuids : TRUE, profile |-> p,
                        type |-> inbound.type, raw |-> inbound.raw]
  OBVIOUS
<1>3. row \in Row /\ row.profile = p
  BY <1>2, UuidAssumption DEF Row, Inbound
<1>4. Only(t, inbound) \in Config /\ Only(t, inbound) # None
  BY ProfileAssumption DEF Config, Only
<1>5. rows \in Rows
  BY <1>1, <1>2, <1>3 DEF Rows, Only
<1>6. Live = {p} /\ ProfilesOK
  BY <1>1, <1>4 DEF Init, Live, ProfilesOK
<1>7. TypeOK
  BY <1>5, <1>6 DEF Init, TypeOK, ProfilesOK
<1>8. RowsLive
  BY <1>1, <1>2, <1>3, <1>6 DEF RowsLive, Only
<1>9. AllSane /\ SeedAlone
  BY DEF Init, AllSane, Sane, Is, OnHost, SeedAlone
<1>. QED
  BY <1>7, <1>8, <1>9 DEF Ground

-----------------------------------------------------------------------------
(* How steps on slots and on rows keep Ground.                               *)

LEMMA SlotStep ==
    ASSUME TypeOK, NEW s \in Slots, NEW v \in Edit \cup HostRequest \cup {None},
           slot' = [slot EXCEPT ![s] = v]
    PROVE  SlotsOK' /\ slot'[s] = v /\ \A o \in Slots \ {s} : slot'[o] = slot[o]
BY DEF TypeOK, SlotsOK

LEMMA SameRows ==
    ASSUME TypeOK, UNCHANGED rows
    PROVE  Kin(rows')
BY DEF TypeOK, Kin, Akin

LEMMA OneSane ==
    ASSUME Ground, Kin(rows'), NEW s \in Slots, Sane(s)',
           \A o \in Slots \ {s} : slot'[o] = slot[o]
    PROVE  AllSane'
BY KinSane DEF Ground, AllSane

LEMMA NoneSane ==
    ASSUME NEW s \in Slots, slot'[s] = None
    PROVE  Sane(s)'
BY DEF Sane, Is, OnHost

LEMMA KeptRefs ==
    ASSUME Ground, UNCHANGED rows,
           \A h \in Hosts : host'[h] # None =>
                \/ host[h] # None /\ host'[h].inbound = host[h].inbound
                                  /\ host'[h].profile = host[h].profile
                \/ Refers(host[h])'
    PROVE  RefsOK'
<1>1. ASSUME NEW h \in Hosts, host[h] # None, host'[h].inbound = host[h].inbound,
             host'[h].profile = host[h].profile
      PROVE  Refers(host[h])'
  <2>1. Refers(host[h])
    BY <1>1, TypeParts DEF Ground, RefsOK
  <2>. QED
    BY <2>1, <1>1 DEF Refers, RowOf
<1>. QED
  BY <1>1 DEF RefsOK

LEMMA Counts ==
    ASSUME TypeOK
    PROVE  /\ Request /\ UNCHANGED mishaps => CountsOK'
           /\ Mishap /\ UNCHANGED requests => CountsOK'
           /\ UNCHANGED <<requests, mishaps>> => CountsOK'
BY DEF TypeOK, Request, Mishap, CountsOK

LEMMA KeptProfiles ==
    ASSUME TypeOK, UNCHANGED <<config, seeding, torn, mixed>>
    PROVE  ProfilesOK' /\ Live' = Live
BY DEF TypeOK, ProfilesOK, Live

(* A step that detaches hosts from the rows that go.                         *)
LEMMA DetachedGround ==
    ASSUME Ground, Kin(rows'), NEW live \in SUBSET Profiles, live \subseteq Live',
           \A t \in Tags : rows'[t] # None => rows'[t].profile \in live,
           host' = Detached(rows', live),
           \A s \in Slots : slot'[s] \in {slot[s], None}
    PROVE  rows' \in Rows /\ HostsOK' /\ RefsOK' /\ AllSane' /\ RowsLive'
<1>1. TypeOK
  BY DEF Ground
<1>2. \A h \in Hosts : host'[h] \in Host \cup {None} /\ (host'[h] # None => Refers(host[h])')
  BY <1>1, DetachedHost
<1>3. HostsOK'
  BY <1>2 DEF HostsOK, Detached
<1>4. AllSane'
  BY <1>1, KinSane DEF Ground, AllSane
<1>. QED
  BY <1>2, <1>3, <1>4 DEF Kin, RefsOK, RowsLive

-----------------------------------------------------------------------------
(* Ground: profiles.                                                        *)

LEMMA GroundParts ==
    ASSUME ProfilesOK', rows' \in Rows, HostsOK', RefsOK', SlotsOK', ListsOK', CountsOK',
           AllSane', RowsLive', SeedAlone'
    PROVE  Ground'
BY DEF Ground, TypeOK, ProfilesOK, HostsOK, RefsOK, Refers, SlotsOK, ListsOK, CountsOK

LEMMA LiveProfiles == TypeOK => Live \subseteq Profiles /\ \A p \in Live : config[p] \in Config
BY DEF Live, TypeOK

LEMMA CreateProfileGround ==
    ASSUME Ground, NEW p \in Profiles, CreateProfile(p)
    PROVE  Ground'
<1>1. TypeOK /\ RowsLive /\ SeedAlone /\ AllSane
  BY DEF Ground
<1>2. PICK want \in Config :
        /\ \A t \in Tags : want[t] # None => rows[t] = None
        /\ config' = [config EXCEPT ![p] = want]
        /\ rows' = [t \in Tags |-> IF want[t] # None THEN Inserted(p, t, want[t]) ELSE rows[t]]
  BY DEF CreateProfile
<1>3. want # None /\ \A t \in Tags : want[t] # None => want[t] \in Inbound
  BY ProfileAssumption DEF Config
<1>4. Live' = Live \cup {p} /\ ProfilesOK'
  BY <1>1, <1>2, <1>3 DEF CreateProfile, TypeOK, Live, ProfilesOK, histVars
<1>5. \A t \in Tags : /\ rows'[t] \in Row \cup {None}
                      /\ rows'[t] # None => Akin(t, rows'[t]) /\ rows'[t].profile \in Live'
                      /\ rows[t] # None => rows'[t] = rows[t]
  <2>1. SUFFICES ASSUME NEW t \in Tags
                 PROVE  /\ rows'[t] \in Row \cup {None}
                        /\ rows'[t] # None => Akin(t, rows'[t]) /\ rows'[t].profile \in Live'
                        /\ rows[t] # None => rows'[t] = rows[t]
    OBVIOUS
  <2>2. CASE want[t] # None
    BY <1>1, <1>2, <1>3, <1>4, <2>2, InsertedRow DEF Akin
  <2>3. CASE want[t] = None
    BY <1>1, <1>2, <1>4, <2>3, RowTypes DEF Akin, RowsLive
  <2>. QED
    BY <2>2, <2>3
<1>6. Kin(rows')
  BY <1>2, <1>5 DEF Kin, Rows
<1>7. AllSane'
  BY <1>1, <1>6, KinSane DEF AllSane, CreateProfile
<1>8. RefsOK'
  <2>1. ASSUME NEW h \in Hosts, host[h] # None, host[h].inbound # None
        PROVE  RowOf(host[h].inbound)' = RowOf(host[h].inbound)
    <3>1. host[h].inbound.tag \in Tags /\ rows[host[h].inbound.tag] # None
      BY <1>1, <2>1, TypeParts DEF TypeOK, Host, Ref, RefsOK, Refers, RowOf
    <3>2. rows'[host[h].inbound.tag] = rows[host[h].inbound.tag]
      BY <1>5, <3>1
    <3>. QED
      BY <3>2 DEF RowOf, CreateProfile
  <2>2. RefsOK /\ host' = host
    BY <1>1, TypeParts DEF CreateProfile
  <2>. QED
    BY <2>1, <2>2 DEF RefsOK, Refers
<1>9. HostsOK' /\ SlotsOK' /\ ListsOK' /\ CountsOK' /\ SeedAlone'
  BY <1>1, TypeParts, Counts DEF CreateProfile, HostsOK, SlotsOK, ListsOK, SeedAlone, histVars
<1>. QED
  BY <1>4, <1>5, <1>6, <1>7, <1>8, <1>9, GroundParts DEF Kin, RowsLive

LEMMA BeginEditGround ==
    ASSUME Ground, NEW s \in Slots, NEW p \in Profiles, BeginEdit(s, p)
    PROVE  Ground'
<1>1. TypeOK /\ RowsLive /\ SeedAlone /\ AllSane /\ seeding = {}
  BY DEF Ground, BeginEdit, Request
<1>2. PICK want \in Config :
        slot' = [slot EXCEPT ![s] =
            [op |-> "edit", profile |-> p, read |-> RowsOf(p), want |-> want]]
  BY DEF BeginEdit
<1>3. PICK v : v = [op |-> "edit", profile |-> p, read |-> RowsOf(p), want |-> want]
  OBVIOUS
<1>4. v \in Edit
  BY <1>1, <1>3, RowTypes DEF Edit
<1>5. SlotsOK' /\ slot'[s] = v /\ \A o \in Slots \ {s} : slot'[o] = slot[o]
  BY <1>1, <1>2, <1>3, <1>4, SlotStep
<1>6. Sane(s)'
  <2>1. TrueRead(p, RowsOf(p))
    BY <1>1, RowTypes
  <2>2. PICK read : read = RowsOf(p)
    OBVIOUS
  <2>3. TrueRead(p, read)'
    BY <2>1, <2>2 DEF TrueRead, Still, BeginEdit
  <2>4. ~OnHost(s)' /\ slot'[s].profile = p /\ slot'[s].read = read
    BY <1>3, <1>5, <2>2 DEF OnHost
  <2>. QED
    BY <2>3, <2>4 DEF Sane, TrueRead, Still
<1>7. AllSane'
  BY <1>1, <1>5, <1>6, SameRows, OneSane DEF BeginEdit
<1>8. RefsOK' /\ HostsOK' /\ ListsOK' /\ CountsOK' /\ ProfilesOK' /\ Live' = Live
  BY <1>1, TypeParts, Counts, KeptProfiles, KeptRefs DEF BeginEdit, HostsOK, ListsOK, histVars
<1>9. rows' \in Rows /\ RowsLive' /\ SeedAlone'
  BY <1>1, <1>8 DEF BeginEdit, TypeOK, RowsLive, SeedAlone
<1>. QED
  BY <1>5, <1>7, <1>8, <1>9, GroundParts

(* What Note keeps.                                                         *)
LEMMA NoteType ==
    ASSUME TypeOK, NEW p \in Live, NEW read, NEW want, Note(p, read, want),
           config' \in [Profiles -> Config \cup {None}], Live \subseteq Live', seeding' \subseteq Live'
    PROVE  ProfilesOK'
BY DEF TypeOK, Note, ProfilesOK

LEMMA CommitEditGround ==
    ASSUME Ground, NEW s \in Slots, CommitEdit(s)
    PROVE  Ground'
<1>1. TypeOK /\ RowsLive /\ SeedAlone /\ AllSane
  BY DEF Ground
<1>2. PICK o : o = slot[s]
  OBVIOUS
<1>3. o \in Edit /\ o # None /\ TrueRead(o.profile, o.read) /\ ~OnHost(s)
  BY <1>1, <1>2, SlotTypes DEF CommitEdit, AllSane, Sane, OnHost, Is
<1>4. o.profile \in Live /\ ~Collides(o.read, o.want)
  BY <1>2, <1>3 DEF CommitEdit, CanCommit, Live, Edit
<1>5. o.profile \in Profiles /\ o.read \in Rows /\ o.want \in Config /\ o.want # None
  BY <1>3, ProfileAssumption DEF Edit
<1>6. rows' = Synced(o.profile, o.read, o.want) /\ host' = Detached(rows', Live)
  BY <1>2 DEF CommitEdit, SetRows
<1>7. Kin(rows') /\ Local(o.profile, rows')
  BY <1>1, <1>3, <1>4, <1>5, <1>6, SyncedRows
<1>8. config' = [config EXCEPT ![o.profile] = o.want] /\ Note(o.profile, o.read, o.want)
      /\ slot' = [slot EXCEPT ![s] = None]
  BY <1>2 DEF CommitEdit, Done
<1>9. Live' = Live /\ config' \in [Profiles -> Config \cup {None}]
  BY <1>1, <1>4, <1>5, <1>8 DEF Live, TypeOK
<1>10. \A t \in Tags : rows'[t] # None => rows'[t].profile \in Live
  BY <1>1, <1>4, <1>7 DEF Local, RowsLive
<1>11. SlotsOK' /\ slot'[s] = None /\ \A r \in Slots \ {s} : slot'[r] = slot[r]
  BY <1>1, <1>8, SlotStep
<1>12. rows' \in Rows /\ HostsOK' /\ RefsOK' /\ AllSane' /\ RowsLive'
  <2>1. Live \in SUBSET Profiles /\ Live \subseteq Live'
    BY <1>1, <1>9, LiveProfiles
  <2>2. \A r \in Slots : slot'[r] \in {slot[r], None}
    BY <1>11
  <2>. QED
    BY <1>6, <1>7, <1>10, <2>1, <2>2, DetachedGround
<1>13. ProfilesOK'
  BY <1>1, <1>4, <1>8, <1>9, NoteType DEF CommitEdit, TypeOK
<1>14. ListsOK' /\ CountsOK'
  BY <1>1, TypeParts, Counts DEF CommitEdit, ListsOK
<1>15. SeedAlone'
  BY <1>1, <1>11 DEF CommitEdit, SeedAlone
<1>. QED
  BY <1>11, <1>12, <1>13, <1>14, <1>15, GroundParts

LEMMA FailEditGround ==
    ASSUME Ground, NEW s \in Slots, FailEdit(s)
    PROVE  Ground'
<1>1. TypeOK /\ RowsLive /\ SeedAlone /\ AllSane
  BY DEF Ground
<1>2. SlotsOK' /\ slot'[s] = None /\ \A o \in Slots \ {s} : slot'[o] = slot[o]
  BY <1>1, SlotStep DEF FailEdit, Done
<1>3. AllSane'
  BY <1>1, <1>2, NoneSane, SameRows, OneSane DEF FailEdit
<1>4. RefsOK' /\ HostsOK' /\ ListsOK' /\ CountsOK' /\ ProfilesOK' /\ Live' = Live
  BY <1>1, TypeParts, Counts, KeptProfiles, KeptRefs DEF FailEdit, HostsOK, ListsOK, histVars
<1>5. rows' \in Rows /\ RowsLive' /\ SeedAlone'
  BY <1>1, <1>2, <1>4 DEF FailEdit, TypeOK, RowsLive, SeedAlone
<1>. QED
  BY <1>2, <1>3, <1>4, <1>5, GroundParts

LEMMA DeleteProfileGround ==
    ASSUME Ground, NEW p \in Profiles, DeleteProfile(p)
    PROVE  Ground'
<1>1. TypeOK /\ RowsLive /\ SeedAlone /\ AllSane
  BY DEF Ground
<1>2. rows' = [t \in Tags |-> IF RowsOf(p)[t] # None THEN None ELSE rows[t]]
      /\ host' = Detached(rows', Live \ {p})
  BY DEF DeleteProfile, SetRows
<1>3. Kin(rows')
  BY <1>1, <1>2, RowTypes DEF Kin, Akin, Rows
<1>4. Live' = Live \ {p} /\ ProfilesOK'
  BY <1>1 DEF DeleteProfile, Live, TypeOK, ProfilesOK, Request
<1>5. \A t \in Tags : rows'[t] # None => rows'[t].profile \in Live \ {p}
  BY <1>1, <1>2 DEF RowsLive, RowsOf
<1>6. rows' \in Rows /\ HostsOK' /\ RefsOK' /\ AllSane' /\ RowsLive'
  <2>1. Live \ {p} \in SUBSET Profiles /\ Live \ {p} \subseteq Live'
    BY <1>1, <1>4, LiveProfiles
  <2>2. \A s \in Slots : slot'[s] \in {slot[s], None}
    BY DEF DeleteProfile
  <2>. QED
    BY <1>2, <1>3, <1>5, <2>1, <2>2, DetachedGround
<1>7. SlotsOK' /\ ListsOK' /\ CountsOK' /\ SeedAlone'
  BY <1>1, TypeParts, Counts DEF DeleteProfile, SlotsOK, ListsOK, SeedAlone
<1>. QED
  BY <1>4, <1>6, <1>7, GroundParts

-----------------------------------------------------------------------------
(* Ground: requests about hosts.                                            *)

LEMMA ChoiceTypes ==
    ASSUME NEW c \in Choices \cup {Unchosen}
    PROVE  /\ c.profile \in Profiles \cup {None} /\ c.inbound \in Ref \cup {None}
           /\ c.inbound # None =>
                /\ c.profile \in Profiles /\ RowOf(c.inbound) # None
                /\ RowOf(c.inbound).profile = c.profile
           /\ c \in Choices => c.inbound # None
BY ProfileAssumption DEF Choices, Unchosen

LEMMA BeginGround ==
    ASSUME Ground, NEW s \in Slots, NEW op \in {"create", "update", "assign"}, NEW h \in Hosts,
           NEW c \in Choices \cup {Unchosen}, NEW want \in [Lists -> (SUBSET Items) \cup {None}],
           NEW todo, Begin(s, op, h, c, want, todo), Request,
           Planned([op |-> op, host |-> h, profile |-> c.profile, inbound |-> c.inbound,
                    want |-> want, todo |-> todo]),
           UNCHANGED <<config, rows, host, seeding, mishaps, histVars>>
    PROVE  Ground'
<1>1. TypeOK /\ RowsLive /\ SeedAlone /\ AllSane /\ seeding = {}
  BY DEF Ground, Request
<1>2. PICK v : v = [op |-> op, host |-> h, profile |-> c.profile, inbound |-> c.inbound,
                    want |-> want, todo |-> todo]
  OBVIOUS
<1>3. PICK r : r = c.inbound
  OBVIOUS
<1>4. todo \in Seq(Step)
  <2>1. v.todo = todo
    BY <1>2
  <2>2. <<WriteRow>> \in CreatePlans
    BY DEF CreatePlans
  <2>. QED
    BY <1>2, <2>1, <2>2, PlanTypes DEF Planned, CreatePlanned, UpdatePlanned, AssignPlanned
<1>5. v \in HostRequest /\ Planned(v)
  BY <1>2, <1>4, ChoiceTypes DEF HostRequest
<1>6. SlotsOK' /\ slot'[s] = v /\ \A o \in Slots \ {s} : slot'[o] = slot[o]
  BY <1>1, <1>2, <1>5, SlotStep DEF Begin
<1>7. v.inbound = r /\ v.profile = c.profile /\ v.op = op
  BY <1>2, <1>3
<1>8. r # None => /\ v.profile \in Profiles
                  /\ rows[r.tag] # None /\ rows[r.tag].uuid = r.uuid => rows[r.tag].profile = v.profile
  BY <1>3, <1>7, ChoiceTypes DEF RowOf
<1>9. Sane(s)'
  <2>1. ~Is(s, "edit")'
    BY <1>6, <1>7 DEF Is
  <2>2. TrueChoice(slot[s])'
    BY <1>6, <1>7, <1>8 DEF TrueChoice, RowOf
  <2>3. Planned(slot[s])'
    BY <1>5, <1>6 DEF Planned, CreatePlanned, UpdatePlanned, AssignPlanned
  <2>. QED
    BY <2>1, <2>2, <2>3 DEF Sane
<1>10. AllSane'
  BY <1>1, <1>6, <1>9, SameRows, OneSane
<1>11. RefsOK' /\ HostsOK' /\ ListsOK' /\ CountsOK' /\ ProfilesOK' /\ Live' = Live
  BY <1>1, TypeParts, Counts, KeptProfiles, KeptRefs DEF HostsOK, ListsOK, histVars
<1>12. rows' \in Rows /\ RowsLive' /\ SeedAlone'
  BY <1>1, <1>11 DEF TypeOK, RowsLive, SeedAlone
<1>. QED
  BY <1>6, <1>10, <1>11, <1>12, GroundParts

LEMMA BeginCreateGround ==
    ASSUME Ground, NEW s \in Slots, NEW h \in Hosts, BeginCreate(s, h)
    PROVE  Ground'
<1>1. PICK c \in Choices, want \in [Lists -> SUBSET Items] :
        Begin(s, "create", h, c, want,
              <<WriteRow>> \o If(want.nodes # {}, <<Add("nodes")>>)
                           \o If(want.excluded # {}, <<Add("excluded")>>))
  BY DEF BeginCreate
<1>2. PICK todo : todo = <<WriteRow>> \o If(want["nodes"] # {}, <<Add("nodes")>>)
                                      \o If(want["excluded"] # {}, <<Add("excluded")>>)
  OBVIOUS
<1>3. /\ todo \in CreatePlans /\ Head(todo) = WriteRow
      /\ \A l \in Lists : want[l] # {} => Names(todo, l)
  BY <1>2, CreatePlan
<1>4. c.inbound # None
  BY ChoiceTypes
<1>5. Planned([op |-> "create", host |-> h, profile |-> c.profile, inbound |-> c.inbound,
               want |-> want, todo |-> todo])
  BY <1>3, <1>4 DEF Planned, CreatePlanned
<1>6. want \in [Lists -> (SUBSET Items) \cup {None}]
  OBVIOUS
<1>. QED
  BY <1>1, <1>2, <1>5, <1>6, BeginGround DEF BeginCreate

LEMMA BeginUpdateGround ==
    ASSUME Ground, NEW s \in Slots, NEW h \in Hosts, BeginUpdate(s, h)
    PROVE  Ground'
<1>1. PICK c \in Choices \cup {Unchosen}, want \in [Lists -> (SUBSET Items) \cup {None}] :
        Begin(s, "update", h, c, want,
              Replace(want, "nodes") \o Replace(want, "excluded") \o <<WriteRow>>)
  BY DEF BeginUpdate
<1>2. PICK todo : todo = Replace(want, "nodes") \o Replace(want, "excluded") \o <<WriteRow>>
  OBVIOUS
<1>3. todo \in UpdatePlans /\ \A l \in Lists : Names(todo, l) => want[l] # None
  BY <1>2, UpdatePlan
<1>4. Planned([op |-> "update", host |-> h, profile |-> c.profile, inbound |-> c.inbound,
               want |-> want, todo |-> todo])
  BY <1>3 DEF Planned, UpdatePlanned
<1>. QED
  BY <1>1, <1>2, <1>4, BeginGround DEF BeginUpdate

LEMMA BeginAssignGround ==
    ASSUME Ground, NEW s \in Slots, NEW h \in Hosts, BeginAssign(s, h)
    PROVE  Ground'
<1>1. PICK c \in Choices : Begin(s, "assign", h, c, [l \in Lists |-> None], <<WriteRow>>)
  BY DEF BeginAssign
<1>2. PICK want : want = [l \in Lists |-> None]
  OBVIOUS
<1>3. want \in [Lists -> (SUBSET Items) \cup {None}]
  BY <1>2
<1>4. c.inbound # None
  BY ChoiceTypes
<1>5. Planned([op |-> "assign", host |-> h, profile |-> c.profile, inbound |-> c.inbound,
               want |-> want, todo |-> <<WriteRow>>])
  BY <1>4 DEF Planned, AssignPlanned
<1>. QED
  BY <1>1, <1>2, <1>3, <1>5, BeginGround DEF BeginAssign

(* The next statement of a request.                                          *)
LEMMA ProceedSane ==
    ASSUME Ground, NEW s \in Slots, OnHost(s), Proceed(s), UNCHANGED rows
    PROVE  /\ SlotsOK' /\ AllSane' /\ seeding = {}
           /\ \A o \in Slots \ {s} : slot'[o] = slot[o]
           /\ slot'[s] = None \/ slot'[s] = [slot[s] EXCEPT !.todo = Tail(slot[s].todo)]
           /\ Len(slot[s].todo) = 1 => slot'[s] = None
<1>1. TypeOK /\ AllSane /\ SeedAlone
  BY DEF Ground
<1>2. PICK o : o = slot[s]
  OBVIOUS
<1>3. o \in HostRequest /\ Planned(o) /\ TrueChoice(o) /\ o # None
  BY <1>1, <1>2, SlotTypes DEF AllSane, Sane, OnHost
<1>4. PICK v : v = [o EXCEPT !.todo = Tail(o.todo)]
  OBVIOUS
<1>5. PICK w : w = IF Len(o.todo) = 1 THEN None ELSE v
  OBVIOUS
<1>6. slot' = [slot EXCEPT ![s] = w]
  BY <1>2, <1>4, <1>5 DEF Proceed
<1>7. ASSUME Len(o.todo) # 1
      PROVE  v \in HostRequest /\ Planned(v)
  <2>1. o.todo \in CreatePlans \cup UpdatePlans
    BY <1>3 DEF Planned, CreatePlanned, UpdatePlanned, AssignPlanned, CreatePlans
  <2>2. Tail(o.todo) \in CreatePlans \cup UpdatePlans
    BY <1>7, <2>1, PlanTail
  <2>3. Tail(o.todo) \in Seq(Step)
    BY <2>2, PlanTypes
  <2>4. v \in HostRequest /\ v.todo = Tail(o.todo) /\ v.op = o.op /\ v.want = o.want
        /\ v.inbound = o.inbound
    BY <1>3, <1>4, <2>3 DEF HostRequest
  <2>5. CASE CreatePlanned(o)
    <3>1. o.todo \in CreatePlans
      BY <2>5 DEF CreatePlanned
    <3>2. Tail(o.todo) \in CreatePlans /\ Head(Tail(o.todo)) # WriteRow
      BY <1>7, <2>1, <3>1, PlanTail
    <3>. QED
      BY <2>4, <2>5, <3>2 DEF Planned, CreatePlanned
  <2>6. CASE UpdatePlanned(o)
    <3>1. o.todo \in UpdatePlans
      BY <2>6 DEF UpdatePlanned
    <3>2. Tail(o.todo) \in UpdatePlans /\ \A l \in Lists : Names(Tail(o.todo), l) => Names(o.todo, l)
      BY <1>7, <2>1, <3>1, PlanTail
    <3>. QED
      BY <2>4, <2>6, <3>2 DEF Planned, UpdatePlanned
  <2>7. CASE AssignPlanned(o)
    BY <1>7, <2>7, Tuples DEF AssignPlanned
  <2>. QED
    BY <1>3, <2>4, <2>5, <2>6, <2>7 DEF Planned
<1>8. w \in Edit \cup HostRequest \cup {None}
  BY <1>5, <1>7
<1>9. SlotsOK' /\ slot'[s] = w /\ \A r \in Slots \ {s} : slot'[r] = slot[r]
  BY <1>1, <1>6, <1>8, SlotStep
<1>10. Sane(s)'
  <2>1. CASE w = None
    BY <1>9, <2>1, NoneSane
  <2>2. CASE w = v /\ Len(o.todo) # 1
    <3>1. v.op = o.op /\ v.inbound = o.inbound /\ v.profile = o.profile
      BY <1>3, <1>4 DEF HostRequest
    <3>2. ~Is(s, "edit")'
      BY <1>2, <1>9, <2>2, <3>1 DEF Is, OnHost
    <3>3. TrueChoice(slot[s])'
      BY <1>3, <1>9, <2>2, <3>1 DEF TrueChoice, RowOf
    <3>4. Planned(slot[s])'
      BY <1>7, <1>9, <2>2 DEF Planned, CreatePlanned, UpdatePlanned, AssignPlanned
    <3>. QED
      BY <3>2, <3>3, <3>4 DEF Sane
  <2>. QED
    BY <1>5, <2>1, <2>2
<1>11. AllSane'
  BY <1>1, <1>9, <1>10, SameRows, OneSane
<1>12. seeding = {}
  BY <1>1 DEF SeedAlone, OnHost
<1>. QED
  BY <1>2, <1>4, <1>5, <1>9, <1>11, <1>12

(* A statement on a list leaves what the host refers to as it was.           *)
LEMMA ListWrite ==
    ASSUME HostsOK, NEW h \in Hosts, NEW l \in Lists, NEW items \in SUBSET Items,
           host' = IF host[h] = None THEN host ELSE [host EXCEPT ![h][l] = items]
    PROVE  /\ HostsOK'
           /\ \A g \in Hosts : /\ host'[g] = None <=> host[g] = None
                               /\ host[g] # None => /\ host'[g].inbound = host[g].inbound
                                                    /\ host'[g].profile = host[g].profile
           /\ \A g \in Hosts, m \in Lists :
                host[g] # None => host'[g][m] = IF g = h /\ m = l THEN items ELSE host[g][m]
<1>1. CASE host[h] = None
  BY <1>1 DEF HostsOK
<1>2. CASE host[h] # None
  <2>1. PICK o : o = host[h]
    OBVIOUS
  <2>2. PICK new : new = [o EXCEPT ![l] = items]
    OBVIOUS
  <2>3. o \in Host
    BY <1>2, <2>1 DEF HostsOK
  <2>4. host' = [host EXCEPT ![h] = new]
    BY <1>2, <2>1, <2>2
  <2>5. /\ new \in Host /\ new.inbound = o.inbound /\ new.profile = o.profile
        /\ \A m \in Lists : new[m] = IF m = l THEN items ELSE o[m]
    <3>1. CASE l = "nodes"
      BY <2>2, <2>3, <3>1 DEF Host, Lists
    <3>2. CASE l = "excluded"
      BY <2>2, <2>3, <3>2 DEF Host, Lists
    <3>. QED
      BY <3>1, <3>2 DEF Lists
  <2>6. new # None
    BY <2>5, ProfileAssumption
  <2>7. \A g \in Hosts : host'[g] = IF g = h THEN new ELSE host[g]
    BY <2>4 DEF HostsOK
  <2>8. HostsOK'
    BY <2>4, <2>5 DEF HostsOK
  <2>9. ASSUME NEW g \in Hosts
        PROVE  /\ host'[g] = None <=> host[g] = None
               /\ host[g] # None => host'[g].inbound = host[g].inbound
                                   /\ host'[g].profile = host[g].profile
               /\ \A m \in Lists :
                    host[g] # None => host'[g][m] = IF g = h /\ m = l THEN items ELSE host[g][m]
    <3>1. CASE g = h
      BY <1>2, <2>1, <2>5, <2>6, <2>7, <3>1
    <3>2. CASE g # h
      BY <2>7, <3>2
    <3>. QED
      BY <3>1, <3>2
  <2>. QED
    BY <2>8, <2>9
<1>. QED
  BY <1>1, <1>2

LEMMA HeadTypes ==
    ASSUME Ground, NEW s \in Slots, OnHost(s)
    PROVE  /\ slot[s] \in HostRequest /\ slot[s].host \in Hosts
           /\ Planned(slot[s]) /\ TrueChoice(slot[s])
           /\ slot[s].todo \in CreatePlans \cup UpdatePlans
<1>1. slot[s] \in HostRequest /\ Planned(slot[s]) /\ TrueChoice(slot[s])
  BY SlotTypes DEF Ground, AllSane, Sane
<1>2. <<WriteRow>> \in CreatePlans
  BY DEF CreatePlans
<1>. QED
  BY <1>1, <1>2 DEF HostRequest, Planned, CreatePlanned, UpdatePlanned, AssignPlanned

(* The first statement of a plan: on a list it names, or on the row.         *)
LEMMA HeadOfPlan ==
    ASSUME NEW todo \in CreatePlans \cup UpdatePlans
    PROVE  /\ \/ Head(todo) = WriteRow
              \/ \E l \in Lists : Head(todo) \in {Clear(l), Add(l)} /\ Names(todo, l)
           /\ Head(todo).do = "clear" =>
                todo \in UpdatePlans \ CreatePlans /\ \E l \in Lists : Head(todo) = Clear(l)
           /\ Head(todo).do = "add" => \E l \in Lists : Head(todo) = Add(l)
           /\ Head(todo).do = "row" => Head(todo) = WriteRow
<1>1. todo \in Seq(Step) /\ todo # <<>>
  <2>1. todo \in Seq(Step)
    BY PlanTypes
  <2>2. todo # <<>>
    BY Tuples DEF CreatePlans, UpdatePlans
  <2>. QED
    BY <2>1, <2>2
<1>2. Head(todo) = todo[1] /\ 1 \in DOMAIN todo /\ Head(todo) \in Step
  BY <1>1
<1>3. \A step \in Step : step = WriteRow \/ \E l \in Lists : step \in {Clear(l), Add(l)}
  BY DEF Step, Clear, Add, Lists
<1>4. \A l \in Lists : Clear(l).do = "clear" /\ Add(l).do = "add" /\ WriteRow.do = "row"
  BY DEF Clear, Add, WriteRow
<1>5. ASSUME Head(todo).do = "clear" PROVE todo \in UpdatePlans \ CreatePlans
  <2>1. \A l \in Lists : Head(todo) # Add(l) /\ Head(todo) # WriteRow
    BY <1>4, <1>5
  <2>2. ASSUME todo \in CreatePlans PROVE FALSE
    <3>1. PICK a, b, w : a = Add("nodes") /\ b = Add("excluded") /\ w = WriteRow
      OBVIOUS
    <3>2. CreatePlans = {<<w, a, b>>, <<w, a>>, <<w, b>>, <<w>>, <<a, b>>, <<a>>, <<b>>}
      BY <3>1 DEF CreatePlans
    <3>3. \A plan \in CreatePlans : Head(plan) \in {a, b, w}
      BY <3>2, Tuples
    <3>. QED
      BY <2>1, <2>2, <3>1, <3>3 DEF Lists
  <2>. QED
    BY <2>2
<1>6. \/ Head(todo) = WriteRow
      \/ \E l \in Lists : Head(todo) \in {Clear(l), Add(l)}
  BY <1>2, <1>3
<1>7. \A l \in Lists : Head(todo) \in {Clear(l), Add(l)} => Names(todo, l)
  BY <1>2 DEF Names
<1>8. ASSUME NEW l \in Lists, Head(todo) \in {Clear(l), Add(l)}
      PROVE  \/ Head(todo) = Clear(l) /\ Head(todo).do = "clear"
             \/ Head(todo) = Add(l) /\ Head(todo).do = "add"
  BY <1>4, <1>8
<1>9. Head(todo) = WriteRow => Head(todo).do = "row"
  BY <1>4 DEF Lists
<1>10. /\ Head(todo).do = "clear" => \E l \in Lists : Head(todo) = Clear(l)
       /\ Head(todo).do = "add" => \E l \in Lists : Head(todo) = Add(l)
       /\ Head(todo).do = "row" => Head(todo) = WriteRow
  <2>1. CASE Head(todo) = WriteRow
    BY <1>9, <2>1
  <2>2. CASE \E l \in Lists : Head(todo) \in {Clear(l), Add(l)}
    <3>1. PICK l \in Lists : Head(todo) \in {Clear(l), Add(l)}
      BY <2>2
    <3>2. CASE Head(todo) = Clear(l) /\ Head(todo).do = "clear"
      BY <3>2
    <3>3. CASE Head(todo) = Add(l) /\ Head(todo).do = "add"
      BY <3>3
    <3>. QED
      BY <1>8, <3>1, <3>2, <3>3
  <2>. QED
    BY <1>6, <2>1, <2>2
<1>. QED
  BY <1>5, <1>6, <1>7, <1>10, Zenon

(* A statement on a list has something to write to it.                       *)
LEMMA HeadList ==
    ASSUME Ground, NEW s \in Slots, OnHost(s), Head(slot[s].todo).do \in {"clear", "add"},
           NEW l, l = Head(slot[s].todo).list
    PROVE  /\ l \in Lists /\ slot[s].want[l] \in SUBSET Items
           /\ Head(slot[s].todo) \in {Clear(l), Add(l)}
           /\ Names(slot[s].todo, l)
<1>1. PICK m \in Lists : Head(slot[s].todo) \in {Clear(m), Add(m)} /\ Names(slot[s].todo, m)
  <2>1. Head(slot[s].todo) # WriteRow
    BY DEF WriteRow
  <2>. QED
    BY <2>1, HeadTypes, HeadOfPlan
<1>2. l = m
  BY <1>1 DEF Clear, Add
<1>3. slot[s].todo # <<WriteRow>>
  BY <1>1, Tuples, Steps
<1>4. slot[s].want[m] \in SUBSET Items
  <2>1. CASE CreatePlanned(slot[s])
    BY <2>1 DEF CreatePlanned
  <2>2. CASE UpdatePlanned(slot[s])
    BY <1>1, <2>2, HeadTypes DEF UpdatePlanned, HostRequest
  <2>. QED
    BY <1>3, <2>1, <2>2, HeadTypes DEF Planned, AssignPlanned
<1>. QED
  BY <1>1, <1>2, <1>4

LEMMA ClearListGround ==
    ASSUME Ground, NEW s \in Slots, ClearList(s)
    PROVE  Ground'
<1>1. TypeOK /\ RowsLive /\ SeedAlone /\ AllSane /\ OnHost(s)
  BY DEF Ground, ClearList, At
<1>2. PICK h, l : h = slot[s].host /\ l = Head(slot[s].todo).list
  OBVIOUS
<1>3. h \in Hosts /\ l \in Lists /\ slot[s].want[l] \in SUBSET Items
  BY <1>1, <1>2, HeadTypes, HeadList DEF ClearList, At
<1>4. host' = IF host[h] = None THEN host ELSE [host EXCEPT ![h][l] = {}]
  BY <1>2 DEF ClearList
<1>5. HostsOK /\ ListsOK
  BY <1>1, TypeParts
<1>6. HostsOK' /\ \A g \in Hosts :
        /\ host'[g] = None <=> host[g] = None
        /\ host[g] # None => host'[g].inbound = host[g].inbound /\ host'[g].profile = host[g].profile
  <2>1. {} \in SUBSET Items
    OBVIOUS
  <2>. QED
    BY <1>3, <1>4, <1>5, <2>1, ListWrite
<1>7. RefsOK'
  BY <1>6, KeptRefs DEF ClearList
<1>8. ListsOK'
  BY <1>2, <1>3, <1>5 DEF ClearList, ListsOK
<1>9. SlotsOK' /\ AllSane' /\ seeding = {}
  BY <1>1, ProceedSane DEF ClearList
<1>10. CountsOK' /\ ProfilesOK' /\ Live' = Live
  BY <1>1, Counts, KeptProfiles DEF ClearList
<1>11. rows' \in Rows /\ RowsLive' /\ SeedAlone'
  BY <1>1, <1>9, <1>10 DEF ClearList, TypeOK, RowsLive, SeedAlone
<1>. QED
  BY <1>6, <1>7, <1>8, <1>9, <1>10, <1>11, GroundParts

LEMMA AddListGround ==
    ASSUME Ground, NEW s \in Slots, AddList(s)
    PROVE  Ground'
<1>1. TypeOK /\ RowsLive /\ SeedAlone /\ AllSane /\ OnHost(s)
  BY DEF Ground, AddList, At
<1>2. PICK h, l : h = slot[s].host /\ l = Head(slot[s].todo).list
  OBVIOUS
<1>3. h \in Hosts /\ l \in Lists /\ slot[s].want[l] \in SUBSET Items
  BY <1>1, <1>2, HeadTypes, HeadList DEF AddList, At
<1>4. PICK items : items = IF host[h] = None THEN {} ELSE host[h][l] \cup slot[s].want[l]
  OBVIOUS
<1>5. host' = IF host[h] = None THEN host ELSE [host EXCEPT ![h][l] = items]
  BY <1>2, <1>4 DEF AddList
<1>6. HostsOK /\ ListsOK
  BY <1>1, TypeParts
<1>7. items \in SUBSET Items
  <2>1. host[h] # None => host[h] \in Host
    BY <1>3, <1>6 DEF HostsOK
  <2>2. host[h] # None => host[h][l] \in SUBSET Items
    BY <1>3, <2>1 DEF Host, Lists
  <2>. QED
    BY <1>3, <1>4, <2>2
<1>8. HostsOK' /\ \A g \in Hosts :
        /\ host'[g] = None <=> host[g] = None
        /\ host[g] # None => host'[g].inbound = host[g].inbound /\ host'[g].profile = host[g].profile
  BY <1>3, <1>5, <1>6, <1>7, ListWrite
<1>9. RefsOK'
  BY <1>8, KeptRefs DEF AddList
<1>10. ListsOK'
  BY <1>6 DEF AddList, ListsOK, histVars
<1>11. SlotsOK' /\ AllSane' /\ seeding = {}
  BY <1>1, ProceedSane DEF AddList
<1>12. CountsOK' /\ ProfilesOK' /\ Live' = Live
  BY <1>1, Counts, KeptProfiles DEF AddList, histVars
<1>13. rows' \in Rows /\ RowsLive' /\ SeedAlone'
  BY <1>1, <1>11, <1>12 DEF AddList, TypeOK, RowsLive, SeedAlone
<1>. QED
  BY <1>8, <1>9, <1>10, <1>11, <1>12, <1>13, GroundParts

(* The row of a host is written with a reference that is good.               *)
LEMMA RowWrite ==
    ASSUME Ground, NEW s \in Slots, WriteHost(s), NEW o, o = slot[s], NEW h, h = o.host
    PROVE  /\ HostsOK' /\ RefsOK' /\ ListsOK'
           /\ \A g \in Hosts \ {h} : host'[g] = host[g]
           /\ o.op = "create" =>
                host'[h] = [profile |-> o.profile, inbound |-> o.inbound, nodes |-> {}, excluded |-> {}]
                /\ host'[h] # None
           /\ o.op # "create" =>
                /\ host'[h] = None <=> host[h] = None
                /\ host[h] # None => \A l \in Lists : host'[h][l] = host[h][l]
           /\ host'[h] # None /\ host'[h] # host[h] => host'[h].inbound # None
<1>1. TypeOK /\ OnHost(s) /\ HostsOK /\ ListsOK
  BY TypeParts DEF Ground, WriteHost, At
<1>2. o \in HostRequest /\ h \in Hosts /\ Planned(o) /\ TrueChoice(o)
  BY <1>1, HeadTypes
<1>3. o.inbound # None => /\ o.profile \in Profiles /\ rows[o.inbound.tag] # None
                          /\ rows[o.inbound.tag].uuid = o.inbound.uuid
                          /\ rows[o.inbound.tag].profile = o.profile
  BY <1>2 DEF WriteHost, CanWrite, TrueChoice, RowOf
<1>4. rows' = rows
  BY DEF WriteHost
<1>5. CASE o.op = "create"
  <2>1. PICK new : new = [profile |-> o.profile, inbound |-> o.inbound, nodes |-> {}, excluded |-> {}]
    OBVIOUS
  <2>2. o.inbound # None /\ o.inbound \in Ref /\ o.want \in [Lists -> SUBSET Items]
    <3>1. CreatePlanned(o)
      BY <1>2, <1>5 DEF Planned, UpdatePlanned, AssignPlanned
    <3>. QED
      BY <1>2, <3>1 DEF CreatePlanned, HostRequest
  <2>3. new \in Host /\ new # None /\ new.inbound = o.inbound /\ new.profile = o.profile
    BY <1>3, <2>1, <2>2, ProfileAssumption DEF Host
  <2>4. host' = [host EXCEPT ![h] = new]
    BY <1>5, <2>1 DEF WriteHost
  <2>5. host'[h] = new /\ HostsOK' /\ \A g \in Hosts \ {h} : host'[g] = host[g]
    BY <1>1, <1>2, <2>3, <2>4 DEF HostsOK
  <2>6. Refers(host[h])'
    BY <1>3, <1>4, <2>2, <2>3, <2>5, ProfileAssumption DEF Refers, RowOf
  <2>7. RefsOK'
    BY <1>4, <2>5, <2>6, KeptRefs
  <2>8. ListsOK'
    BY <1>1, <1>2, <1>5, <2>2 DEF WriteHost, ListsOK
  <2>. QED
    BY <1>5, <2>1, <2>2, <2>3, <2>5, <2>7, <2>8
<1>6. CASE o.op # "create" /\ (o.inbound = None \/ host[h] = None)
  <2>1. host' = host
    BY <1>6 DEF WriteHost
  <2>2. HostsOK' /\ ListsOK'
    BY <1>1, <1>6, <2>1 DEF WriteHost, HostsOK, ListsOK
  <2>3. RefsOK'
    BY <1>4, <2>1, KeptRefs
  <2>. QED
    BY <1>6, <2>1, <2>2, <2>3
<1>7. CASE o.op # "create" /\ o.inbound # None /\ host[h] # None
  <2>1. PICK old : old = host[h]
    OBVIOUS
  <2>2. PICK new : new = [old EXCEPT !.profile = o.profile, !.inbound = o.inbound]
    OBVIOUS
  <2>3. old \in Host /\ o.inbound \in Ref
    BY <1>1, <1>2, <1>7, <2>1 DEF HostsOK, HostRequest
  <2>4. /\ new \in Host /\ new.inbound = o.inbound /\ new.profile = o.profile
        /\ \A l \in Lists : new[l] = old[l]
    BY <1>3, <1>7, <2>2, <2>3 DEF Host, Lists
  <2>5. new # None
    BY <2>4, ProfileAssumption
  <2>6. host' = [host EXCEPT ![h] = new]
    BY <1>7, <2>1, <2>2 DEF WriteHost
  <2>7. host'[h] = new /\ HostsOK' /\ \A g \in Hosts \ {h} : host'[g] = host[g]
    BY <1>1, <1>2, <2>4, <2>6 DEF HostsOK
  <2>8. Refers(host[h])'
    BY <1>3, <1>4, <1>7, <2>3, <2>4, <2>7, ProfileAssumption DEF Refers, RowOf
  <2>9. RefsOK'
    BY <1>4, <2>7, <2>8, KeptRefs
  <2>10. ListsOK'
    BY <1>1, <1>7 DEF WriteHost, ListsOK
  <2>. QED
    BY <1>7, <2>1, <2>4, <2>5, <2>7, <2>9, <2>10
<1>. QED
  BY <1>5, <1>6, <1>7

LEMMA WriteHostGround ==
    ASSUME Ground, NEW s \in Slots, WriteHost(s)
    PROVE  Ground'
<1>1. TypeOK /\ RowsLive /\ SeedAlone /\ OnHost(s)
  BY DEF Ground, WriteHost, At
<1>2. HostsOK' /\ RefsOK' /\ ListsOK'
  BY RowWrite
<1>3. SlotsOK' /\ AllSane' /\ seeding = {}
  BY <1>1, ProceedSane DEF WriteHost
<1>4. CountsOK' /\ ProfilesOK' /\ Live' = Live
  BY <1>1, Counts, KeptProfiles DEF WriteHost
<1>5. rows' \in Rows /\ RowsLive' /\ SeedAlone'
  BY <1>1, <1>3, <1>4 DEF WriteHost, TypeOK, RowsLive, SeedAlone
<1>. QED
  BY <1>2, <1>3, <1>4, <1>5, GroundParts

LEMMA UnfinishedPairs ==
    ASSUME NEW s \in Slots
    PROVE  /\ Unfinished(s) \subseteq Hosts \X Lists
           /\ \A h \in Hosts, l \in Lists : <<h, l>> \in Unfinished(s) <=> Adding(s, h, l)
BY DEF Unfinished

LEMMA FailHostGround ==
    ASSUME Ground, NEW s \in Slots, FailHost(s)
    PROVE  Ground'
<1>1. TypeOK /\ RowsLive /\ SeedAlone /\ OnHost(s)
  BY DEF Ground, FailHost
<1>2. SlotsOK' /\ slot'[s] = None /\ \A o \in Slots \ {s} : slot'[o] = slot[o]
  BY <1>1, SlotStep DEF FailHost, Done
<1>3. AllSane'
  BY <1>1, <1>2, NoneSane, SameRows, OneSane DEF FailHost
<1>4. ListsOK'
  BY <1>1, TypeParts, UnfinishedPairs DEF FailHost, ListsOK
<1>5. RefsOK' /\ HostsOK' /\ CountsOK' /\ ProfilesOK' /\ Live' = Live
  BY <1>1, TypeParts, Counts, KeptProfiles, KeptRefs DEF FailHost, HostsOK
<1>6. rows' \in Rows /\ RowsLive' /\ SeedAlone'
  BY <1>1, <1>2, <1>5 DEF FailHost, TypeOK, RowsLive, SeedAlone
<1>. QED
  BY <1>2, <1>3, <1>4, <1>5, <1>6, GroundParts

LEMMA DeleteHostGround ==
    ASSUME Ground, NEW h \in Hosts, DeleteHost(h)
    PROVE  Ground'
<1>1. TypeOK /\ RowsLive /\ SeedAlone /\ AllSane /\ HostsOK /\ ListsOK /\ SlotsOK
  BY TypeParts DEF Ground
<1>2. HostsOK' /\ \A g \in Hosts : host'[g] = IF g = h THEN None ELSE host[g]
  BY <1>1 DEF DeleteHost, HostsOK
<1>3. RefsOK'
  BY <1>2, KeptRefs DEF DeleteHost
<1>4. SlotsOK' /\ AllSane'
  BY <1>1, SameRows, KinSane DEF DeleteHost, SlotsOK, AllSane
<1>5. ListsOK'
  BY <1>1 DEF DeleteHost, ListsOK
<1>6. CountsOK' /\ ProfilesOK' /\ Live' = Live
  BY <1>1, Counts, KeptProfiles DEF DeleteHost
<1>7. rows' \in Rows /\ RowsLive' /\ SeedAlone'
  BY <1>1, <1>6 DEF DeleteHost, TypeOK, RowsLive, SeedAlone
<1>. QED
  BY <1>2, <1>3, <1>4, <1>5, <1>6, <1>7, GroundParts

-----------------------------------------------------------------------------
(* Ground: a start of the panel.                                            *)

LEMMA RestartGround ==
    ASSUME Ground, Restart
    PROVE  Ground'
<1>1. TypeOK /\ RowsLive /\ SeedAlone /\ AllSane
  BY DEF Ground
<1>2. \A s \in Slots : slot'[s] = None
  BY DEF Restart
<1>3. SlotsOK' /\ AllSane' /\ SeedAlone'
  BY <1>2, NoneSane DEF Restart, SlotsOK, AllSane, SeedAlone
<1>4. ListsOK'
  BY <1>1, TypeParts, UnfinishedPairs DEF Restart, ListsOK
<1>5. RefsOK' /\ HostsOK' /\ CountsOK'
  BY <1>1, TypeParts, Counts, KeptRefs DEF Restart, HostsOK
<1>6. ProfilesOK' /\ Live \subseteq Live'
  <2>1. CASE Live # {} /\ seeding' = Live /\ UNCHANGED config
    BY <1>1, <2>1 DEF Restart, TypeOK, ProfilesOK, Live
  <2>2. CASE Live = {} /\ \E p \in Profiles, t \in Tags, inbound \in Inbound :
                /\ config' = [config EXCEPT ![p] = Only(t, inbound)]
                /\ seeding' = {p}
    <3>1. PICK p \in Profiles, t \in Tags, inbound \in Inbound :
                config' = [config EXCEPT ![p] = Only(t, inbound)] /\ seeding' = {p}
      BY <2>2
    <3>2. Only(t, inbound) \in Config /\ Only(t, inbound) # None
      BY ProfileAssumption DEF Config, Only
    <3>. QED
      BY <1>1, <2>2, <3>1, <3>2 DEF Restart, TypeOK, ProfilesOK, Live
  <2>. QED
    BY <2>1, <2>2 DEF Restart
<1>7. rows' \in Rows /\ RowsLive'
  BY <1>1, <1>6 DEF Restart, TypeOK, RowsLive
<1>. QED
  BY <1>3, <1>4, <1>5, <1>6, <1>7, GroundParts

LEMMA SeedProfileGround ==
    ASSUME Ground, NEW p \in Profiles, SeedProfile(p)
    PROVE  Ground'
<1>1. TypeOK /\ RowsLive /\ SeedAlone /\ AllSane
  BY DEF Ground
<1>2. PICK read : read = RowsOf(p)
  OBVIOUS
<1>3. p \in Live /\ config[p] \in Config /\ read \in Rows /\ TrueRead(p, read)
  BY <1>1, <1>2, RowTypes, LiveProfiles DEF SeedProfile, TypeOK
<1>4. /\ ~Collides(read, config[p]) /\ rows' = Synced(p, read, config[p])
      /\ host' = Detached(rows', Live) /\ Note(p, read, config[p])
  BY <1>2 DEF SeedProfile, SetRows
<1>5. Kin(rows') /\ Local(p, rows')
  BY <1>1, <1>3, <1>4, SyncedRows
<1>6. Live' = Live
  BY DEF SeedProfile, Live
<1>7. \A t \in Tags : rows'[t] # None => rows'[t].profile \in Live
  BY <1>1, <1>3, <1>5 DEF Local, RowsLive
<1>8. rows' \in Rows /\ HostsOK' /\ RefsOK' /\ AllSane' /\ RowsLive'
  <2>1. Live \in SUBSET Profiles /\ Live \subseteq Live'
    BY <1>1, <1>6, LiveProfiles
  <2>2. \A r \in Slots : slot'[r] \in {slot[r], None}
    BY DEF SeedProfile
  <2>. QED
    BY <1>4, <1>5, <1>7, <2>1, <2>2, DetachedGround
<1>9. ProfilesOK'
  <2>1. config' \in [Profiles -> Config \cup {None}] /\ seeding' \subseteq Live'
    BY <1>1, <1>6 DEF SeedProfile, TypeOK
  <2>. QED
    BY <1>1, <1>3, <1>4, <1>6, <2>1, NoteType
<1>10. ListsOK' /\ CountsOK' /\ SlotsOK' /\ SeedAlone'
  BY <1>1, TypeParts, Counts DEF SeedProfile, ListsOK, SlotsOK, SeedAlone
<1>. QED
  BY <1>8, <1>9, <1>10, GroundParts

LEMMA SeedStopsGround ==
    ASSUME Ground, NEW p \in Profiles, SeedStops(p)
    PROVE  Ground'
<1>1. TypeOK /\ RowsLive /\ SeedAlone /\ AllSane
  BY DEF Ground
<1>2. PICK read, gone : read = RowsOf(p) /\ gone = Removed(read, config[p])
  OBVIOUS
<1>3. read \in Rows /\ TrueRead(p, read) /\ gone \in SUBSET {t \in Tags : read[t] # None}
  BY <1>1, <1>2, RowTypes DEF Removed
<1>4. rows' = Without(read, gone) /\ host' = Detached(rows', Live)
  BY <1>2 DEF SeedStops, SetRows
<1>5. Kin(rows') /\ Local(p, rows')
  BY <1>1, <1>3, <1>4, WithoutRows
<1>6. Live' = Live
  BY DEF SeedStops, Live
<1>7. \A t \in Tags : rows'[t] # None => rows'[t].profile \in Live
  BY <1>1, <1>4 DEF Without, RowsLive
<1>8. rows' \in Rows /\ HostsOK' /\ RefsOK' /\ AllSane' /\ RowsLive'
  <2>1. Live \in SUBSET Profiles /\ Live \subseteq Live'
    BY <1>1, <1>6, LiveProfiles
  <2>2. \A r \in Slots : slot'[r] \in {slot[r], None}
    BY DEF SeedStops
  <2>. QED
    BY <1>4, <1>5, <1>7, <2>1, <2>2, DetachedGround
<1>9. ProfilesOK'
  BY <1>1, <1>6 DEF SeedStops, TypeOK, ProfilesOK, histVars
<1>10. ListsOK' /\ CountsOK' /\ SlotsOK' /\ SeedAlone'
  <2>1. seeding # {}
    BY DEF SeedStops
  <2>. QED
    BY <1>1, <2>1, TypeParts, Counts DEF SeedStops, ListsOK, SlotsOK, SeedAlone, histVars
<1>. QED
  BY <1>8, <1>9, <1>10, GroundParts

-----------------------------------------------------------------------------

LEMMA GroundStep ==
    ASSUME Ground, [Next]_vars
    PROVE  Ground'
<1>1. CASE \E p \in Profiles : CreateProfile(p) \/ DeleteProfile(p) \/ SeedProfile(p) \/ SeedStops(p)
  BY <1>1, CreateProfileGround, DeleteProfileGround, SeedProfileGround, SeedStopsGround
<1>2. CASE \E s \in Slots, p \in Profiles : BeginEdit(s, p)
  BY <1>2, BeginEditGround
<1>3. CASE \E s \in Slots, h \in Hosts : BeginCreate(s, h) \/ BeginUpdate(s, h) \/ BeginAssign(s, h)
  BY <1>3, BeginCreateGround, BeginUpdateGround, BeginAssignGround
<1>4. CASE \E s \in Slots : CommitEdit(s) \/ FailEdit(s)
  BY <1>4, CommitEditGround, FailEditGround
<1>5. CASE \E s \in Slots : ClearList(s) \/ AddList(s) \/ WriteHost(s) \/ FailHost(s)
  BY <1>5, ClearListGround, AddListGround, WriteHostGround, FailHostGround
<1>6. CASE \E h \in Hosts : DeleteHost(h)
  BY <1>6, DeleteHostGround
<1>7. CASE Restart
  BY <1>7, RestartGround
<1>8. CASE UNCHANGED vars
  <2>1. TypeOK' /\ RowsLive' /\ SeedAlone'
    BY <1>8 DEF Ground, TypeOK, RowsLive, SeedAlone, Live, RowOf, vars, histVars
  <2>2. AllSane'
    BY <1>8, SameRows, KinSane DEF Ground, AllSane, vars
  <2>. QED
    BY <2>1, <2>2 DEF Ground
<1>. QED
  BY <1>1, <1>2, <1>3, <1>4, <1>5, <1>6, <1>7, <1>8 DEF Next

LEMMA AlwaysGround == Spec => []Ground
<1>1. Init => Ground
  BY InitGround
<1>2. Ground /\ [Next]_vars => Ground'
  BY GroundStep
<1>. QED
  BY <1>1, <1>2, PTL DEF Spec

(* The variables keep their types, and the foreign keys of hosts lead to     *)
(* rows of their profiles.                                                  *)
THEOREM TypeCorrect == Spec => []TypeOK
<1>1. Ground => TypeOK
  BY DEF Ground
<1>. QED
  BY <1>1, AlwaysGround, PTL

-----------------------------------------------------------------------------
(* RowsFollowConfig: a profile whose last edit was not overtaken has its     *)
(* rows, also while the panel starts, unless the start has just made it.     *)

Matches(p, loose, row, inbound) ==
    /\ (row = None) <=> (inbound = None)
    /\ row # None => row.type = inbound.type /\ (p \in loose \/ row.raw = inbound.raw)
Matched(p) == \A t \in Tags : Matches(p, mixed, RowsOf(p)[t], config[p][t])
Unseeded(p) == p \in seeding /\ Live = {p} /\ \A t \in Tags : rows[t] = None
Follows == \A p \in Live \ torn : Matched(p) \/ Unseeded(p)

LEMMA InitFollows == Init => Follows
<1>. SUFFICES ASSUME Init PROVE Follows
  OBVIOUS
<1>1. PICK p \in Profiles, t \in Tags, inbound \in Inbound :
        /\ config = [q \in Profiles |-> IF q = p THEN Only(t, inbound) ELSE None]
        /\ rows = Only(t, [uuid |-> CHOOSE g \in Uuids : TRUE, profile |-> p,
                           type |-> inbound.type, raw |-> inbound.raw])
  BY DEF Init
<1>2. PICK row : row = [uuid |-> CHOOSE g \in Uuids : TRUE, profile |-> p,
                        type |-> inbound.type, raw |-> inbound.raw]
  OBVIOUS
<1>3. row \in Row /\ row # None /\ inbound # None
      /\ row.profile = p /\ row.type = inbound.type /\ row.raw = inbound.raw
  BY <1>2, UuidAssumption, ProfileAssumption DEF Row, Inbound
<1>4. \A u \in Tags : /\ config[p][u] = IF u = t THEN inbound ELSE None
                      /\ RowsOf(p)[u] = IF u = t THEN row ELSE None
  BY <1>1, <1>2, <1>3 DEF Only, RowsOf
<1>5. Live \subseteq {p}
  BY <1>1 DEF Live
<1>6. Matched(p)
  BY <1>3, <1>4 DEF Matched, Matches
<1>. QED
  BY <1>5, <1>6 DEF Follows

(* The rows of a profile stay when a step is about another one.              *)
LEMMA LocalRows ==
    ASSUME NEW p \in Profiles, NEW q \in Profiles \ {p}, Local(q, rows')
    PROVE  \A t \in Tags : RowsOf(p)'[t] = RowsOf(p)[t]
BY DEF Local, RowsOf

LEMMA KeptMatch ==
    ASSUME NEW p \in Profiles, Matched(p), \A t \in Tags : RowsOf(p)'[t] = RowsOf(p)[t],
           config'[p] = config[p], p \in mixed => p \in mixed'
    PROVE  Matched(p)'
BY DEF Matched, Matches

LEMMA KeptFollows ==
    ASSUME Follows, UNCHANGED <<config, rows, seeding, torn, mixed>>
    PROVE  Follows'
BY DEF Follows, Matched, Matches, Unseeded, Live, RowsOf

(* A sync by what is there makes the rows those of the configuration.        *)
LEMMA SyncMatch ==
    ASSUME TypeOK, NEW p \in Profiles, NEW want \in Config, ~Collides(RowsOf(p), want),
           rows' = Synced(p, RowsOf(p), want), config'[p] = want, Note(p, RowsOf(p), want)
    PROVE  Matched(p)'
<1>1. PICK read : read = RowsOf(p)
  OBVIOUS
<1>2. read \in Rows /\ TrueRead(p, read)
  BY <1>1, RowTypes
<1>3. ASSUME NEW t \in Tags PROVE Matches(p, mixed', RowsOf(p)'[t], want[t])
  <2>1. read[t] = (IF rows[t] # None /\ rows[t].profile = p THEN rows[t] ELSE None)
        /\ RowsOf(p)'[t] = IF rows'[t] # None /\ rows'[t].profile = p THEN rows'[t] ELSE None
    BY <1>1 DEF RowsOf
  <2>2. CASE t \in Added(read, want) /\ rows'[t] = Inserted(p, t, want[t])
    <3>1. want[t] # None /\ want[t] \in Inbound
      BY <2>2, AddedInbound DEF Added
    <3>2. /\ rows'[t] # None /\ rows'[t].profile = p
          /\ rows'[t].type = want[t].type /\ rows'[t].raw = want[t].raw
      BY <2>2, <3>1, InsertedRow
    <3>. QED
      BY <2>1, <3>1, <3>2 DEF Matches
  <2>3. CASE /\ t \in Updated(read, want)
             /\ rows[t] # None /\ rows[t].profile = p
             /\ rows'[t] = [rows[t] EXCEPT !.raw = want[t].raw]
    <3>1. rows[t] \in Row /\ want[t] \in Inbound /\ want[t] # None
      BY <2>3, RowTypes, ChangedInbound
    <3>2. rows[t].type = want[t].type
      BY <2>1, <2>3 DEF Updated, Changed, Fits
    <3>3. rows'[t] \in Row /\ rows'[t].profile = p
          /\ rows'[t].type = want[t].type /\ rows'[t].raw = want[t].raw
      BY <2>3, <3>1, <3>2 DEF Row, Inbound
    <3>4. rows'[t] # None
      BY <3>3, ProfileAssumption
    <3>. QED
      BY <2>1, <3>1, <3>3, <3>4 DEF Matches
  <2>4. CASE /\ t \notin Added(read, want) \cup Updated(read, want)
             /\ rows'[t] = None /\ t \in Removed(read, want)
    <3>1. want[t] = None
      BY <2>4 DEF Removed, Added
    <3>. QED
      BY <2>1, <2>4, <3>1 DEF Matches
  <2>5. CASE /\ t \notin Added(read, want) \cup Updated(read, want)
             /\ rows'[t] = rows[t] /\ ~(t \in Removed(read, want) /\ Still(read, t))
    <3>1. CASE read[t] = None
      <4>1. want[t] = None
        BY <2>5, <3>1 DEF Added, Fits
      <4>. QED
        BY <2>1, <2>5, <3>1, <4>1 DEF Matches
    <3>2. CASE read[t] # None
      <4>1. rows[t] # None /\ rows[t].profile = p /\ read[t] = rows[t] /\ Still(read, t)
        BY <2>1, <3>2 DEF Still
      <4>2. Fits(rows[t], want[t])
        BY <2>5, <3>2, <4>1 DEF Removed
      <4>3. rows[t].raw = want[t].raw \/ p \in mixed'
        <5>1. CASE rows[t].raw # want[t].raw
          <6>1. t \in Changed(read, want) /\ t \notin Updated(read, want)
            BY <2>5, <4>1, <4>2, <5>1 DEF Changed
          <6>. QED
            BY <1>1, <6>1 DEF Note
        <5>. QED
          BY <5>1
      <4>. QED
        BY <2>1, <2>5, <4>1, <4>2, <4>3 DEF Matches, Fits
    <3>. QED
      BY <3>1, <3>2
  <2>. HIDE DEF Matches
  <2>. QED
    BY <1>1, <1>2, <2>2, <2>3, <2>4, <2>5, SyncedRow
<1>. QED
  BY <1>3 DEF Matched, Matches

LEMMA CreateProfileFollows ==
    ASSUME Ground, Follows, NEW p \in Profiles, CreateProfile(p)
    PROVE  Follows'
<1>1. TypeOK /\ RowsLive /\ seeding = {}
  BY DEF Ground, CreateProfile, Request
<1>2. PICK want \in Config :
        /\ \A t \in Tags : want[t] # None => rows[t] = None
        /\ config' = [config EXCEPT ![p] = want]
        /\ rows' = [t \in Tags |-> IF want[t] # None THEN Inserted(p, t, want[t]) ELSE rows[t]]
  BY DEF CreateProfile
<1>3. \A t \in Tags : want[t] # None => want[t] \in Inbound
  BY DEF Config
<1>4. p \notin Live /\ Live' \subseteq Live \cup {p} /\ UNCHANGED <<torn, mixed>>
      /\ \A q \in Profiles : config'[q] = IF q = p THEN want ELSE config[q]
  BY <1>1, <1>2 DEF CreateProfile, Live, TypeOK, histVars
<1>5. Local(p, rows')
  BY <1>1, <1>2, <1>3, InsertedRow DEF Local
<1>6. ASSUME NEW q \in Live \ torn, q # p PROVE Matched(q)'
  <2>1. Matched(q) /\ q \in Profiles
    BY <1>1, <1>6, LiveProfiles DEF Follows, Unseeded
  <2>. QED
    BY <1>4, <1>5, <1>6, <2>1, LocalRows, KeptMatch
<1>7. Matched(p)'
  <2>1. ASSUME NEW t \in Tags PROVE Matches(p, mixed', RowsOf(p)'[t], want[t])
    <3>1. RowsOf(p)'[t] = IF rows'[t] # None /\ rows'[t].profile = p THEN rows'[t] ELSE None
      BY DEF RowsOf
    <3>2. CASE want[t] # None
      BY <1>1, <1>2, <1>3, <3>1, <3>2, InsertedRow DEF Matches
    <3>3. CASE want[t] = None
      <4>1. rows'[t] = rows[t] /\ (rows[t] # None => rows[t].profile # p)
        BY <1>1, <1>2, <1>4, <3>3 DEF RowsLive
      <4>. QED
        BY <3>1, <3>3, <4>1 DEF Matches
    <3>. QED
      BY <3>2, <3>3
  <2>. QED
    BY <1>4, <2>1 DEF Matched, Matches
<1>. QED
  BY <1>4, <1>6, <1>7 DEF Follows

LEMMA CommitEditFollows ==
    ASSUME Ground, Follows, NEW s \in Slots, CommitEdit(s)
    PROVE  Follows'
<1>1. TypeOK /\ RowsLive /\ seeding = {}
  BY DEF Ground, SeedAlone, CommitEdit, Is
<1>2. PICK o, p : o = slot[s] /\ p = o.profile
  OBVIOUS
<1>3. o \in Edit /\ TrueRead(p, o.read)
  BY <1>1, <1>2, SlotTypes DEF CommitEdit, Ground, AllSane, Sane
<1>4. p \in Live /\ p \in Profiles /\ o.read \in Rows /\ o.want \in Config
  BY <1>2, <1>3 DEF CommitEdit, CanCommit, Live, Edit
<1>5. /\ ~Collides(o.read, o.want) /\ rows' = Synced(p, o.read, o.want)
      /\ config' = [config EXCEPT ![p] = o.want] /\ Note(p, o.read, o.want)
  BY <1>2 DEF CommitEdit, CanCommit, SetRows
<1>6. Local(p, rows')
  BY <1>1, <1>3, <1>4, <1>5, SyncedRows
<1>7. \A q \in Profiles : config'[q] = IF q = p THEN o.want ELSE config[q]
  BY <1>1, <1>5 DEF TypeOK
<1>8. Live' \subseteq Live \cup {p}
  BY <1>7 DEF Live
<1>9. ASSUME NEW q \in Live' \ torn', q # p PROVE Matched(q)'
  <2>1. q \in Live \ torn /\ (q \in mixed => q \in mixed')
    BY <1>5, <1>8, <1>9 DEF Note
  <2>2. Matched(q) /\ q \in Profiles
    BY <1>1, <2>1, LiveProfiles DEF Follows, Unseeded
  <2>. QED
    BY <1>4, <1>6, <1>7, <1>9, <2>1, <2>2, LocalRows, KeptMatch
<1>10. ASSUME p \notin torn' PROVE Matched(p)'
  <2>1. o.read = RowsOf(p)
    BY <1>5, <1>10 DEF Note
  <2>. QED
    BY <1>1, <1>4, <1>5, <1>7, <2>1, SyncMatch
<1>. QED
  BY <1>9, <1>10 DEF Follows

LEMMA DeleteProfileFollows ==
    ASSUME Ground, Follows, NEW p \in Profiles, DeleteProfile(p)
    PROVE  Follows'
<1>1. TypeOK /\ RowsLive /\ seeding = {}
  BY DEF Ground, DeleteProfile, Request
<1>2. Live' \subseteq Live \ {p} /\ torn' = torn \ {p} /\ mixed' = mixed \ {p}
      /\ \A q \in Profiles \ {p} : config'[q] = config[q]
  BY <1>1 DEF DeleteProfile, Live, TypeOK
<1>3. Local(p, rows')
  BY DEF DeleteProfile, SetRows, Local, RowsOf
<1>4. ASSUME NEW q \in Live' \ torn' PROVE Matched(q)'
  <2>1. q \in Live \ torn /\ q # p /\ (q \in mixed => q \in mixed')
    BY <1>2, <1>4
  <2>2. Matched(q) /\ q \in Profiles
    BY <1>1, <2>1, LiveProfiles DEF Follows, Unseeded
  <2>. QED
    BY <1>2, <1>3, <2>1, <2>2, LocalRows, KeptMatch
<1>. QED
  BY <1>4 DEF Follows

LEMMA RestartFollows ==
    ASSUME Ground, Follows, Restart
    PROVE  Follows'
<1>1. TypeOK /\ RowsLive /\ UNCHANGED <<rows, torn, mixed>>
  BY DEF Ground, Restart
<1>2. CASE Live # {} /\ seeding' = Live /\ UNCHANGED config
  BY <1>1, <1>2 DEF Follows, Matched, Matches, Unseeded, RowsOf, Live
<1>3. CASE Live = {} /\ \E p \in Profiles, t \in Tags, inbound \in Inbound :
                /\ config' = [config EXCEPT ![p] = Only(t, inbound)]
                /\ seeding' = {p}
  <2>1. PICK p \in Profiles, t \in Tags, inbound \in Inbound :
            config' = [config EXCEPT ![p] = Only(t, inbound)] /\ seeding' = {p}
    BY <1>3
  <2>2. Only(t, inbound) # None
    BY ProfileAssumption DEF Config, Only
  <2>3. Live' = {p}
    BY <1>1, <1>3, <2>1, <2>2 DEF Live, TypeOK
  <2>4. \A u \in Tags : rows'[u] = None
    BY <1>1, <1>3 DEF RowsLive
  <2>. QED
    BY <2>1, <2>3, <2>4 DEF Follows, Unseeded
<1>. QED
  BY <1>2, <1>3 DEF Restart

LEMMA SeedProfileFollows ==
    ASSUME Ground, Follows, NEW p \in Profiles, SeedProfile(p)
    PROVE  Follows'
<1>1. TypeOK /\ RowsLive /\ p \in Live /\ config[p] \in Config
  BY LiveProfiles DEF Ground, SeedProfile, TypeOK
<1>2. /\ ~Collides(RowsOf(p), config[p]) /\ rows' = Synced(p, RowsOf(p), config[p])
      /\ Note(p, RowsOf(p), config[p]) /\ config' = config /\ Live' = Live
  BY DEF SeedProfile, SetRows, Live
<1>3. Local(p, rows')
  BY <1>1, <1>2, RowTypes, SyncedRows
<1>4. Matched(p)'
  BY <1>1, <1>2, SyncMatch
<1>5. ASSUME NEW q \in Live' \ torn', q # p PROVE Matched(q)'
  <2>1. q \in Live \ torn /\ (q \in mixed => q \in mixed')
    BY <1>2, <1>5 DEF Note
  <2>2. Matched(q) /\ q \in Profiles
    BY <1>1, <1>5, <2>1, LiveProfiles DEF Follows, Unseeded
  <2>. QED
    BY <1>2, <1>3, <1>5, <2>1, <2>2, LocalRows, KeptMatch
<1>. QED
  BY <1>4, <1>5 DEF Follows

LEMMA SeedStopsFollows ==
    ASSUME Ground, Follows, NEW p \in Profiles, SeedStops(p)
    PROVE  Follows'
<1>1. TypeOK /\ RowsLive /\ p \in Live /\ config[p] \in Config
  BY LiveProfiles DEF Ground, SeedStops, TypeOK
<1>2. PICK read, gone : read = RowsOf(p) /\ gone = Removed(read, config[p])
  OBVIOUS
<1>3. /\ rows' = Without(read, gone) /\ seeding' = Live /\ UNCHANGED <<config, torn, mixed>>
      /\ Live' = Live
  BY <1>2 DEF SeedStops, SetRows, histVars, Live
<1>4. Local(p, rows')
  <2>1. read \in Rows /\ TrueRead(p, read) /\ gone \in SUBSET {t \in Tags : read[t] # None}
    BY <1>1, <1>2, RowTypes DEF Removed
  <2>. QED
    BY <1>1, <1>3, <2>1, WithoutRows
<1>5. ASSUME NEW q \in Live \ torn, q # p PROVE Matched(q)'
  <2>1. Matched(q) /\ q \in Profiles
    BY <1>1, <1>5, LiveProfiles DEF Follows, Unseeded
  <2>. QED
    BY <1>3, <1>4, <1>5, <2>1, LocalRows, KeptMatch
<1>6. ASSUME Matched(p) PROVE Matched(p)'
  <2>1. gone = {}
    BY <1>2, <1>6 DEF Removed, Fits, Matched, Matches
  <2>2. \A t \in Tags : rows'[t] = rows[t]
    BY <1>3, <2>1 DEF Without
  <2>3. \A t \in Tags : RowsOf(p)'[t] = RowsOf(p)[t]
    BY <2>2 DEF RowsOf
  <2>. QED
    BY <1>3, <1>6, <2>3, KeptMatch
<1>7. ASSUME Unseeded(p) PROVE Unseeded(p)'
  BY <1>1, <1>3, <1>7 DEF Unseeded, Without
<1>. QED
  BY <1>3, <1>5, <1>6, <1>7 DEF Follows

LEMMA FollowsStep ==
    ASSUME Ground, Follows, [Next]_vars
    PROVE  Follows'
<1>1. CASE \E p \in Profiles : CreateProfile(p) \/ DeleteProfile(p) \/ SeedProfile(p) \/ SeedStops(p)
  BY <1>1, CreateProfileFollows, DeleteProfileFollows, SeedProfileFollows, SeedStopsFollows
<1>2. CASE \E s \in Slots : CommitEdit(s)
  BY <1>2, CommitEditFollows
<1>3. CASE Restart
  BY <1>3, RestartFollows
<1>4. CASE \/ \E s \in Slots, p \in Profiles : BeginEdit(s, p)
           \/ \E s \in Slots, h \in Hosts : BeginCreate(s, h) \/ BeginUpdate(s, h) \/ BeginAssign(s, h)
           \/ \E s \in Slots :
                FailEdit(s) \/ ClearList(s) \/ AddList(s) \/ WriteHost(s) \/ FailHost(s)
           \/ \E h \in Hosts : DeleteHost(h)
           \/ UNCHANGED vars
  <2>1. UNCHANGED <<config, rows, seeding, torn, mixed>>
    BY <1>4 DEF BeginEdit, BeginCreate, BeginUpdate, BeginAssign, FailEdit, ClearList, AddList,
                WriteHost, FailHost, DeleteHost, vars, histVars
  <2>. QED
    BY <2>1, KeptFollows
<1>. QED
  BY <1>1, <1>2, <1>3, <1>4 DEF Next

LEMMA FollowsSuffices ==
    ASSUME Ground, Follows
    PROVE  RowsFollowConfig
<1>1. SUFFICES ASSUME NEW p \in Live \ torn
               PROVE  /\ p \in seeding => ~Collides(RowsOf(p), config[p])
                      /\ p \notin seeding => Matched(p)
  BY DEF RowsFollowConfig, Matched, Matches
<1>2. CASE Matched(p)
  <2>1. Added(RowsOf(p), config[p]) = {}
    BY <1>2 DEF Added, Fits, Matched, Matches
  <2>2. \A t \in Updated(RowsOf(p), config[p]) : Still(RowsOf(p), t)
    BY DEF Updated, Changed, Fits, Still, RowsOf
  <2>. QED
    BY <1>2, <2>1, <2>2 DEF Collides
<1>3. CASE Unseeded(p)
  <2>1. \A t \in Tags : RowsOf(p)[t] = None /\ rows[t] = None
    BY <1>3 DEF Unseeded, RowsOf
  <2>2. ~Collides(RowsOf(p), config[p])
    BY <2>1 DEF Collides, Added, Updated, Changed, Fits
  <2>. QED
    BY <1>3, <2>2 DEF Unseeded
<1>. QED
  BY <1>2, <1>3 DEF Follows

(* A profile whose last edit was not overtaken has the rows of its           *)
(* configuration, or the seed of a start can make them: syncInbounds by what *)
(* is there leaves nothing over and nothing out.                             *)
THEOREM RowsFollow == Spec => []RowsFollowConfig
<1>1. Init => Follows
  BY InitFollows
<1>2. Ground /\ Follows /\ [Next]_vars => Follows'
  BY FollowsStep
<1>3. Ground /\ Follows => RowsFollowConfig
  BY FollowsSuffices
<1>. QED
  BY <1>1, <1>2, <1>3, AlwaysGround, PTL DEF Spec

-----------------------------------------------------------------------------
(* HostsKeepInbound: a host loses its inbound with the row only, and the row *)
(* only when it does not fit what the configuration then says.               *)

Loses(h) ==
    /\ host[h] # None /\ host[h].inbound # None
    /\ host'[h] # None /\ host'[h].inbound = None
Entitled(h) ==
    LET row == RowOf(host[h].inbound)
    IN config'[row.profile] = None \/ ~Fits(row, config'[row.profile][host[h].inbound.tag])
Keeps == \A h \in Hosts : Loses(h) => Entitled(h)

(* The row that goes.                                                       *)
LEMMA LostRow ==
    ASSUME Ground, Kin(rows'), NEW live \in SUBSET Profiles,
           \A u \in Tags : rows'[u] # None => rows'[u].profile \in live,
           host' = Detached(rows', live), NEW h \in Hosts, Loses(h)
    PROVE  \E t \in Tags :
             /\ t = host[h].inbound.tag /\ RowOf(host[h].inbound) = rows[t]
             /\ rows[t] # None /\ rows[t] \in Row
             /\ rows'[t] = None \/ rows'[t].uuid # rows[t].uuid
<1>1. TypeOK /\ host[h] \in Host
  BY DEF Ground, TypeOK, Loses
<1>2. PICK ref : ref = host[h].inbound
  OBVIOUS
<1>3. ref \in Ref /\ RowOf(ref) # None
  BY <1>1, <1>2 DEF Host, TypeOK, Loses
<1>4. ref.tag \in Tags
  BY <1>3 DEF Ref
<1>5. rows[ref.tag] # None /\ rows[ref.tag].uuid = ref.uuid /\ RowOf(ref) = rows[ref.tag]
  BY <1>3 DEF RowOf
<1>6. ~(rows'[ref.tag] # None /\ rows'[ref.tag].uuid = ref.uuid)
  BY <1>1, <1>2, DetachedHost DEF Loses
<1>. QED
  BY <1>1, <1>2, <1>4, <1>5, <1>6, RowTypes

LEMMA SyncKeeps ==
    ASSUME Ground, NEW p \in Live, NEW read \in Rows, NEW want \in Config,
           TrueRead(p, read), ~Collides(read, want), config'[p] = want,
           rows' = Synced(p, read, want), host' = Detached(rows', Live)
    PROVE  Keeps
<1>1. TypeOK /\ RowsLive /\ Live \in SUBSET Profiles
  BY LiveProfiles DEF Ground
<1>2. Kin(rows') /\ Local(p, rows')
  BY <1>1, SyncedRows
<1>3. \A t \in Tags : rows'[t] # None => rows'[t].profile \in Live
  BY <1>1, <1>2 DEF Local, RowsLive
<1>4. ASSUME NEW h \in Hosts, Loses(h) PROVE Entitled(h)
  <2>1. PICK t \in Tags :
            /\ t = host[h].inbound.tag /\ RowOf(host[h].inbound) = rows[t]
            /\ rows[t] # None /\ rows[t] \in Row
            /\ rows'[t] = None \/ rows'[t].uuid # rows[t].uuid
    BY <1>1, <1>2, <1>3, <1>4, LostRow
  <2>2. rows'[t] # rows[t]
    BY <2>1
  <2>3. ASSUME t \in Updated(read, want), rows'[t] = [rows[t] EXCEPT !.raw = want[t].raw]
        PROVE  FALSE
    <3>1. want[t].raw \in Raws
      BY <2>3, ChangedInbound DEF Inbound
    <3>2. rows'[t] \in Row /\ rows'[t].uuid = rows[t].uuid
      BY <2>1, <2>3, <3>1 DEF Row
    <3>. QED
      BY <2>1, <3>2, ProfileAssumption
  <2>4. t \in Removed(read, want) /\ Still(read, t) /\ rows[t].profile = p
    BY <1>1, <2>1, <2>2, <2>3, SyncedRow
  <2>5. read[t] # None /\ ~Fits(read[t], want[t]) /\ rows[t].type = read[t].type
    BY <2>4 DEF Removed, TrueRead
  <2>6. ~Fits(rows[t], want[t])
    BY <2>5 DEF Fits
  <2>. QED
    BY <2>1, <2>4, <2>6 DEF Entitled
<1>. QED
  BY <1>4 DEF Keeps

LEMMA SeedStopsKeeps ==
    ASSUME Ground, NEW p \in Profiles, SeedStops(p)
    PROVE  Keeps
<1>1. TypeOK /\ RowsLive /\ p \in Live /\ config' = config /\ Live \in SUBSET Profiles
  BY LiveProfiles DEF Ground, SeedStops, TypeOK
<1>2. PICK read, gone : read = RowsOf(p) /\ gone = Removed(read, config[p])
  OBVIOUS
<1>3. read \in Rows /\ TrueRead(p, read) /\ gone \in SUBSET {t \in Tags : read[t] # None}
  BY <1>1, <1>2, RowTypes DEF Removed
<1>4. rows' = Without(read, gone) /\ host' = Detached(rows', Live)
  BY <1>2 DEF SeedStops, SetRows
<1>5. Kin(rows') /\ \A t \in Tags : rows'[t] # None => rows'[t].profile \in Live
  BY <1>1, <1>3, <1>4, WithoutRows DEF Without, RowsLive
<1>6. ASSUME NEW h \in Hosts, Loses(h) PROVE Entitled(h)
  <2>1. PICK t \in Tags :
            /\ t = host[h].inbound.tag /\ RowOf(host[h].inbound) = rows[t]
            /\ rows[t] # None /\ rows[t] \in Row
            /\ rows'[t] = None \/ rows'[t].uuid # rows[t].uuid
    BY <1>1, <1>4, <1>5, <1>6, LostRow
  <2>2. t \in gone
    BY <1>4, <2>1 DEF Without
  <2>3. rows[t] = read[t] /\ rows[t].profile = p /\ ~Fits(rows[t], config[p][t])
    BY <1>2, <2>2 DEF Removed, RowsOf
  <2>. QED
    BY <1>1, <2>1, <2>3 DEF Entitled
<1>. QED
  BY <1>6 DEF Keeps

LEMMA DeleteProfileKeeps ==
    ASSUME Ground, NEW p \in Profiles, DeleteProfile(p)
    PROVE  Keeps
<1>1. TypeOK /\ RowsLive /\ Live \ {p} \in SUBSET Profiles /\ config'[p] = None
  BY LiveProfiles DEF Ground, DeleteProfile, TypeOK
<1>2. /\ \A t \in Tags : rows'[t] = IF RowsOf(p)[t] # None THEN None ELSE rows[t]
      /\ host' = Detached(rows', Live \ {p})
  BY DEF DeleteProfile, SetRows
<1>3. Kin(rows')
  <2>1. rows' = [t \in Tags |-> IF RowsOf(p)[t] # None THEN None ELSE rows[t]]
    BY DEF DeleteProfile, SetRows
  <2>. QED
    BY <1>1, <2>1 DEF Kin, Akin, TypeOK, Rows
<1>4. \A t \in Tags : rows'[t] # None => rows'[t].profile \in Live \ {p}
  BY <1>1, <1>2 DEF RowsOf, RowsLive
<1>5. ASSUME NEW h \in Hosts, Loses(h) PROVE Entitled(h)
  <2>1. PICK t \in Tags :
            /\ t = host[h].inbound.tag /\ RowOf(host[h].inbound) = rows[t]
            /\ rows[t] # None /\ rows[t] \in Row
            /\ rows'[t] = None \/ rows'[t].uuid # rows[t].uuid
    BY <1>1, <1>2, <1>3, <1>4, <1>5, LostRow
  <2>2. rows[t].profile = p
    BY <1>2, <2>1 DEF RowsOf
  <2>. QED
    BY <1>1, <2>1, <2>2 DEF Entitled
<1>. QED
  BY <1>5 DEF Keeps

LEMMA SyncsKeep ==
    ASSUME Ground
    PROVE  /\ \A p \in Profiles : SeedProfile(p) => Keeps
           /\ \A s \in Slots : CommitEdit(s) => Keeps
<1>1. TypeOK /\ AllSane
  BY DEF Ground
<1>2. ASSUME NEW p \in Profiles, SeedProfile(p) PROVE Keeps
  <2>1. p \in Live /\ config[p] \in Config /\ config' = config
    BY <1>1, <1>2, LiveProfiles DEF SeedProfile, TypeOK
  <2>2. RowsOf(p) \in Rows /\ TrueRead(p, RowsOf(p))
    BY <1>1, RowTypes
  <2>. QED
    BY <1>2, <2>1, <2>2, SyncKeeps DEF SeedProfile, SetRows
<1>3. ASSUME NEW s \in Slots, CommitEdit(s) PROVE Keeps
  <2>1. PICK o, p : o = slot[s] /\ p = o.profile
    OBVIOUS
  <2>2. o \in Edit /\ TrueRead(p, o.read)
    BY <1>1, <1>3, <2>1, SlotTypes DEF CommitEdit, AllSane, Sane
  <2>3. p \in Live /\ p \in Profiles /\ o.read \in Rows /\ o.want \in Config
    BY <1>3, <2>1, <2>2 DEF CommitEdit, CanCommit, Live, Edit
  <2>4. config'[p] = o.want
    BY <1>1, <1>3, <2>1, <2>3 DEF CommitEdit, TypeOK
  <2>. QED
    BY <1>3, <2>1, <2>2, <2>3, <2>4, SyncKeeps DEF CommitEdit, CanCommit, SetRows
<1>. QED
  BY <1>2, <1>3

LEMMA HostsKeep ==
    ASSUME Ground
    PROVE  /\ \A s \in Slots : ClearList(s) \/ AddList(s) \/ WriteHost(s) => Keeps
           /\ \A h \in Hosts : DeleteHost(h) => Keeps
<1>1. TypeOK /\ HostsOK
  BY TypeParts DEF Ground
<1>2. ASSUME NEW s \in Slots, ClearList(s) PROVE Keeps
  <2>1. PICK h, l : h = slot[s].host /\ l = Head(slot[s].todo).list
    OBVIOUS
  <2>2. h \in Hosts /\ l \in Lists /\ {} \in SUBSET Items
    BY <1>2, <2>1, HeadTypes, HeadList DEF ClearList, At
  <2>3. host' = IF host[h] = None THEN host ELSE [host EXCEPT ![h][l] = {}]
    BY <1>2, <2>1 DEF ClearList
  <2>. QED
    BY <1>1, <2>2, <2>3, ListWrite DEF Keeps, Loses
<1>3. ASSUME NEW s \in Slots, AddList(s) PROVE Keeps
  <2>1. PICK o, h, l, items : /\ o = slot[s] /\ h = o.host /\ l = Head(o.todo).list
                              /\ items = host[h][l] \cup o.want[l]
    OBVIOUS
  <2>2. h \in Hosts /\ l \in Lists /\ o.want[l] \in SUBSET Items
    BY <1>3, <2>1, HeadTypes, HeadList DEF AddList, At
  <2>3. host' = IF host[h] = None THEN host ELSE [host EXCEPT ![h][l] = items]
    BY <1>3, <2>1 DEF AddList
  <2>4. CASE host[h] = None
    BY <2>3, <2>4 DEF Keeps, Loses
  <2>5. CASE host[h] # None
    <3>1. items \in SUBSET Items
      BY <1>1, <2>1, <2>2, <2>5 DEF HostsOK, Host, Lists
    <3>. QED
      BY <1>1, <2>2, <2>3, <3>1, ListWrite DEF Keeps, Loses
  <2>. QED
    BY <2>4, <2>5
<1>4. ASSUME NEW s \in Slots, WriteHost(s) PROVE Keeps
  BY <1>4, RowWrite DEF Keeps, Loses
<1>5. ASSUME NEW h \in Hosts, DeleteHost(h) PROVE Keeps
  BY <1>1, <1>5 DEF DeleteHost, HostsOK, Keeps, Loses
<1>. QED
  BY <1>2, <1>3, <1>4, <1>5

LEMMA KeepsStep ==
    ASSUME Ground, [Next]_vars
    PROVE  Keeps
<1>1. CASE \E p \in Profiles : DeleteProfile(p) \/ SeedProfile(p) \/ SeedStops(p)
  BY <1>1, DeleteProfileKeeps, SeedStopsKeeps, SyncsKeep
<1>2. CASE \E s \in Slots : CommitEdit(s) \/ ClearList(s) \/ AddList(s) \/ WriteHost(s)
  BY <1>2, SyncsKeep, HostsKeep
<1>3. CASE \E h \in Hosts : DeleteHost(h)
  BY <1>3, HostsKeep
<1>4. CASE \/ \E p \in Profiles : CreateProfile(p)
           \/ \E s \in Slots, p \in Profiles : BeginEdit(s, p)
           \/ \E s \in Slots, h \in Hosts : BeginCreate(s, h) \/ BeginUpdate(s, h) \/ BeginAssign(s, h)
           \/ \E s \in Slots : FailEdit(s) \/ FailHost(s)
           \/ Restart \/ UNCHANGED vars
  <2>1. UNCHANGED host
    BY <1>4 DEF CreateProfile, BeginEdit, BeginCreate, BeginUpdate, BeginAssign, FailEdit,
                FailHost, Restart, vars
  <2>. QED
    BY <2>1 DEF Keeps, Loses
<1>. QED
  BY <1>1, <1>2, <1>3, <1>4 DEF Next

(* A host loses its inbound only to a configuration that has none of that    *)
(* tag and type, however old the rows were by which an edit decided it.      *)
THEOREM HostsKeepTheirInbound == Spec => HostsKeepInbound
<1>1. Ground /\ [Next]_vars
      => [\A h \in Hosts :
            host[h] # None /\ host[h].inbound # None /\ host'[h] # None /\ host'[h].inbound = None =>
            LET row == RowOf(host[h].inbound)
            IN config'[row.profile] = None
               \/ ~Fits(row, config'[row.profile][host[h].inbound.tag])]_vars
  BY KeepsStep DEF Keeps, Loses, Entitled
<1>. QED
  BY <1>1, AlwaysGround, PTL DEF Spec, HostsKeepInbound

-----------------------------------------------------------------------------
(* ListsAsAsked: what the statements of a request still to come say of the   *)
(* lists of its host.                                                       *)

Adds(todo, l) == \E i \in DOMAIN todo : todo[i] \in {Add(l)}

LEMMA AddingOf ==
    ASSUME NEW s \in Slots, NEW h, NEW l
    PROVE  Adding(s, h, l) <=>
             /\ slot[s] # None /\ slot[s].host = h
             /\ \/ slot[s].op = "create" /\ host[h] # None /\ Adds(slot[s].todo, l)
                \/ slot[s].op = "update" /\ Head(slot[s].todo) = Add(l)
BY DEF Adding, Adds

(* A request to create a host adds to each list once.                        *)
LEMMA CreateSteps ==
    ASSUME NEW todo \in CreatePlans, NEW l \in Lists
    PROVE  /\ Head(todo) = WriteRow \/ Head(todo) \in {Add("nodes"), Add("excluded")}
           /\ Len(todo) = 1 => (Adds(todo, l) <=> Head(todo) = Add(l))
           /\ Len(todo) # 1 => (Adds(todo, l) <=> Head(todo) = Add(l) \/ Adds(Tail(todo), l))
           /\ Len(todo) # 1 /\ Head(todo) = Add(l) => ~Adds(Tail(todo), l)
           /\ Adds(todo, l) <=> Names(todo, l)
<1>1. PICK b, d, w : b = Add("nodes") /\ d = Add("excluded") /\ w = WriteRow
  OBVIOUS
<1>2. PICK X, Y : X = {Add(l)} /\ Y = {Clear(l), Add(l)}
  OBVIOUS
<1>3. /\ b # w /\ d # w /\ b # d /\ w \notin X /\ w \notin Y
      /\ b \in X <=> b \in Y
      /\ d \in X <=> d \in Y
      /\ ~(b \in X /\ d \in X)
      /\ \A step : step = Add(l) <=> step \in X
  BY <1>1, <1>2, Steps DEF Lists
<1>4. /\ Adds(todo, l) <=> \E i \in DOMAIN todo : todo[i] \in X
      /\ Adds(Tail(todo), l) <=> \E i \in DOMAIN Tail(todo) : Tail(todo)[i] \in X
      /\ Names(todo, l) <=> \E i \in DOMAIN todo : todo[i] \in Y
  BY <1>2 DEF Adds, Names
<1>5. todo \in {<<w, b, d>>, <<w, b>>, <<w, d>>, <<w>>, <<b, d>>, <<b>>, <<d>>}
  BY <1>1 DEF CreatePlans
<1>6. ASSUME todo = <<w, b, d>>
      PROVE  /\ Len(todo) # 1 /\ Head(todo) = w
             /\ Adds(todo, l) <=> b \in X \/ d \in X
             /\ Names(todo, l) <=> b \in Y \/ d \in Y
             /\ Adds(Tail(todo), l) <=> b \in X \/ d \in X
  <2>1. Len(todo) = 3 /\ Head(todo) = w /\ Tail(todo) = <<b, d>>
    BY <1>6, Tuples
  <2>2. (\E i \in DOMAIN todo : todo[i] \in X) <=> b \in X \/ d \in X
    BY <1>3, <1>6, Tuples
  <2>3. (\E i \in DOMAIN todo : todo[i] \in Y) <=> b \in Y \/ d \in Y
    BY <1>3, <1>6, Tuples
  <2>4. (\E i \in DOMAIN Tail(todo) : Tail(todo)[i] \in X) <=> b \in X \/ d \in X
    <3>1. (\E i \in DOMAIN <<b, d>> : <<b, d>>[i] \in X) <=> b \in X \/ d \in X
      BY Tuples
    <3>. QED
      BY <2>1, <3>1, Zenon
  <2>. QED
    BY <1>4, <2>1, <2>2, <2>3, <2>4
<1>7. ASSUME NEW u, NEW v, todo = <<u, v>>
      PROVE  /\ Len(todo) # 1 /\ Head(todo) = u
             /\ Adds(todo, l) <=> u \in X \/ v \in X
             /\ Names(todo, l) <=> u \in Y \/ v \in Y
             /\ Adds(Tail(todo), l) <=> v \in X
  <2>1. Len(todo) = 2 /\ Head(todo) = u /\ Tail(todo) = <<v>>
    BY <1>7, Tuples
  <2>2. (\E i \in DOMAIN todo : todo[i] \in X) <=> u \in X \/ v \in X
    BY <1>7, Tuples
  <2>3. (\E i \in DOMAIN todo : todo[i] \in Y) <=> u \in Y \/ v \in Y
    BY <1>7, Tuples
  <2>4. (\E i \in DOMAIN Tail(todo) : Tail(todo)[i] \in X) <=> v \in X
    <3>1. (\E i \in DOMAIN <<v>> : <<v>>[i] \in X) <=> v \in X
      BY Tuples
    <3>. QED
      BY <2>1, <3>1, Zenon
  <2>. QED
    BY <1>4, <2>1, <2>2, <2>3, <2>4
<1>8. ASSUME NEW u, todo = <<u>>
      PROVE  /\ Len(todo) = 1 /\ Head(todo) = u
             /\ Adds(todo, l) <=> u \in X
             /\ Names(todo, l) <=> u \in Y
  <2>1. Len(todo) = 1 /\ Head(todo) = u
    BY <1>8, Tuples
  <2>2. (\E i \in DOMAIN todo : todo[i] \in X) <=> u \in X
    BY <1>8, Tuples
  <2>3. (\E i \in DOMAIN todo : todo[i] \in Y) <=> u \in Y
    BY <1>8, Tuples
  <2>. QED
    BY <1>4, <2>1, <2>2, <2>3
<1>9. /\ Head(todo) = w \/ Head(todo) \in {b, d}
      /\ Len(todo) = 1 => (Adds(todo, l) <=> Head(todo) \in X)
      /\ Len(todo) # 1 => (Adds(todo, l) <=> Head(todo) \in X \/ Adds(Tail(todo), l))
      /\ Len(todo) # 1 /\ Head(todo) \in X => ~Adds(Tail(todo), l)
      /\ Adds(todo, l) <=> Names(todo, l)
  <2>1. CASE todo = <<w, b, d>>
    BY <1>3, <1>6, <2>1
  <2>2. CASE todo = <<w, b>>
    BY <1>3, <1>7, <2>2
  <2>3. CASE todo = <<w, d>>
    BY <1>3, <1>7, <2>3
  <2>4. CASE todo = <<w>>
    BY <1>3, <1>8, <2>4
  <2>5. CASE todo = <<b, d>>
    BY <1>3, <1>7, <2>5
  <2>6. CASE todo = <<b>>
    BY <1>3, <1>8, <2>6
  <2>7. CASE todo = <<d>>
    BY <1>3, <1>8, <2>7
  <2>. QED
    BY <1>5, <2>1, <2>2, <2>3, <2>4, <2>5, <2>6, <2>7
<1>. QED
  BY <1>1, <1>3, <1>9

(* A request to update one clears a list and then adds to it.                *)
LEMMA UpdateSteps ==
    ASSUME NEW todo \in UpdatePlans, NEW l \in Lists
    PROVE  /\ Head(todo) = Clear(l) => Len(todo) # 1 /\ Head(Tail(todo)) = Add(l)
           /\ Head(todo) = Add(l) =>
                Len(todo) # 1 /\ \A m \in Lists : Head(Tail(todo)) # Add(m)
           /\ Head(todo) = WriteRow => Len(todo) = 1
<1>1. PICK a, b, c, d, w : /\ a = Clear("nodes") /\ b = Add("nodes")
                           /\ c = Clear("excluded") /\ d = Add("excluded") /\ w = WriteRow
  OBVIOUS
<1>2. PICK x, y : x = Clear(l) /\ y = Add(l)
  OBVIOUS
<1>3. /\ a # w /\ b # w /\ c # w /\ d # w /\ x # w /\ y # w /\ a # c /\ b # d
      /\ b # x /\ d # x /\ a # y /\ c # y
      /\ (x = a /\ y = b /\ x # c /\ y # d) \/ (x = c /\ y = d /\ x # a /\ y # b)
  BY <1>1, <1>2, Steps DEF Lists
<1>4. \A m \in Lists : c # Add(m) /\ w # Add(m)
  BY <1>1, Steps DEF Lists
<1>5. todo \in {<<a, b, c, d, w>>, <<b, c, d, w>>, <<c, d, w>>, <<d, w>>, <<a, b, w>>,
                <<b, w>>, <<w>>}
  BY <1>1 DEF UpdatePlans
<1>6. CASE todo = <<a, b, c, d, w>>
  BY <1>1, <1>2, <1>3, <1>6, Tuples
<1>7. CASE todo = <<b, c, d, w>>
  BY <1>1, <1>2, <1>3, <1>4, <1>7, Tuples
<1>8. CASE todo = <<c, d, w>> \/ todo = <<a, b, w>>
  BY <1>1, <1>2, <1>3, <1>8, Tuples
<1>9. CASE todo = <<d, w>> \/ todo = <<b, w>>
  BY <1>1, <1>2, <1>3, <1>4, <1>9, Tuples
<1>10. CASE todo = <<w>>
  BY <1>1, <1>2, <1>3, <1>10, Tuples
<1>. QED
  BY <1>5, <1>6, <1>7, <1>8, <1>9, <1>10

-----------------------------------------------------------------------------
(* The invariant of the lists: nobody else has a request about a host that   *)
(* is yet to be created; who will add to a list that is not crossed is alone, *)
(* means what was last asked for, and finds the list empty; without such a    *)
(* request the list is what was asked for.                                   *)

Creating(s) == Is(s, "create") /\ Head(slot[s].todo) = WriteRow
Sole ==
    \A s \in Slots : Creating(s) =>
        /\ host[slot[s].host] = None
        /\ \A o \in Slots \ {s} : OnHost(o) => slot[o].host # slot[s].host
Pending(h, l) ==
    \A s \in Slots : Adding(s, h, l) =>
        /\ slot[s].want[l] = asked[h][l] /\ host[h][l] = {}
        /\ \A o \in Slots : Adding(o, h, l) => o = s
Settled(h, l) == (\A s \in Slots : ~Adding(s, h, l)) => host[h][l] = asked[h][l]
Sound(h, l) == host[h] # None /\ <<h, l>> \notin crossed => Pending(h, l) /\ Settled(h, l)
ListsSound == Sole /\ \A h \in Hosts, l \in Lists : Sound(h, l)

(* A step that leaves a list alone, and who will add to it.                  *)
LEMMA KeptSound ==
    ASSUME NEW h \in Hosts, NEW l \in Lists, Sound(h, l),
           host'[h] # None => /\ host[h] # None /\ host'[h][l] = host[h][l]
                              /\ asked'[h][l] = asked[h][l]
                              /\ <<h, l>> \in crossed => <<h, l>> \in crossed'
                              /\ \A s \in Slots : Adding(s, h, l)' =>
                                    Adding(s, h, l) /\ slot'[s].want = slot[s].want
                              /\ \A s \in Slots : Adding(s, h, l) =>
                                    Adding(s, h, l)' \/ <<h, l>> \in crossed'
    PROVE  Sound(h, l)'
<1>. SUFFICES ASSUME host'[h] # None, <<h, l>> \notin crossed' PROVE Pending(h, l)' /\ Settled(h, l)'
  BY DEF Sound
<1>1. Pending(h, l) /\ Settled(h, l)
  BY DEF Sound
<1>2. Pending(h, l)'
  <2>. SUFFICES ASSUME NEW s \in Slots, Adding(s, h, l)'
                PROVE  /\ slot'[s].want[l] = asked'[h][l] /\ host'[h][l] = {}
                       /\ \A o \in Slots : Adding(o, h, l)' => o = s
    BY DEF Pending
  <2>. QED
    BY <1>1 DEF Pending
<1>3. Settled(h, l)'
  <2>. SUFFICES ASSUME \A s \in Slots : ~Adding(s, h, l)' PROVE host'[h][l] = asked'[h][l]
    BY DEF Settled
  <2>. QED
    BY <1>1 DEF Settled
<1>. QED
  BY <1>2, <1>3

LEMMA KeptSole ==
    ASSUME Sole,
           \A s \in Slots : Creating(s)' =>
                Creating(s) /\ slot'[s].host = slot[s].host
                /\ (host[slot[s].host] = None => host'[slot[s].host] = None),
           \A s \in Slots : OnHost(s)' => OnHost(s) /\ slot'[s].host = slot[s].host
    PROVE  Sole'
<1>. SUFFICES ASSUME NEW s \in Slots, Creating(s)'
              PROVE  /\ host'[slot'[s].host] = None
                     /\ \A o \in Slots \ {s} : OnHost(o)' => slot'[o].host # slot'[s].host
  BY DEF Sole
<1>. QED
  BY DEF Sole

(* A step after which every request is as it was or gone, whose going leaves *)
(* a mark on what it had still to add.                                      *)
LEMMA KeptLists ==
    ASSUME Ground, ListsSound, \A s \in Slots : slot'[s] \in {slot[s], None},
           \A h \in Hosts : /\ host'[h] # None <=> host[h] # None
                            /\ host'[h] # None => \A l \in Lists : host'[h][l] = host[h][l],
           UNCHANGED asked, crossed \subseteq crossed',
           \A s \in Slots, h \in Hosts, l \in Lists :
                Adding(s, h, l) => slot'[s] = slot[s] \/ <<h, l>> \in crossed'
    PROVE  ListsSound'
<1>1. \A s \in Slots : OnHost(s)' => OnHost(s) /\ slot'[s] = slot[s] /\ slot[s].host \in Hosts
  BY HeadTypes DEF OnHost
<1>2. Sole'
  <2>1. \A s \in Slots : Creating(s)' => Creating(s) /\ OnHost(s)'
    BY DEF Creating, Is, OnHost
  <2>. QED
    BY <1>1, <2>1, KeptSole DEF ListsSound
<1>3. ASSUME NEW h \in Hosts, NEW l \in Lists PROVE Sound(h, l)'
  <2>1. \A s \in Slots : slot'[s] = slot[s] => (Adding(s, h, l)' <=> Adding(s, h, l))
    BY DEF Adding
  <2>2. \A s \in Slots : Adding(s, h, l)' => slot'[s] = slot[s]
    BY DEF Adding
  <2>3. Sound(h, l)
    BY DEF ListsSound
  <2>. QED
    BY <2>1, <2>2, <2>3, KeptSound
<1>. QED
  BY <1>2, <1>3 DEF ListsSound

(* A new request that does not begin by adding to a list.                    *)
LEMMA BeginLists ==
    ASSUME Ground, ListsSound, NEW s \in Slots, slot[s] = None, NEW o,
           slot' = [slot EXCEPT ![s] = o], UNCHANGED <<host, asked, crossed>>,
           o # None, o.op = "edit" \/ (o.host \in Hosts /\ o.op \in {"create", "update", "assign"}),
           o.op = "update" => \A l \in Lists : Head(o.todo) # Add(l),
           o.op \in {"update", "assign"} => host[o.host] # None,
           o.op = "create" => /\ host[o.host] = None
                              /\ \A r \in Slots : OnHost(r) => slot[r].host # o.host
    PROVE  ListsSound'
<1>1. slot'[s] = o /\ \A r \in Slots \ {s} : slot'[r] = slot[r]
  BY DEF Ground, TypeOK
<1>2. ASSUME NEW h \in Hosts, NEW l \in Lists PROVE Sound(h, l)'
  <2>1. Sound(h, l)
    BY DEF ListsSound
  <2>2. host[h] # None => ~Adding(s, h, l)'
    BY <1>1 DEF Adding
  <2>3. \A r \in Slots \ {s} : Adding(r, h, l)' <=> Adding(r, h, l)
    BY <1>1 DEF Adding
  <2>4. ~Adding(s, h, l)
    BY DEF Adding
  <2>. QED
    BY <1>1, <2>1, <2>2, <2>3, <2>4, KeptSound
<1>3. Sole'
  <2>. SUFFICES ASSUME NEW r \in Slots, Creating(r)'
                PROVE  /\ host'[slot'[r].host] = None
                       /\ \A q \in Slots \ {r} : OnHost(q)' => slot'[q].host # slot'[r].host
    BY DEF Sole
  <2>1. CASE r = s
    <3>1. o.op = "create"
      BY <1>1, <2>1 DEF Creating, Is
    <3>2. \A q \in Slots \ {s} : OnHost(q)' => OnHost(q)
      BY <1>1 DEF OnHost
    <3>. QED
      BY <1>1, <2>1, <3>1, <3>2
  <2>2. CASE r # s
    <3>1. Creating(r) /\ OnHost(r)
      BY <1>1, <2>2 DEF Creating, Is, OnHost
    <3>2. /\ host[slot[r].host] = None
          /\ \A q \in Slots \ {r} : OnHost(q) => slot[q].host # slot[r].host
      BY <3>1 DEF ListsSound, Sole
    <3>3. OnHost(s)' => o.host # slot[r].host
      BY <1>1, <3>1, <3>2 DEF OnHost
    <3>4. \A q \in Slots \ {r, s} : OnHost(q)' => slot'[q].host # slot[r].host
      BY <1>1, <3>2 DEF OnHost
    <3>. QED
      BY <1>1, <2>2, <3>2, <3>3, <3>4
  <2>. QED
    BY <2>1, <2>2
<1>. QED
  BY <1>2, <1>3 DEF ListsSound

LEMMA BeginsLists ==
    ASSUME Ground, ListsSound, NEW s \in Slots
    PROVE  /\ \A p \in Profiles : BeginEdit(s, p) => ListsSound'
           /\ \A h \in Hosts : BeginCreate(s, h) => ListsSound'
           /\ \A h \in Hosts : BeginUpdate(s, h) => ListsSound'
           /\ \A h \in Hosts : BeginAssign(s, h) => ListsSound'
<1>1. ASSUME NEW p \in Profiles, BeginEdit(s, p) PROVE ListsSound'
  <2>1. PICK want \in Config :
            slot' = [slot EXCEPT ![s] =
                [op |-> "edit", profile |-> p, read |-> RowsOf(p), want |-> want]]
    BY <1>1 DEF BeginEdit
  <2>2. PICK o : o = [op |-> "edit", profile |-> p, read |-> RowsOf(p), want |-> want]
    OBVIOUS
  <2>3. o \in Edit /\ o.op = "edit"
    BY <2>2, RowTypes DEF Edit, Ground
  <2>4. o # None
    BY <2>3, ProfileAssumption
  <2>. QED
    BY <1>1, <2>1, <2>2, <2>3, <2>4, BeginLists DEF BeginEdit, histVars
<1>2. ASSUME NEW op \in {"create", "update", "assign"}, NEW h \in Hosts,
             NEW c \in Choices \cup {Unchosen}, NEW want \in [Lists -> (SUBSET Items) \cup {None}],
             NEW todo \in CreatePlans \cup UpdatePlans, Begin(s, op, h, c, want, todo),
             slot[s] = None, UNCHANGED <<host, histVars>>,
             op = "update" => \A l \in Lists : Head(todo) # Add(l),
             op \in {"update", "assign"} => host[h] # None,
             op = "create" => host[h] = None /\ \A r \in Slots : OnHost(r) => slot[r].host # h
      PROVE  ListsSound'
  <2>1. PICK o : o = [op |-> op, host |-> h, profile |-> c.profile, inbound |-> c.inbound,
                      want |-> want, todo |-> todo]
    OBVIOUS
  <2>2. todo \in Seq(Step) /\ c.profile \in Profiles \cup {None} /\ c.inbound \in Ref \cup {None}
    BY <1>2, PlanTypes, ChoiceTypes
  <2>3. o \in HostRequest /\ o.op = op /\ o.host = h /\ o.todo = todo
    BY <2>1, <2>2 DEF HostRequest
  <2>4. o # None
    BY <2>3, ProfileAssumption
  <2>5. slot' = [slot EXCEPT ![s] = o]
    BY <1>2, <2>1 DEF Begin
  <2>. QED
    BY <1>2, <2>3, <2>4, <2>5, BeginLists DEF histVars
<1>3. ASSUME NEW h \in Hosts, BeginCreate(s, h) PROVE ListsSound'
  <2>1. PICK c \in Choices, want \in [Lists -> SUBSET Items] :
            Begin(s, "create", h, c, want,
                  <<WriteRow>> \o If(want["nodes"] # {}, <<Add("nodes")>>)
                               \o If(want["excluded"] # {}, <<Add("excluded")>>))
    BY <1>3 DEF BeginCreate
  <2>2. PICK todo : todo = <<WriteRow>> \o If(want["nodes"] # {}, <<Add("nodes")>>)
                                        \o If(want["excluded"] # {}, <<Add("excluded")>>)
    OBVIOUS
  <2>3. todo \in CreatePlans
    BY <2>2, CreatePlan
  <2>4. want \in [Lists -> (SUBSET Items) \cup {None}] /\ c \in Choices \cup {Unchosen}
    OBVIOUS
  <2>. QED
    BY <1>2, <1>3, <2>1, <2>2, <2>3, <2>4 DEF BeginCreate
<1>4. ASSUME NEW h \in Hosts, BeginUpdate(s, h) PROVE ListsSound'
  <2>1. PICK c \in Choices \cup {Unchosen}, want \in [Lists -> (SUBSET Items) \cup {None}] :
            Begin(s, "update", h, c, want,
                  Replace(want, "nodes") \o Replace(want, "excluded") \o <<WriteRow>>)
    BY <1>4 DEF BeginUpdate
  <2>2. PICK todo : todo = Replace(want, "nodes") \o Replace(want, "excluded") \o <<WriteRow>>
    OBVIOUS
  <2>3. todo \in UpdatePlans /\ \A l \in Lists : Head(todo) # Add(l)
    BY <2>2, UpdatePlan
  <2>. QED
    BY <1>2, <1>4, <2>1, <2>2, <2>3 DEF BeginUpdate
<1>5. ASSUME NEW h \in Hosts, BeginAssign(s, h) PROVE ListsSound'
  <2>1. PICK c, want, todo :
            /\ c \in Choices /\ Begin(s, "assign", h, c, want, todo) /\ want = [l \in Lists |-> None]
            /\ todo = <<WriteRow>>
    BY <1>5 DEF BeginAssign
  <2>2. todo \in UpdatePlans /\ want \in [Lists -> (SUBSET Items) \cup {None}]
    BY <2>1 DEF UpdatePlans
  <2>. QED
    BY <1>2, <1>5, <2>1, <2>2 DEF BeginAssign
<1>. QED
  BY <1>1, <1>3, <1>4, <1>5

(* Foreign keys leave the lists of a host.                                   *)
LEMMA DetachedLists ==
    ASSUME TypeOK, NEW new, NEW live, host' = Detached(new, live), NEW h \in Hosts
    PROVE  /\ host'[h] # None <=> host[h] # None
           /\ host'[h] # None => \A l \in Lists : host'[h][l] = host[h][l]
<1>1. CASE host[h] = None
  BY <1>1 DEF Detached
<1>2. CASE host[h] # None
  <2>1. PICK o : o = host[h]
    OBVIOUS
  <2>2. PICK inbound \in {o.inbound, None}, profile \in {o.profile, None} :
            host'[h] = [o EXCEPT !.inbound = inbound, !.profile = profile]
    BY <1>2, <2>1 DEF Detached
  <2>3. o \in Host
    BY <1>2, <2>1 DEF TypeOK
  <2>4. host'[h] \in Host /\ host'[h].nodes = o.nodes /\ host'[h].excluded = o.excluded
    BY <2>2, <2>3 DEF Host
  <2>5. host'[h] # None
    BY <2>4, ProfileAssumption
  <2>. QED
    BY <1>2, <2>1, <2>4, <2>5 DEF Lists
<1>. QED
  BY <1>1, <1>2

LEMMA ProfilesLists ==
    ASSUME Ground, ListsSound,
           \/ \E p \in Profiles : DeleteProfile(p) \/ SeedProfile(p) \/ SeedStops(p)
           \/ \E s \in Slots : CommitEdit(s)
    PROVE  ListsSound'
<1>1. PICK live : host' = Detached(rows', live)
  BY DEF DeleteProfile, SeedProfile, SeedStops, CommitEdit, SetRows
<1>2. \A h \in Hosts : /\ host'[h] # None <=> host[h] # None
                       /\ host'[h] # None => \A l \in Lists : host'[h][l] = host[h][l]
  BY <1>1, DetachedLists DEF Ground
<1>3. UNCHANGED <<asked, crossed>>
  BY DEF DeleteProfile, SeedProfile, SeedStops, CommitEdit, histVars
<1>4. CASE UNCHANGED slot
  BY <1>2, <1>3, <1>4, KeptLists
<1>5. ASSUME NEW s \in Slots, CommitEdit(s) PROVE ListsSound'
  <2>1. \A r \in Slots : slot'[r] = IF r = s THEN None ELSE slot[r]
    BY <1>5 DEF CommitEdit, Done, Ground, TypeOK
  <2>2. \A h \in Hosts, l \in Lists : ~Adding(s, h, l)
    BY <1>5 DEF CommitEdit, Is, Adding
  <2>. QED
    BY <1>2, <1>3, <2>1, <2>2, KeptLists
<1>. QED
  BY <1>4, <1>5 DEF DeleteProfile, SeedProfile, SeedStops

LEMMA StopsLists ==
    ASSUME Ground, ListsSound
    PROVE  /\ Restart => ListsSound'
           /\ \A s \in Slots : FailEdit(s) => ListsSound'
           /\ \A s \in Slots : FailHost(s) => ListsSound'
<1>1. slot \in [Slots -> Edit \cup HostRequest \cup {None}]
  BY DEF Ground, TypeOK
<1>2. ASSUME Restart PROVE ListsSound'
  <2>1. \A s \in Slots : slot'[s] = None
    BY <1>2 DEF Restart
  <2>2. \A s \in Slots, h \in Hosts, l \in Lists : Adding(s, h, l) => <<h, l>> \in crossed'
    BY <1>2, UnfinishedPairs DEF Restart
  <2>3. UNCHANGED <<host, asked>> /\ crossed \subseteq crossed'
    BY <1>2 DEF Restart
  <2>. QED
    BY <2>1, <2>2, <2>3, KeptLists
<1>3. ASSUME NEW s \in Slots, FailEdit(s) PROVE ListsSound'
  <2>1. \A r \in Slots : slot'[r] = IF r = s THEN None ELSE slot[r]
    BY <1>1, <1>3 DEF FailEdit, Done
  <2>2. \A h \in Hosts, l \in Lists : ~Adding(s, h, l)
    BY <1>3 DEF FailEdit, Is, Adding
  <2>3. UNCHANGED <<host, asked, crossed>>
    BY <1>3 DEF FailEdit, histVars
  <2>. QED
    BY <2>1, <2>2, <2>3, KeptLists
<1>4. ASSUME NEW s \in Slots, FailHost(s) PROVE ListsSound'
  <2>1. \A r \in Slots : slot'[r] = IF r = s THEN None ELSE slot[r]
    BY <1>1, <1>4 DEF FailHost, Done
  <2>2. \A h \in Hosts, l \in Lists : Adding(s, h, l) => <<h, l>> \in crossed'
    BY <1>4, UnfinishedPairs DEF FailHost
  <2>3. UNCHANGED <<host, asked>> /\ crossed \subseteq crossed'
    BY <1>4 DEF FailHost
  <2>. QED
    BY <2>1, <2>2, <2>3, KeptLists
<1>. QED
  BY <1>2, <1>3, <1>4

LEMMA DeleteHostLists ==
    ASSUME Ground, ListsSound, NEW h \in Hosts, DeleteHost(h)
    PROVE  ListsSound'
<1>1. \A g \in Hosts : /\ host'[g] = IF g = h THEN None ELSE host[g]
                       /\ g # h => asked'[g] = asked[g]
  BY DEF DeleteHost, Ground, TypeOK
<1>2. \A g \in Hosts, l \in Lists : g # h => (<<g, l>> \in crossed => <<g, l>> \in crossed')
  BY DEF DeleteHost
<1>3. slot' = slot
  BY DEF DeleteHost
<1>4. Sole'
  <2>1. \A s \in Slots : (OnHost(s)' <=> OnHost(s)) /\ (Creating(s)' <=> Creating(s))
    BY <1>3 DEF OnHost, Creating, Is
  <2>2. \A s \in Slots : Creating(s) => slot[s].host \in Hosts
    BY HeadTypes DEF Creating, Is, OnHost
  <2>. QED
    BY <1>1, <1>3, <2>1, <2>2, KeptSole DEF ListsSound
<1>5. ASSUME NEW g \in Hosts, NEW l \in Lists PROVE Sound(g, l)'
  <2>1. CASE g = h
    BY <1>1, <2>1 DEF Sound
  <2>2. CASE g # h
    <3>1. \A s \in Slots : Adding(s, g, l)' <=> Adding(s, g, l)
      BY <1>1, <1>3, <2>2 DEF Adding
    <3>. QED
      BY <1>1, <1>2, <1>3, <2>2, <3>1, KeptSound DEF ListsSound
  <2>. QED
    BY <2>1, <2>2
<1>. QED
  BY <1>4, <1>5 DEF ListsSound

(* A request goes on: its plan, and what it will then add.                   *)
LEMMA PlanOf ==
    ASSUME Ground, NEW s \in Slots, OnHost(s)
    PROVE  /\ slot[s].op = "create" => CreatePlanned(slot[s]) /\ slot[s].todo \in CreatePlans
           /\ slot[s].op = "update" => UpdatePlanned(slot[s]) /\ slot[s].todo \in UpdatePlans
           /\ slot[s].op = "assign" => slot[s].todo = <<WriteRow>>
           /\ slot[s].op \in {"create", "update", "assign"}
BY HeadTypes DEF HostRequest, Planned, CreatePlanned, UpdatePlanned, AssignPlanned

LEMMA ProceedSlot ==
    ASSUME Ground, NEW s \in Slots, OnHost(s), Proceed(s), NEW o, o = slot[s]
    PROVE  /\ \A r \in Slots \ {s} : slot'[r] = slot[r]
           /\ Len(o.todo) = 1 => slot'[s] = None
           /\ Len(o.todo) # 1 => /\ slot'[s] # None /\ slot'[s].op = o.op
                                 /\ slot'[s].host = o.host /\ slot'[s].want = o.want
                                 /\ slot'[s].todo = Tail(o.todo)
<1>1. slot \in [Slots -> Edit \cup HostRequest \cup {None}] /\ o \in HostRequest
      /\ o.todo \in CreatePlans \cup UpdatePlans
  BY HeadTypes DEF Ground, TypeOK
<1>2. slot'[s] = (IF Len(o.todo) = 1 THEN None ELSE [o EXCEPT !.todo = Tail(o.todo)])
      /\ \A r \in Slots \ {s} : slot'[r] = slot[r]
  BY <1>1 DEF Proceed
<1>3. ASSUME Len(o.todo) # 1
      PROVE  /\ slot'[s] # None /\ slot'[s].op = o.op
             /\ slot'[s].host = o.host /\ slot'[s].want = o.want
             /\ slot'[s].todo = Tail(o.todo)
  <2>1. Tail(o.todo) \in Seq(Step)
    BY <1>1, <1>3, PlanTail, PlanTypes
  <2>2. PICK v : v = slot'[s]
    OBVIOUS
  <2>3. v = [o EXCEPT !.todo = Tail(o.todo)]
    BY <1>2, <1>3, <2>2
  <2>4. v \in HostRequest /\ v.op = o.op /\ v.host = o.host /\ v.want = o.want
        /\ v.todo = Tail(o.todo)
    BY <1>1, <2>1, <2>3 DEF HostRequest
  <2>5. v # None
    BY <2>4, ProfileAssumption
  <2>. QED
    BY <2>2, <2>4, <2>5
<1>. QED
  BY <1>2, <1>3

LEMMA AddingNext ==
    ASSUME Ground, NEW s \in Slots, OnHost(s), Proceed(s), NEW o, o = slot[s],
           NEW h, h = o.host, NEW l \in Lists
    PROVE  /\ o.op = "create" /\ host'[h] # None =>
                (Adding(s, h, l)' <=> Adds(o.todo, l) /\ Head(o.todo) # Add(l))
           /\ o.op = "update" /\ Head(o.todo) = Clear(l) => Adding(s, h, l)'
           /\ o.op = "update" /\ (\E m \in Lists \ {l} : Head(o.todo) = Clear(m)) =>
                ~Adding(s, h, l)'
           /\ o.op = "update" /\ (\E m \in Lists : Head(o.todo) = Add(m)) => ~Adding(s, h, l)'
           /\ o.op # "create" /\ Head(o.todo) = WriteRow => ~Adding(s, h, l)'
           /\ \A g : g # h => ~Adding(s, g, l)'
<1>1. /\ Len(o.todo) = 1 => slot'[s] = None
      /\ Len(o.todo) # 1 => /\ slot'[s] # None /\ slot'[s].op = o.op
                            /\ slot'[s].host = o.host /\ slot'[s].want = o.want
                            /\ slot'[s].todo = Tail(o.todo)
  BY ProceedSlot
<1>2. \A g : Adding(s, g, l)' <=>
             /\ Len(o.todo) # 1 /\ o.host = g
             /\ \/ o.op = "create" /\ host'[g] # None /\ Adds(Tail(o.todo), l)
                \/ o.op = "update" /\ Head(Tail(o.todo)) = Add(l)
  BY <1>1 DEF Adding, Adds
<1>3. ASSUME o.op = "create"
      PROVE  Len(o.todo) # 1 /\ Adds(Tail(o.todo), l) <=> Adds(o.todo, l) /\ Head(o.todo) # Add(l)
  BY <1>3, PlanOf, CreateSteps
<1>4. ASSUME o.op = "update"
      PROVE  /\ Head(o.todo) = Clear(l) => Len(o.todo) # 1 /\ Head(Tail(o.todo)) = Add(l)
             /\ \A m \in Lists \ {l} : Head(o.todo) = Clear(m) => Head(Tail(o.todo)) # Add(l)
             /\ \A m \in Lists : Head(o.todo) = Add(m) => Head(Tail(o.todo)) # Add(l)
             /\ Head(o.todo) = WriteRow => Len(o.todo) = 1
  <2>1. o.todo \in UpdatePlans
    BY <1>4, PlanOf
  <2>2. \A m \in Lists \ {l} : Add(m) # Add(l)
    BY DEF Add
  <2>. QED
    BY <2>1, <2>2, UpdateSteps
<1>5. ASSUME o.op \notin {"create", "update"} PROVE ~Adding(s, h, l)'
  BY <1>2, <1>5
<1>. QED
  BY <1>2, <1>3, <1>4, <1>5

LEMMA ProceedSole ==
    ASSUME Ground, ListsSound, NEW s \in Slots, OnHost(s), Proceed(s),
           \A h \in Hosts : host[h] = None => host'[h] = None
    PROVE  Sole'
<1>1. PICK o : o = slot[s]
  OBVIOUS
<1>2. /\ \A r \in Slots \ {s} : slot'[r] = slot[r]
      /\ Len(o.todo) = 1 => slot'[s] = None
      /\ Len(o.todo) # 1 => /\ slot'[s] # None /\ slot'[s].op = o.op
                            /\ slot'[s].host = o.host /\ slot'[s].todo = Tail(o.todo)
  BY <1>1, ProceedSlot
<1>3. ~Creating(s)'
  <2>. SUFFICES ASSUME o.op = "create", Len(o.todo) # 1 PROVE Head(Tail(o.todo)) # WriteRow
    BY <1>2 DEF Creating, Is
  <2>. QED
    BY <1>1, PlanOf, PlanTail
<1>4. \A r \in Slots : OnHost(r)' => OnHost(r) /\ slot'[r].host = slot[r].host
  BY <1>1, <1>2 DEF OnHost
<1>5. \A r \in Slots : Creating(r)' => Creating(r) /\ slot[r].host \in Hosts
  <2>1. \A r \in Slots \ {s} : Creating(r)' => Creating(r)
    BY <1>2 DEF Creating, Is
  <2>2. \A r \in Slots : Creating(r) => slot[r].host \in Hosts
    BY HeadTypes DEF Creating, Is, OnHost
  <2>. QED
    BY <1>3, <2>1, <2>2
<1>6. \A r \in Slots : Creating(r)' =>
        Creating(r) /\ slot'[r].host = slot[r].host
        /\ (host[slot[r].host] = None => host'[slot[r].host] = None)
  BY <1>2, <1>3, <1>5
<1>. QED
  BY <1>4, <1>6, KeptSole DEF ListsSound

(* A list that a statement of a request is not about.                        *)
LEMMA OtherList ==
    ASSUME Ground, ListsSound, NEW s \in Slots, OnHost(s), Proceed(s),
           NEW g \in Hosts, NEW m \in Lists,
           host'[g] # None => /\ host[g] # None /\ host'[g][m] = host[g][m]
                              /\ asked'[g][m] = asked[g][m]
                              /\ <<g, m>> \in crossed => <<g, m>> \in crossed',
           host'[g] # None /\ g = slot[s].host => (Adding(s, g, m)' <=> Adding(s, g, m))
    PROVE  Sound(g, m)'
<1>. SUFFICES ASSUME host'[g] # None PROVE Sound(g, m)'
  BY DEF Sound
<1>1. PICK o : o = slot[s]
  OBVIOUS
<1>2. /\ \A r \in Slots \ {s} : slot'[r] = slot[r]
      /\ slot'[s] # None => slot'[s].want = o.want /\ slot'[s].host = o.host
  BY <1>1, ProceedSlot
<1>3. \A r \in Slots \ {s} : Adding(r, g, m)' <=> Adding(r, g, m)
  BY <1>2 DEF Adding
<1>4. Adding(s, g, m)' <=> Adding(s, g, m)
  <2>1. CASE g = o.host
    BY <1>1, <2>1
  <2>2. CASE g # o.host
    BY <1>1, <1>2, <2>2 DEF Adding
  <2>. QED
    BY <2>1, <2>2
<1>5. \A r \in Slots : Adding(r, g, m)' => slot'[r].want = slot[r].want
  BY <1>1, <1>2 DEF Adding
<1>6. Sound(g, m)
  BY DEF ListsSound
<1>. QED
  BY <1>3, <1>4, <1>5, <1>6, KeptSound

LEMMA ClearListLists ==
    ASSUME Ground, ListsSound, NEW s \in Slots, ClearList(s)
    PROVE  ListsSound'
<1>1. PICK o, h, l : o = slot[s] /\ h = o.host /\ l = Head(o.todo).list
  OBVIOUS
<1>2. OnHost(s) /\ Proceed(s) /\ HostsOK /\ asked \in [Hosts -> [Lists -> SUBSET Items]]
  BY TypeParts DEF ClearList, At, Ground, TypeOK
<1>3. h \in Hosts /\ l \in Lists /\ Head(o.todo) = Clear(l) /\ o.op = "update"
  <2>1. Head(o.todo).do = "clear"
    BY <1>1 DEF ClearList, At
  <2>2. h \in Hosts /\ l \in Lists /\ Head(o.todo) \in {Clear(l), Add(l)}
    BY <1>1, <1>2, <2>1, HeadTypes, HeadList
  <2>3. Head(o.todo) = Clear(l)
    BY <2>1, <2>2 DEF Add
  <2>4. o.op # "create"
    BY <1>1, <1>2, <2>1, PlanOf, HeadOfPlan
  <2>5. o.op # "assign"
    BY <1>1, <1>2, <2>1, PlanOf, Tuples DEF WriteRow
  <2>. QED
    BY <1>1, <1>2, <2>2, <2>3, <2>4, <2>5, PlanOf
<1>4. /\ host' = IF host[h] = None THEN host ELSE [host EXCEPT ![h][l] = {}]
      /\ asked' = [asked EXCEPT ![h][l] = o.want[l]]
      /\ crossed' = IF \E r \in Slots \ {s} : Adding(r, h, l)
                    THEN crossed \cup {<<h, l>>} ELSE crossed \ {<<h, l>>}
  BY <1>1 DEF ClearList
<1>5. /\ \A g \in Hosts : host'[g] = None <=> host[g] = None
      /\ \A g \in Hosts, m \in Lists :
            host[g] # None => host'[g][m] = IF g = h /\ m = l THEN {} ELSE host[g][m]
  <2>1. {} \in SUBSET Items
    OBVIOUS
  <2>. QED
    BY <1>2, <1>3, <1>4, <2>1, ListWrite
<1>6. /\ asked'[h][l] = o.want[l]
      /\ \A g \in Hosts, m \in Lists : g # h \/ m # l => asked'[g][m] = asked[g][m]
  BY <1>2, <1>3, <1>4
<1>7. Sole'
  BY <1>2, <1>5, ProceedSole
<1>8. ASSUME NEW g \in Hosts, NEW m \in Lists, g # h \/ m # l PROVE Sound(g, m)'
  <2>1. <<g, m>> \in crossed => <<g, m>> \in crossed'
    BY <1>4, <1>8
  <2>2. ASSUME g = h PROVE ~Adding(s, g, m)' /\ ~Adding(s, g, m)
    <3>1. ~Adding(s, h, m)'
      BY <1>1, <1>2, <1>3, <1>8, <2>2, AddingNext
    <3>2. ~Adding(s, h, m)
      BY <1>1, <1>3, Steps DEF Adding
    <3>. QED
      BY <2>2, <3>1, <3>2
  <2>. QED
    BY <1>1, <1>2, <1>5, <1>6, <1>8, <2>1, <2>2, OtherList
<1>9. Sound(h, l)'
  <2>. SUFFICES ASSUME host'[h] # None, <<h, l>> \notin crossed'
                PROVE  Pending(h, l)' /\ Settled(h, l)'
    BY DEF Sound
  <2>1. \A r \in Slots \ {s} : ~Adding(r, h, l)
    BY <1>4
  <2>2. \A r \in Slots \ {s} : slot'[r] = slot[r]
    BY <1>2, ProceedSlot
  <2>3. \A r \in Slots \ {s} : ~Adding(r, h, l)'
    BY <1>3, <1>5, <2>1, <2>2 DEF Adding
  <2>4. Adding(s, h, l)'
    BY <1>1, <1>2, <1>3, AddingNext
  <2>5. slot'[s].want[l] = o.want[l]
    <3>1. slot'[s] # None
      BY <2>4 DEF Adding
    <3>. QED
      BY <1>1, <1>2, <3>1, ProceedSlot
  <2>6. host'[h][l] = {}
    BY <1>3, <1>5
  <2>7. Pending(h, l)'
    BY <1>6, <2>3, <2>5, <2>6 DEF Pending
  <2>8. Settled(h, l)'
    BY <2>4 DEF Settled
  <2>. QED
    BY <2>7, <2>8
<1>. QED
  BY <1>3, <1>7, <1>8, <1>9 DEF ListsSound

LEMMA AddListLists ==
    ASSUME Ground, ListsSound, NEW s \in Slots, AddList(s)
    PROVE  ListsSound'
<1>1. PICK o, h, l, items : /\ o = slot[s] /\ h = o.host /\ l = Head(o.todo).list
                            /\ items = host[h][l] \cup o.want[l]
  OBVIOUS
<1>2. OnHost(s) /\ Proceed(s) /\ HostsOK /\ UNCHANGED <<asked, crossed>>
  BY TypeParts DEF AddList, At, Ground, histVars
<1>3. h \in Hosts /\ l \in Lists /\ Head(o.todo) = Add(l) /\ o.want[l] \in SUBSET Items
      /\ o.op \in {"create", "update"}
  <2>1. Head(o.todo).do = "add"
    BY <1>1 DEF AddList, At
  <2>2. h \in Hosts /\ l \in Lists /\ Head(o.todo) \in {Clear(l), Add(l)}
        /\ o.want[l] \in SUBSET Items
    BY <1>1, <1>2, <2>1, HeadTypes, HeadList
  <2>3. Head(o.todo) = Add(l)
    BY <2>1, <2>2 DEF Clear
  <2>4. o.op # "assign"
    BY <1>1, <1>2, <2>1, PlanOf, Tuples DEF WriteRow
  <2>. QED
    BY <1>1, <1>2, <2>2, <2>3, <2>4, PlanOf
<1>4. host' = IF host[h] = None THEN host ELSE [host EXCEPT ![h][l] = items]
  BY <1>1 DEF AddList
<1>5. /\ \A g \in Hosts : host'[g] = None <=> host[g] = None
      /\ \A g \in Hosts, m \in Lists :
            host[g] # None => host'[g][m] = IF g = h /\ m = l THEN items ELSE host[g][m]
  <2>1. CASE host[h] = None
    BY <1>4, <2>1
  <2>2. CASE host[h] # None
    <3>1. items \in SUBSET Items
      BY <1>1, <1>2, <1>3, <2>2 DEF HostsOK, Host, Lists
    <3>. QED
      BY <1>2, <1>3, <1>4, <3>1, ListWrite
  <2>. QED
    BY <2>1, <2>2
<1>6. Sole'
  BY <1>2, <1>5, ProceedSole
<1>7. ASSUME NEW g \in Hosts, NEW m \in Lists, g # h \/ m # l PROVE Sound(g, m)'
  <2>1. ASSUME g = h, host'[g] # None PROVE Adding(s, g, m)' <=> Adding(s, g, m)
    <3>1. Add(m) # Add(l)
      BY <1>7, <2>1 DEF Add
    <3>2. CASE o.op = "create"
      <4>1. Adding(s, h, m)' <=> Adds(o.todo, m)
        BY <1>1, <1>2, <1>3, <2>1, <3>1, <3>2, AddingNext
      <4>2. Adding(s, h, m) <=> Adds(o.todo, m)
        BY <1>1, <1>2, <1>3, <1>5, <2>1, <3>2, AddingOf DEF OnHost
      <4>. QED
        BY <2>1, <4>1, <4>2
    <3>3. CASE o.op = "update"
      <4>1. ~Adding(s, h, m)'
        BY <1>1, <1>2, <1>3, <3>3, AddingNext
      <4>2. ~Adding(s, h, m)
        BY <1>1, <1>3, <3>1, <3>3, AddingOf
      <4>. QED
        BY <2>1, <4>1, <4>2
    <3>. QED
      BY <1>3, <3>2, <3>3
  <2>. QED
    BY <1>1, <1>2, <1>5, <1>7, <2>1, OtherList
<1>8. Sound(h, l)'
  <2>. SUFFICES ASSUME host'[h] # None, <<h, l>> \notin crossed'
                PROVE  Pending(h, l)' /\ Settled(h, l)'
    BY DEF Sound
  <2>1. host[h] # None /\ Pending(h, l)
    BY <1>2, <1>3, <1>5 DEF ListsSound, Sound
  <2>2. Adding(s, h, l)
    <3>1. CASE o.op = "create"
      <4>1. Adds(o.todo, l)
        BY <1>1, <1>2, <1>3, <3>1, PlanOf, CreateSteps
      <4>. QED
        BY <1>1, <1>2, <2>1, <3>1, <4>1, AddingOf DEF OnHost
    <3>2. CASE o.op = "update"
      BY <1>1, <1>2, <1>3, <3>2, AddingOf DEF OnHost
    <3>. QED
      BY <1>3, <3>1, <3>2
  <2>3. /\ o.want[l] = asked[h][l] /\ host[h][l] = {}
        /\ \A r \in Slots \ {s} : ~Adding(r, h, l)
    BY <1>1, <2>1, <2>2 DEF Pending
  <2>4. host'[h][l] = asked'[h][l]
    <3>1. items = o.want[l]
      BY <1>1, <2>3
    <3>2. host'[h][l] = items
      BY <1>3, <1>5, <2>1
    <3>. QED
      BY <1>2, <2>3, <3>1, <3>2
  <2>5. \A r \in Slots \ {s} : slot'[r] = slot[r]
    BY <1>2, ProceedSlot
  <2>6. \A r \in Slots \ {s} : ~Adding(r, h, l)'
    BY <1>3, <1>5, <2>1, <2>3, <2>5 DEF Adding
  <2>7. ~Adding(s, h, l)'
    BY <1>1, <1>2, <1>3, AddingNext
  <2>. QED
    BY <2>4, <2>6, <2>7 DEF Pending, Settled
<1>. QED
  BY <1>3, <1>6, <1>7, <1>8 DEF ListsSound

LEMMA WriteHostLists ==
    ASSUME Ground, ListsSound, NEW s \in Slots, WriteHost(s)
    PROVE  ListsSound'
<1>1. PICK o, h : o = slot[s] /\ h = o.host
  OBVIOUS
<1>2. OnHost(s) /\ Proceed(s) /\ h \in Hosts
  BY <1>1, HeadTypes DEF WriteHost, At
<1>3. Head(o.todo) = WriteRow
  BY <1>1, <1>2, HeadTypes, HeadOfPlan DEF WriteHost, At
<1>4. /\ \A g \in Hosts \ {h} : host'[g] = host[g]
      /\ o.op = "create" =>
           host'[h] = [profile |-> o.profile, inbound |-> o.inbound, nodes |-> {}, excluded |-> {}]
           /\ host'[h] # None
      /\ o.op # "create" =>
           /\ host'[h] = None <=> host[h] = None
           /\ host[h] # None => \A l \in Lists : host'[h][l] = host[h][l]
  BY <1>1, RowWrite
<1>5. CASE o.op # "create"
  <2>1. UNCHANGED <<asked, crossed>>
    BY <1>1, <1>5 DEF WriteHost
  <2>2. Sole'
    BY <1>1, <1>2, <1>4, <1>5, ProceedSole
  <2>3. ASSUME NEW g \in Hosts, NEW l \in Lists PROVE Sound(g, l)'
    <3>1. ASSUME g = h PROVE ~Adding(s, g, l)' /\ ~Adding(s, g, l)
      <4>1. ~Adding(s, h, l)'
        BY <1>1, <1>2, <1>3, <1>5, AddingNext
      <4>2. ~Adding(s, h, l)
        BY <1>1, <1>3, <1>5, Steps, AddingOf
      <4>. QED
        BY <3>1, <4>1, <4>2
    <3>2. host'[g] # None => host[g] # None /\ host'[g][l] = host[g][l]
      BY <1>4, <1>5
    <3>. QED
      BY <1>1, <1>2, <2>1, <3>1, <3>2, OtherList
  <2>. QED
    BY <2>2, <2>3 DEF ListsSound
<1>6. CASE o.op = "create"
  <2>1. CreatePlanned(o) /\ o.todo \in CreatePlans /\ Creating(s)
    BY <1>1, <1>2, <1>3, <1>6, PlanOf DEF Creating, Is, OnHost
  <2>2. \A r \in Slots \ {s} : OnHost(r) => slot[r].host # h
    BY <1>1, <2>1 DEF ListsSound, Sole
  <2>3. /\ asked' = [asked EXCEPT ![h] = o.want]
        /\ crossed' = crossed \ ({h} \X Lists)
    BY <1>1, <1>6 DEF WriteHost
  <2>4. asked'[h] = o.want /\ \A g \in Hosts \ {h} : asked'[g] = asked[g]
    BY <1>2, <2>3 DEF Ground, TypeOK
  <2>5. /\ \A r \in Slots \ {s} : slot'[r] = slot[r]
        /\ slot'[s] # None => /\ slot'[s].want = o.want /\ slot'[s].host = h
                              /\ slot'[s].op = o.op /\ Len(o.todo) # 1
                              /\ slot'[s].todo = Tail(o.todo)
    BY <1>1, <1>2, ProceedSlot
  <2>6. Sole'
    <3>1. ~Creating(s)'
      BY <2>1, <2>5, PlanTail DEF Creating, Is
    <3>2. ASSUME NEW r \in Slots, Creating(r)' PROVE Creating(r) /\ r # s /\ slot[r].host \in Hosts \ {h}
      <4>1. Creating(r) /\ r # s
        BY <2>5, <3>1, <3>2 DEF Creating, Is
      <4>2. OnHost(r)
        BY <4>1 DEF Creating, Is, OnHost
      <4>. QED
        BY <2>2, <4>1, <4>2, HeadTypes
    <3>3. \A r \in Slots : OnHost(r)' => OnHost(r) /\ slot'[r].host = slot[r].host
      BY <1>1, <1>2, <2>5 DEF OnHost
    <3>4. \A r \in Slots : Creating(r)' =>
            Creating(r) /\ slot'[r].host = slot[r].host
            /\ (host[slot[r].host] = None => host'[slot[r].host] = None)
      BY <1>4, <2>5, <3>2
    <3>. QED
      BY <3>3, <3>4, KeptSole DEF ListsSound
  <2>7. ASSUME NEW g \in Hosts \ {h}, NEW l \in Lists PROVE Sound(g, l)'
    <3>1. host'[g] = host[g] /\ asked'[g] = asked[g] /\ g # slot[s].host
      BY <1>1, <1>4, <2>4
    <3>2. <<g, l>> \in crossed => <<g, l>> \in crossed'
      BY <2>3
    <3>. QED
      BY <1>2, <3>1, <3>2, OtherList
  <2>8. ASSUME NEW l \in Lists PROVE Sound(h, l)'
    <3>1. host'[h][l] = {}
      BY <1>4, <1>6 DEF Lists
    <3>2. Adding(s, h, l)' <=> Adds(o.todo, l)
      <4>1. Head(o.todo) # Add(l)
        BY <1>3, Steps
      <4>. QED
        BY <1>1, <1>2, <1>4, <1>6, <4>1, AddingNext
    <3>3. \A r \in Slots \ {s} : ~Adding(r, h, l)'
      BY <2>2, <2>5 DEF Adding, OnHost
    <3>4. Adding(s, h, l)' => slot'[s].want[l] = asked'[h][l]
      BY <2>4, <2>5 DEF Adding
    <3>5. ~Adding(s, h, l)' => asked'[h][l] = {}
      BY <1>3, <2>1, <2>4, <3>2, CreateSteps DEF CreatePlanned
    <3>6. Pending(h, l)'
      BY <3>1, <3>3, <3>4 DEF Pending
    <3>7. Settled(h, l)'
      BY <3>1, <3>5 DEF Settled
    <3>. QED
      BY <3>6, <3>7 DEF Sound
  <2>. QED
    BY <2>6, <2>7, <2>8 DEF ListsSound
<1>. QED
  BY <1>5, <1>6

LEMMA ListsStep ==
    ASSUME Ground, ListsSound, [Next]_vars
    PROVE  ListsSound'
<1>1. CASE \/ \E p \in Profiles : DeleteProfile(p) \/ SeedProfile(p) \/ SeedStops(p)
           \/ \E s \in Slots : CommitEdit(s)
  BY <1>1, ProfilesLists
<1>2. CASE \/ \E s \in Slots, p \in Profiles : BeginEdit(s, p)
           \/ \E s \in Slots, h \in Hosts : BeginCreate(s, h) \/ BeginUpdate(s, h) \/ BeginAssign(s, h)
  BY <1>2, BeginsLists
<1>3. CASE Restart \/ \E s \in Slots : FailEdit(s) \/ FailHost(s)
  BY <1>3, StopsLists
<1>4. CASE \E s \in Slots : ClearList(s) \/ AddList(s) \/ WriteHost(s)
  BY <1>4, ClearListLists, AddListLists, WriteHostLists
<1>5. CASE \E h \in Hosts : DeleteHost(h)
  BY <1>5, DeleteHostLists
<1>6. CASE (\E p \in Profiles : CreateProfile(p)) \/ UNCHANGED vars
  <2>1. UNCHANGED <<host, slot, asked, crossed>>
    BY <1>6 DEF CreateProfile, vars, histVars
  <2>. QED
    BY <2>1, KeptLists
<1>. QED
  BY <1>1, <1>2, <1>3, <1>4, <1>5, <1>6 DEF Next

LEMMA ListsSuffice ==
    ASSUME Ground, ListsSound
    PROVE  ListsAsAsked
<1>. SUFFICES ASSUME NEW h \in Hosts, NEW l \in Lists, host[h] # None, <<h, l>> \notin crossed
              PROVE  \/ host[h][l] = asked[h][l]
                     \/ host[h][l] = {} /\ \E s \in Slots : Adding(s, h, l)
  BY DEF ListsAsAsked
<1>1. Pending(h, l) /\ Settled(h, l)
  BY DEF ListsSound, Sound
<1>. QED
  BY <1>1 DEF Pending, Settled

(* Unless two requests crossed on a list or one was left half done, a host   *)
(* has the items the last request meant, or none while a request is about to *)
(* add them.                                                                *)
THEOREM ListsStayAsAsked == Spec => []ListsAsAsked
<1>1. Init => ListsSound
  BY DEF Init, ListsSound, Sole, Sound, Creating, Is
<1>2. Ground /\ ListsSound /\ [Next]_vars => ListsSound'
  BY ListsStep
<1>3. Ground /\ ListsSound => ListsAsAsked
  BY ListsSuffice
<1>. QED
  BY <1>1, <1>2, <1>3, AlwaysGround, PTL DEF Spec
=============================================================================
