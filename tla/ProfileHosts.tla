----------------------------- MODULE ProfileHosts -----------------------------
(***************************************************************************)
(* Configuration profiles, the rows of their inbounds, and the hosts that   *)
(* refer to those rows.                                                     *)
(*                                                                         *)
(* A profile's inbounds are kept twice: in its xray configuration, and as   *)
(* rows that squads, nodes and hosts refer to, and whose content the        *)
(* subscriptions show.  An edit of the profile, and the seed at every start *)
(* of the panel, bring the rows into line (syncInbounds): the edit by what  *)
(* it read before its transaction.  A request about a host is a series of   *)
(* statements without a transaction.                                        *)
(***************************************************************************)
EXTENDS Naturals, Sequences

CONSTANTS
    Profiles, Hosts,   \* uuids
    Tags,              \* tags of inbounds, unique over all profiles
    Types, Raws,       \* an inbound's protocol; the rest of it
    Uuids,             \* what tells a row of a tag from an earlier one: many
    Items,             \* nodes, or squads, in a list of a host
    Slots,             \* requests that run at the same time
    None,              \* NULL, undefined
    MaxRequests,       \* bound: requests
    MaxMishaps         \* bound: statements that fail, and restarts

Inbound == [type : Types, raw : Raws]
Config == [Tags -> Inbound \cup {None}]
Row == [uuid : Uuids, profile : Profiles, type : Types, raw : Raws]
Rows == [Tags -> Row \cup {None}]
Ref == [tag : Tags, uuid : Uuids]
Lists == {"nodes", "excluded"}
Host == [profile : Profiles \cup {None}, inbound : Ref \cup {None}, nodes : SUBSET Items,
         excluded : SUBSET Items]

(* The statements a request about a host has still to execute.               *)
Clear(l) == [do |-> "clear", list |-> l]
Add(l) == [do |-> "add", list |-> l]
WriteRow == [do |-> "row", list |-> None]
Step == [do : {"clear", "add"}, list : Lists] \cup {WriteRow}

Edit == [op : {"edit"}, profile : Profiles, read : Rows, want : Config]
HostRequest ==
    [op : {"create", "update", "assign"}, host : Hosts, profile : Profiles \cup {None},
     inbound : Ref \cup {None}, want : [Lists -> (SUBSET Items) \cup {None}], todo : Seq(Step)]

ASSUME ProfileAssumption ==
    /\ None \notin Inbound /\ None \notin Config /\ None \notin Row /\ None \notin Profiles
    /\ None \notin Ref /\ None \notin Host /\ None \notin Edit /\ None \notin HostRequest

(* There is a uuid that no request and no row has.                           *)
ASSUME UuidAssumption ==
    /\ Uuids # {} /\ None \notin Slots
    /\ \A used \in [Slots \cup {None} -> Uuids] :
        \E g \in Uuids : \A s \in Slots \cup {None} : used[s] # g

VARIABLES
    config,     \* config[p]: what its configuration says of each tag, or None
    rows,       \* rows[t]: the row of config_profile_inbounds with the tag, or None
    host,       \* host[h]: a row of hosts with its two lists, or None
    slot,       \* slot[s]: a request, or None
    seeding,    \* profiles the seed has still to go through
    requests,   \* how many requests there were
    mishaps,    \* how many failures there were
    torn,       \* profiles whose last edit was decided on older rows (history)
    mixed,      \* profiles whose last edit added or removed inbounds, and changed others (history)
    asked,      \* asked[h]: the lists the last request that wrote them meant (history)
    crossed     \* lists of hosts that two requests wrote at once, or that one left half done (history)

histVars == <<torn, mixed, asked, crossed>>
vars == <<config, rows, host, slot, seeding, requests, mishaps, histVars>>

Live == {p \in Profiles : config[p] # None}
RowsOf(p) == [t \in Tags |-> IF rows[t] # None /\ rows[t].profile = p THEN rows[t] ELSE None]
RowOf(ref) == IF rows[ref.tag] # None /\ rows[ref.tag].uuid = ref.uuid THEN rows[ref.tag] ELSE None

TypeOK ==
    /\ config \in [Profiles -> Config \cup {None}]
    /\ rows \in Rows
    /\ host \in [Hosts -> Host \cup {None}]
    /\ slot \in [Slots -> Edit \cup HostRequest \cup {None}]
    /\ seeding \subseteq Live
    /\ requests \in Nat /\ mishaps \in Nat
    /\ torn \subseteq Live /\ mixed \subseteq Live
    /\ asked \in [Hosts -> [Lists -> SUBSET Items]]
    /\ crossed \subseteq Hosts \X Lists
    /\ \A h \in Hosts : host[h] # None /\ host[h].inbound # None =>
        /\ RowOf(host[h].inbound) # None
        /\ host[h].profile = RowOf(host[h].inbound).profile

(* A configuration with one inbound, as that of the Default-Profile.         *)
Only(t, inbound) == [u \in Tags |-> IF u = t THEN inbound ELSE None]

(* The first start: the seed has made the Default-Profile and its rows.      *)
Init ==
    /\ \E p \in Profiles, t \in Tags, inbound \in Inbound :
        /\ config = [q \in Profiles |-> IF q = p THEN Only(t, inbound) ELSE None]
        /\ rows = Only(t, [uuid |-> CHOOSE g \in Uuids : TRUE, profile |-> p,
                           type |-> inbound.type, raw |-> inbound.raw])
    /\ host = [h \in Hosts |-> None]
    /\ slot = [s \in Slots |-> None]
    /\ seeding = {}
    /\ requests = 0 /\ mishaps = 0
    /\ torn = {} /\ mixed = {}
    /\ asked = [h \in Hosts |-> [l \in Lists |-> {}]]
    /\ crossed = {}

Request == requests < MaxRequests /\ requests' = requests + 1 /\ seeding = {}
Mishap == mishaps < MaxMishaps /\ mishaps' = mishaps + 1
Done(s) == slot' = [slot EXCEPT ![s] = None]
Is(s, op) == slot[s] # None /\ slot[s].op = op

(* uuids are never used again: nobody remembers one of an earlier row.       *)
Remembers(s, t, g) ==
    /\ slot[s] # None
    /\ IF slot[s].op = "edit" THEN slot[s].read[t] # None /\ slot[s].read[t].uuid = g
       ELSE slot[s].inbound = [tag |-> t, uuid |-> g]
Fresh(t) ==
    CHOOSE g \in Uuids :
        /\ \A s \in Slots : ~Remembers(s, t, g)
        /\ rows[t] # None => rows[t].uuid # g

-----------------------------------------------------------------------------
(* syncInbounds: what it does to the rows it has read.                       *)

Fits(row, inbound) == row # None /\ inbound # None /\ row.type = inbound.type

(* Fault: an inbound whose content changed is removed too.                   *)
Removed_Changed(read, want) ==
    {t \in Tags : read[t] # None /\ ~(Fits(read[t], want[t]) /\ read[t].raw = want[t].raw)}
Removed(read, want) == {t \in Tags : read[t] # None /\ ~Fits(read[t], want[t])}
Added(read, want) == {t \in Tags : want[t] # None /\ ~Fits(read[t], want[t])}

(* Fault: only the type is compared.                                        *)
Changed_Type(read, want) == {t \in Tags : Fits(read[t], want[t]) /\ read[t].type # want[t].type}
Changed(read, want) == {t \in Tags : Fits(read[t], want[t]) /\ read[t].raw # want[t].raw}

(* Kept rows are written only if none comes or goes.                         *)
Updated(read, want) ==
    IF Removed(read, want) \cup Added(read, want) = {} THEN Changed(read, want) ELSE {}

Still(read, t) == rows[t] # None /\ rows[t].uuid = read[t].uuid

(* A unique tag that another row has, or a row to write that is gone.        *)
Collides(read, want) ==
    \/ \E t \in Added(read, want) :
        rows[t] # None /\ ~(t \in Removed(read, want) /\ Still(read, t))
    \/ \E t \in Updated(read, want) : ~Still(read, t)

Inserted(p, t, inbound) ==
    [uuid |-> Fresh(t), profile |-> p, type |-> inbound.type, raw |-> inbound.raw]
Without(read, gone) == [t \in Tags |-> IF t \in gone /\ Still(read, t) THEN None ELSE rows[t]]
Synced(p, read, want) ==
    [t \in Tags |->
        IF t \in Added(read, want) THEN Inserted(p, t, want[t])
        ELSE IF t \in Updated(read, want) THEN [rows[t] EXCEPT !.raw = want[t].raw]
        ELSE Without(read, Removed(read, want))[t]]

(* Fault: a host keeps the uuid of an inbound that is gone.                  *)
Detached_Kept(newRows, live) == host
(* Foreign keys of hosts: ON DELETE SET NULL.                                *)
Detached(newRows, live) ==
    [h \in Hosts |->
        IF host[h] = None THEN None
        ELSE LET o == host[h]
                 there == /\ o.inbound # None /\ newRows[o.inbound.tag] # None
                          /\ newRows[o.inbound.tag].uuid = o.inbound.uuid
             IN [o EXCEPT !.inbound = IF there THEN o.inbound ELSE None,
                          !.profile = IF o.profile \in live THEN o.profile ELSE None]]

SetRows(newRows, live) == rows' = newRows /\ host' = Detached(newRows, live)

(* What a sync leaves behind: it was decided on older rows, or it left the   *)
(* content of kept rows as it was.                                          *)
Note(p, read, want) ==
    /\ torn' = IF read = RowsOf(p) THEN torn \ {p} ELSE torn \cup {p}
    /\ mixed' = IF Changed(read, want) # Updated(read, want) THEN mixed \cup {p} ELSE mixed \ {p}

-----------------------------------------------------------------------------
(* Profiles.                                                                *)

(* Its uuid is new.                                                         *)
CreateProfile(p) ==
    /\ config[p] = None /\ ~\E s \in Slots : slot[s] # None /\ slot[s].profile = p
    /\ Request
    /\ \E want \in Config :
        /\ \A t \in Tags : want[t] # None => rows[t] = None
        /\ config' = [config EXCEPT ![p] = want]
        /\ rows' = [t \in Tags |-> IF want[t] # None THEN Inserted(p, t, want[t]) ELSE rows[t]]
    /\ UNCHANGED <<host, slot, seeding, mishaps, histVars>>

BeginEdit(s, p) ==
    /\ slot[s] = None /\ config[p] # None
    /\ Request
    /\ \E want \in Config :
        slot' = [slot EXCEPT ![s] =
            [op |-> "edit", profile |-> p, read |-> RowsOf(p), want |-> want]]
    /\ UNCHANGED <<config, rows, host, seeding, mishaps, histVars>>

CanCommit(o) == config[o.profile] # None /\ ~Collides(o.read, o.want)

(* The transaction: the rows, and then the profile with its configuration.   *)
CommitEdit(s) ==
    /\ Is(s, "edit")
    /\ LET o == slot[s] IN
        /\ CanCommit(o)
        /\ SetRows(Synced(o.profile, o.read, o.want), Live)
        /\ config' = [config EXCEPT ![o.profile] = o.want]
        /\ Note(o.profile, o.read, o.want)
    /\ Done(s)
    /\ UNCHANGED <<seeding, requests, mishaps, asked, crossed>>

(* It is rolled back.                                                       *)
FailEdit(s) ==
    /\ Is(s, "edit")
    /\ IF CanCommit(slot[s]) THEN Mishap ELSE UNCHANGED mishaps
    /\ Done(s)
    /\ UNCHANGED <<config, rows, host, seeding, requests, histVars>>

(* Its rows go with the profile.                                            *)
DeleteProfile(p) ==
    /\ config[p] # None
    /\ Request
    /\ config' = [config EXCEPT ![p] = None]
    /\ SetRows([t \in Tags |-> IF RowsOf(p)[t] # None THEN None ELSE rows[t]], Live \ {p})
    /\ torn' = torn \ {p} /\ mixed' = mixed \ {p}
    /\ UNCHANGED <<slot, seeding, mishaps, asked, crossed>>

-----------------------------------------------------------------------------
(* Hosts.                                                                   *)

(* The inbounds a request may name: those the profile has when it is read.   *)
Choices ==
    {c \in [profile : Profiles, inbound : Ref] :
        RowOf(c.inbound) # None /\ RowOf(c.inbound).profile = c.profile}
Unchosen == [profile |-> None, inbound |-> None]

Begin(s, op, h, choice, want, todo) ==
    slot' = [slot EXCEPT ![s] =
        [op |-> op, host |-> h, profile |-> choice.profile, inbound |-> choice.inbound,
         want |-> want, todo |-> todo]]

OnHost(s) == slot[s] # None /\ slot[s].op # "edit"
If(cond, steps) == IF cond THEN steps ELSE <<>>

(* createHost: the row, and then the lists that are not empty.               *)
BeginCreate(s, h) ==
    /\ slot[s] = None /\ host[h] = None
    /\ ~\E o \in Slots : OnHost(o) /\ slot[o].host = h
    /\ Request
    /\ \E c \in Choices, want \in [Lists -> SUBSET Items] :
        Begin(s, "create", h, c, want,
              <<WriteRow>> \o If(want.nodes # {}, <<Add("nodes")>>)
                           \o If(want.excluded # {}, <<Add("excluded")>>))
    /\ UNCHANGED <<config, rows, host, seeding, mishaps, histVars>>

(* Fault: a list is not cleared before it is added to.                       *)
Replace_Add(want, l) == If(want[l] # None, <<Add(l)>>)
Replace(want, l) == If(want[l] # None, <<Clear(l), Add(l)>>)

(* updateHost: the lists the request gives, and then the row.                *)
BeginUpdate(s, h) ==
    /\ slot[s] = None /\ host[h] # None
    /\ Request
    /\ \E c \in Choices \cup {Unchosen}, want \in [Lists -> (SUBSET Items) \cup {None}] :
        Begin(s, "update", h, c, want,
              Replace(want, "nodes") \o Replace(want, "excluded") \o <<WriteRow>>)
    /\ UNCHANGED <<config, rows, host, seeding, mishaps, histVars>>

(* setInboundToHosts.                                                       *)
BeginAssign(s, h) ==
    /\ slot[s] = None /\ host[h] # None
    /\ Request
    /\ \E c \in Choices : Begin(s, "assign", h, c, [l \in Lists |-> None], <<WriteRow>>)
    /\ UNCHANGED <<config, rows, host, seeding, mishaps, histVars>>

At(s, do) == OnHost(s) /\ Head(slot[s].todo).do = do

(* Requests that will yet add to the list without clearing it.               *)
Adding(s, h, l) ==
    /\ slot[s] # None /\ slot[s].op \in {"create", "update"} /\ slot[s].host = h
    /\ \/ slot[s].op = "create" /\ host[h] # None /\ \E i \in DOMAIN slot[s].todo : slot[s].todo[i] = Add(l)
       \/ slot[s].op = "update" /\ Head(slot[s].todo) = Add(l)

Proceed(s) ==
    slot' = [slot EXCEPT ![s] =
        IF Len(slot[s].todo) = 1 THEN None ELSE [slot[s] EXCEPT !.todo = Tail(slot[s].todo)]]

ClearList(s) ==
    /\ At(s, "clear")
    /\ LET h == slot[s].host
           l == Head(slot[s].todo).list
       IN /\ host' = IF host[h] = None THEN host ELSE [host EXCEPT ![h][l] = {}]
          /\ asked' = [asked EXCEPT ![h][l] = slot[s].want[l]]
          /\ crossed' = IF \E o \in Slots \ {s} : Adding(o, h, l)
                        THEN crossed \cup {<<h, l>>} ELSE crossed \ {<<h, l>>}
    /\ Proceed(s)
    /\ UNCHANGED <<config, rows, seeding, requests, mishaps, torn, mixed>>

(* An empty list is not sent; a host that is gone fails.                     *)
CanAdd(o) == o.want[Head(o.todo).list] = {} \/ host[o.host] # None

AddList(s) ==
    /\ At(s, "add")
    /\ LET o == slot[s]
           l == Head(o.todo).list
       IN /\ CanAdd(o)
          /\ host' = IF host[o.host] = None THEN host
                     ELSE [host EXCEPT ![o.host][l] = @ \cup o.want[l]]
    /\ Proceed(s)
    /\ UNCHANGED <<config, rows, seeding, requests, mishaps, histVars>>

(* Foreign keys: what the request names must still be there.  updateMany     *)
(* passes over a host that is gone, an update does not.                      *)
CanWrite(o) ==
    /\ o.inbound # None => RowOf(o.inbound) # None /\ config[o.profile] # None
    /\ o.op = "update" => host[o.host] # None

WriteHost(s) ==
    /\ At(s, "row")
    /\ CanWrite(slot[s])
    /\ LET o == slot[s]
           h == o.host
       IN IF o.op = "create"
          THEN /\ host' = [host EXCEPT ![h] =
                    [profile |-> o.profile, inbound |-> o.inbound, nodes |-> {}, excluded |-> {}]]
               /\ asked' = [asked EXCEPT ![h] = o.want]
               /\ crossed' = crossed \ ({h} \X Lists)
          ELSE /\ host' = IF o.inbound = None \/ host[h] = None THEN host
                          ELSE [host EXCEPT ![h].profile = o.profile, ![h].inbound = o.inbound]
               /\ UNCHANGED <<asked, crossed>>
    /\ Proceed(s)
    /\ UNCHANGED <<config, rows, seeding, requests, mishaps, torn, mixed>>

Unfinished(s) == {e \in Hosts \X Lists : Adding(s, e[1], e[2])}

(* What was cleared or not yet added stays so.                               *)
FailHost(s) ==
    /\ OnHost(s)
    /\ IF (At(s, "row") /\ ~CanWrite(slot[s])) \/ (At(s, "add") /\ ~CanAdd(slot[s]))
       THEN UNCHANGED mishaps ELSE Mishap
    /\ crossed' = crossed \cup Unfinished(s)
    /\ Done(s)
    /\ UNCHANGED <<config, rows, host, seeding, requests, torn, mixed, asked>>

DeleteHost(h) ==
    /\ host[h] # None
    /\ Request
    /\ host' = [host EXCEPT ![h] = None]
    /\ asked' = [asked EXCEPT ![h] = [l \in Lists |-> {}]]
    /\ crossed' = crossed \ ({h} \X Lists)
    /\ UNCHANGED <<config, rows, slot, seeding, mishaps, torn, mixed>>

-----------------------------------------------------------------------------
(* A start of the panel, and its seed.                                       *)

(* Without a profile the seed makes the Default-Profile.                     *)
Restart ==
    /\ Mishap
    /\ slot' = [s \in Slots |-> None]
    /\ crossed' = crossed \cup UNION {Unfinished(s) : s \in Slots}
    /\ \/ /\ Live # {}
          /\ seeding' = Live
          /\ UNCHANGED config
       \/ /\ Live = {}
          /\ \E p \in Profiles, t \in Tags, inbound \in Inbound :
                /\ config' = [config EXCEPT ![p] = Only(t, inbound)]
                /\ seeding' = {p}
    /\ UNCHANGED <<rows, host, requests, torn, mixed, asked>>

(* syncInbounds of the seed: the same, by what is there, without a           *)
(* transaction.  It ends the start when a tag is taken.                      *)
SeedProfile(p) ==
    /\ p \in seeding
    /\ ~Collides(RowsOf(p), config[p])
    /\ SetRows(Synced(p, RowsOf(p), config[p]), Live)
    /\ Note(p, RowsOf(p), config[p])
    /\ seeding' = seeding \ {p}
    /\ UNCHANGED <<config, slot, requests, mishaps, asked, crossed>>

(* The seed ends after it removed rows: it begins anew at the next start.    *)
SeedStops(p) ==
    /\ p \in seeding
    /\ Mishap
    /\ SetRows(Without(RowsOf(p), Removed(RowsOf(p), config[p])), Live)
    /\ seeding' = Live
    /\ UNCHANGED <<config, slot, requests, histVars>>

-----------------------------------------------------------------------------

Next ==
    \/ \E p \in Profiles : CreateProfile(p) \/ DeleteProfile(p) \/ SeedProfile(p) \/ SeedStops(p)
    \/ \E s \in Slots, p \in Profiles : BeginEdit(s, p)
    \/ \E s \in Slots, h \in Hosts : BeginCreate(s, h) \/ BeginUpdate(s, h) \/ BeginAssign(s, h)
    \/ \E s \in Slots :
        \/ CommitEdit(s) \/ FailEdit(s)
        \/ ClearList(s) \/ AddList(s) \/ WriteHost(s) \/ FailHost(s)
    \/ \E h \in Hosts : DeleteHost(h)
    \/ Restart

Spec == Init /\ [][Next]_vars

-----------------------------------------------------------------------------
(* Properties.                                                              *)

(* Unless a profile's last edit was overtaken by another, its rows are the   *)
(* inbounds of its configuration, with their tags and types, and with their  *)
(* content if that edit did not add or remove an inbound; and while the      *)
(* panel starts, however often the seed has stopped half way, the seed can   *)
(* make them so: it does not end the start.                                 *)
RowsFollowConfig ==
    \A p \in Live \ torn :
        IF p \in seeding THEN ~Collides(RowsOf(p), config[p])
        ELSE \A t \in Tags :
            LET row == RowsOf(p)[t]
                inbound == config[p][t]
            IN /\ (row = None) <=> (inbound = None)
               /\ row # None => row.type = inbound.type /\ (p \in mixed \/ row.raw = inbound.raw)

(* A host has the nodes and the excluded squads the last request meant, or   *)
(* that request is about to add them, unless two requests crossed or one was *)
(* left half done.                                                          *)
ListsAsAsked ==
    \A h \in Hosts, l \in Lists :
        host[h] # None /\ <<h, l>> \notin crossed =>
            \/ host[h][l] = asked[h][l]
            \/ host[h][l] = {} /\ \E s \in Slots : Adding(s, h, l)

(* A host loses its inbound only when the configuration that is then the     *)
(* profile's has no inbound of that tag and type, however old the rows were  *)
(* by which that was decided.                                               *)
HostsKeepInbound ==
    [][\A h \in Hosts :
        host[h] # None /\ host[h].inbound # None /\ host'[h] # None /\ host'[h].inbound = None =>
            LET row == RowOf(host[h].inbound)
            IN config'[row.profile] = None \/ ~Fits(row, config'[row.profile][host[h].inbound.tag])]_vars

=============================================================================
