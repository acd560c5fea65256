---------------------------- MODULE TemplateCache ----------------------------
(***************************************************************************)
(* The subscription templates of one type and their cache in Redis.         *)
(*                                                                         *)
(* A subscription asks for a template by name: the name comes from a        *)
(* response rule or an external squad, and need not exist, in which case    *)
(* the template called Default stands in for it.  Either content is put     *)
(* into the cache under the name that was asked for.  An administrator's    *)
(* update writes the row and then deletes the entry of the name it had      *)
(* read; a deletion deletes the entry first and the row afterwards; a       *)
(* creation leaves the cache alone.                                        *)
(***************************************************************************)
EXTENDS Naturals

CONSTANTS
    Templates,    \* uuids
    Names,
    Default,      \* DEFAULT_TEMPLATE_NAME
    Contents,
    Original,     \* the content a new template has
    Readers,      \* slots of subscriptions that run at the same time
    Editors,      \* slots of administrators' requests
    None,         \* no row, no such field in the request
    Miss,         \* no entry in the cache
    MaxEdits,     \* bound: administrators' requests
    MaxMishaps    \* bound: statements and commands that fail

ASSUME TemplateAssumption ==
    /\ Default \in Names /\ Original \in Contents
    /\ None \notin Names /\ None \notin Contents
    /\ Miss \notin Contents /\ Miss # None

VARIABLES
    rows,       \* rows[t]: its name and content, or None
    cached,     \* cached[n]: the content in Redis under n, or Miss
    reader,     \* reader[r]: a subscription, or None
    editor,     \* editor[e]: an update or a deletion, or None
    edits,      \* how many administrators' requests there were
    mishaps,    \* how many failures there were
    borrowed,   \* names whose entry came from the Default template (history)
    slipped     \* names whose entry an edit has missed (history)

histVars == <<borrowed, slipped>>
vars == <<rows, cached, reader, editor, edits, mishaps, histVars>>

Row == [name : Names, content : Contents]

(* own: what was read is the name's own template; crossed: it was edited     *)
(* since.                                                                   *)
Reader ==
    {o \in [name : Names, at : {"cache", "own", "default", "fill", "missing"},
            read : Contents \cup {None}, own : BOOLEAN, crossed : BOOLEAN] :
        o.at = "fill" => o.read \in Contents}

(* old: the name the template had when the request read it.                  *)
Editor == [op : {"update", "delete"}, template : Templates, old : Names,
           name : Names \cup {None}, content : Contents \cup {None},
           at : {"write", "drop"}]

ASSUME SlotAssumption == None \notin Row /\ None \notin Reader /\ None \notin Editor

TypeOK ==
    /\ rows \in [Templates -> Row \cup {None}]
    /\ cached \in [Names -> Contents \cup {Miss}]
    /\ reader \in [Readers -> Reader \cup {None}]
    /\ editor \in [Editors -> Editor \cup {None}]
    /\ edits \in Nat /\ mishaps \in Nat
    /\ borrowed \in SUBSET Names /\ slipped \in SUBSET Names

(* The seed creates a Default template of every type and no other.           *)
Init ==
    /\ \E t \in Templates :
        rows = [s \in Templates |-> IF s = t THEN [name |-> Default, content |-> Original] ELSE None]
    /\ cached = [n \in Names |-> Miss]
    /\ reader = [r \in Readers |-> None]
    /\ editor = [e \in Editors |-> None]
    /\ edits = 0 /\ mishaps = 0
    /\ borrowed = {} /\ slipped = {}

Mishap ==
    /\ mishaps < MaxMishaps
    /\ mishaps' = mishaps + 1

Named(n) == {t \in Templates : rows[t] # None /\ rows[t].name = n}

-----------------------------------------------------------------------------
(* getCachedTemplateByType.                                                 *)

Is(r, at) == reader[r] # None /\ reader[r].at = at
Goto(r, o) == reader' = [reader EXCEPT ![r] = o]
Leave(r) == reader' = [reader EXCEPT ![r] = None]

Ask(r) ==
    /\ reader[r] = None
    /\ \E n \in Names :
        Goto(r, [name |-> n, at |-> "cache", read |-> None, own |-> FALSE, crossed |-> FALSE])
    /\ UNCHANGED <<rows, cached, editor, edits, mishaps, histVars>>

GetCached(r) ==
    /\ Is(r, "cache")
    /\ IF cached[reader[r].name] = Miss THEN Goto(r, [reader[r] EXCEPT !.at = "own"]) ELSE Leave(r)
    /\ UNCHANGED <<rows, cached, editor, edits, mishaps, histVars>>

(* Fault: the content of the row is not taken from it.                       *)
Found_Null(o, t, own) == [o EXCEPT !.at = "fill", !.own = own, !.crossed = FALSE]

Found(o, t, own) ==
    [o EXCEPT !.at = "fill", !.read = rows[t].content, !.own = own, !.crossed = FALSE]

FindOwn(r) ==
    /\ Is(r, "own")
    /\ LET o == reader[r] IN
        \/ \E t \in Named(o.name) : Goto(r, Found(o, t, TRUE))
        \/ Named(o.name) = {} /\ Goto(r, [o EXCEPT !.at = "default"])
    /\ UNCHANGED <<rows, cached, editor, edits, mishaps, histVars>>

FindDefault(r) ==
    /\ Is(r, "default")
    /\ LET o == reader[r] IN
        \/ \E t \in Named(Default) : Goto(r, Found(o, t, FALSE))
        \/ Named(Default) = {} /\ Goto(r, [o EXCEPT !.at = "missing"])
    /\ UNCHANGED <<rows, cached, editor, edits, mishaps, histVars>>

(* Either content is put under the name asked for, however old it is by now. *)
FillCache(r) ==
    /\ Is(r, "fill")
    /\ LET o == reader[r] IN
        /\ cached' = [cached EXCEPT ![o.name] = o.read]
        /\ borrowed' = IF o.own THEN borrowed \ {o.name} ELSE borrowed \cup {o.name}
        /\ slipped' = IF o.crossed THEN slipped \cup {o.name} ELSE slipped \ {o.name}
    /\ Leave(r)
    /\ UNCHANGED <<rows, editor, edits, mishaps>>

(* The subscription fails: there is no such template and no Default, or a    *)
(* statement or command failed.                                             *)
Throw(r) ==
    /\ reader[r] # None
    /\ \/ reader[r].at = "missing" /\ UNCHANGED mishaps
       \/ reader[r].at # "missing" /\ Mishap
    /\ Leave(r)
    /\ UNCHANGED <<rows, cached, editor, edits, histVars>>

(* An entry leaves the cache.                                               *)
Forget(n) ==
    /\ cached' = [cached EXCEPT ![n] = Miss]
    /\ borrowed' = borrowed \ {n}
    /\ slipped' = slipped \ {n}

(* Its time to live (an hour) passes.                                       *)
Expire(n) ==
    /\ cached[n] # Miss
    /\ Forget(n)
    /\ UNCHANGED <<rows, reader, editor, edits, mishaps>>

-----------------------------------------------------------------------------
(* The administrators.                                                      *)

Request ==
    /\ edits < MaxEdits
    /\ edits' = edits + 1

(* Subscriptions that hold the content of a row that is edited.              *)
Cross(t) ==
    [r \in Readers |->
        IF Is(r, "fill") /\ rows[t] # None /\ rows[t].name = reader[r].name
        THEN [reader[r] EXCEPT !.crossed = TRUE] ELSE reader[r]]

CreateTemplate(t) ==
    /\ rows[t] = None
    /\ Request
    /\ \E n \in Names \ {Default} :
        Named(n) = {} /\ rows' = [rows EXCEPT ![t] = [name |-> n, content |-> Original]]
    /\ UNCHANGED <<cached, reader, editor, mishaps, histVars>>

(* No template may be given the name Default; that the one called so may be  *)
(* renamed follows from the check being made on the new name only.          *)
UpdateTemplate(e, t) ==
    /\ editor[e] = None /\ rows[t] # None
    /\ Request
    /\ \E n \in (Names \ {Default}) \cup {None}, c \in Contents \cup {None} :
        editor' = [editor EXCEPT ![e] =
            [op |-> "update", template |-> t, old |-> rows[t].name, name |-> n,
             content |-> c, at |-> "write"]]
    /\ UNCHANGED <<rows, cached, reader, mishaps, histVars>>

DeleteTemplate(e, t) ==
    /\ editor[e] = None /\ rows[t] # None /\ rows[t].name # Default
    /\ Request
    /\ editor' = [editor EXCEPT ![e] =
        [op |-> "delete", template |-> t, old |-> rows[t].name, name |-> None,
         content |-> None, at |-> "drop"]]
    /\ UNCHANGED <<rows, cached, reader, mishaps, histVars>>

Busy(e, op, at) == editor[e] # None /\ editor[e].op = op /\ editor[e].at = at
Done(e) == editor' = [editor EXCEPT ![e] = None]

Given(value, old) == IF value = None THEN old ELSE value
Written(row, o) == [name |-> Given(o.name, row.name), content |-> Given(o.content, row.content)]

(* The entry to be deleted is that of the name read before the write: the    *)
(* name of a template that another request has renamed since is missed.     *)
WriteRow(e) ==
    /\ Busy(e, "update", "write")
    /\ LET o == editor[e]
           t == o.template
       IN /\ rows[t] # None
          /\ Named(Written(rows[t], o).name) \subseteq {t}
          /\ rows' = [rows EXCEPT ![t] = Written(rows[t], o)]
          /\ reader' = Cross(t)
          /\ editor' = [editor EXCEPT ![e].at = "drop"]
          /\ slipped' = IF rows[t].name = o.old THEN slipped ELSE slipped \cup {rows[t].name}
    /\ UNCHANGED <<cached, edits, mishaps, borrowed>>

(* The row is gone, the name is taken, or the statement failed.              *)
WriteFails(e) ==
    /\ Busy(e, "update", "write")
    /\ LET o == editor[e]
           t == o.template
       IN IF rows[t] = None \/ ~(Named(Written(rows[t], o).name) \subseteq {t})
          THEN UNCHANGED mishaps ELSE Mishap
    /\ Done(e)
    /\ UNCHANGED <<rows, cached, reader, edits, histVars>>

(* Fault: the entry of the new name is deleted.                              *)
Stale_New(o) == Given(o.name, o.old)
(* The name whose entry is deleted.                                          *)
Stale(o) == o.old

DropUpdated(e) ==
    /\ Busy(e, "update", "drop")
    /\ Forget(Stale(editor[e]))
    /\ Done(e)
    /\ UNCHANGED <<rows, reader, edits, mishaps>>

DropDeleted(e) ==
    /\ Busy(e, "delete", "drop")
    /\ Forget(Stale(editor[e]))
    /\ editor' = [editor EXCEPT ![e].at = "write"]
    /\ UNCHANGED <<rows, reader, edits, mishaps>>

DropFails(e) ==
    /\ editor[e] # None /\ editor[e].at = "drop"
    /\ Mishap
    /\ slipped' = IF editor[e].op = "update" THEN slipped \cup {editor[e].old} ELSE slipped
    /\ Done(e)
    /\ UNCHANGED <<rows, cached, reader, edits, borrowed>>

(* Whatever the cache holds under the name by now stays.                     *)
DeleteRow(e) ==
    /\ Busy(e, "delete", "write")
    /\ LET t == editor[e].template IN
        \/ /\ rows[t] # None
           /\ rows' = [rows EXCEPT ![t] = None]
           /\ reader' = Cross(t)
           /\ slipped' = IF cached[rows[t].name] = Miss THEN slipped ELSE slipped \cup {rows[t].name}
           /\ UNCHANGED mishaps
        \/ /\ rows[t] = None /\ UNCHANGED mishaps
           /\ UNCHANGED <<rows, reader, slipped>>
        \/ /\ rows[t] # None /\ Mishap
           /\ UNCHANGED <<rows, reader, slipped>>
    /\ Done(e)
    /\ UNCHANGED <<cached, edits, borrowed>>

(* Names whose entry an update that has written its row is about to delete.  *)
Pending == {n \in Names : \E e \in Editors : Busy(e, "update", "drop") /\ editor[e].old = n}

(* The processes restart: what they were doing ends there.  When it is the   *)
(* container that starts, the seed creates a Default template if there is    *)
(* none, and flushes Redis unless that fails.                                *)
Restart ==
    /\ Mishap
    /\ \/ UNCHANGED rows
       \/ \E t \in Templates :
            /\ Named(Default) = {}
            /\ rows[t] = None
            /\ rows' = [rows EXCEPT ![t] = [name |-> Default, content |-> Original]]
    /\ \/ /\ slipped' = slipped \cup Pending
          /\ UNCHANGED <<cached, borrowed>>
       \/ /\ cached' = [n \in Names |-> Miss]
          /\ borrowed' = {} /\ slipped' = {}
    /\ reader' = [r \in Readers |-> None]
    /\ editor' = [e \in Editors |-> None]
    /\ UNCHANGED edits

-----------------------------------------------------------------------------

Read(r) ==
    \/ Ask(r) \/ GetCached(r) \/ FindOwn(r) \/ FindDefault(r) \/ FillCache(r) \/ Throw(r)

Edit(e) ==
    \/ \E t \in Templates : UpdateTemplate(e, t) \/ DeleteTemplate(e, t)
    \/ WriteRow(e) \/ WriteFails(e) \/ DropUpdated(e) \/ DropDeleted(e)
    \/ DropFails(e) \/ DeleteRow(e)

Next ==
    \/ \E r \in Readers : Read(r)
    \/ \E n \in Names : Expire(n)
    \/ \E t \in Templates : CreateTemplate(t)
    \/ \E e \in Editors : Edit(e)
    \/ Restart

Spec == Init /\ [][Next]_vars

-----------------------------------------------------------------------------
(* Properties.                                                              *)

(* What the cache holds under a name is the content of the template of that  *)
(* name, unless the entry is about to be deleted, was filled from the        *)
(* Default while the name had no template, or escaped an edit: the read that *)
(* filled it was overtaken, its deletion failed, another request had renamed *)
(* the template, or the row was deleted after the entry.                     *)
StaleHasCause ==
    \A n \in Names :
        cached[n] # Miss =>
            \/ \E t \in Named(n) : cached[n] = rows[t].content
            \/ n \in Pending \cup borrowed \cup slipped

=============================================================================
