------------------------ MODULE TemplateCacheProofs ------------------------
(* Proofs about TemplateCache for every set of templates, names and          *)
(* contents, every number of subscriptions and administrators, and every    *)
(* bound.                                                                   *)
EXTENDS TemplateCache, TLAPS

-----------------------------------------------------------------------------
(* Types, one variable at a time.                                           *)

RowsOK == rows \in [Templates -> Row \cup {None}]
CachedOK == cached \in [Names -> Contents \cup {Miss}]
ReadersOK == reader \in [Readers -> Reader \cup {None}]
EditorsOK == editor \in [Editors -> Editor \cup {None}]
CountsOK == edits \in Nat /\ mishaps \in Nat
HistoryOK == borrowed \in SUBSET Names /\ slipped \in SUBSET Names

LEMMA TypeParts ==
    ASSUME RowsOK', CachedOK', ReadersOK', EditorsOK', CountsOK', HistoryOK'
    PROVE  TypeOK'
BY DEF TypeOK, RowsOK, CachedOK, ReadersOK, EditorsOK, CountsOK, HistoryOK

LEMMA Kept ==
    ASSUME TypeOK
    PROVE  /\ UNCHANGED rows => RowsOK'
           /\ UNCHANGED cached => CachedOK'
           /\ UNCHANGED reader => ReadersOK'
           /\ UNCHANGED editor => EditorsOK'
           /\ UNCHANGED <<edits, mishaps>> => CountsOK'
           /\ UNCHANGED <<borrowed, slipped>> => HistoryOK'
BY DEF TypeOK, RowsOK, CachedOK, ReadersOK, EditorsOK, CountsOK, HistoryOK

LEMMA CountTypes ==
    ASSUME TypeOK
    PROVE  /\ Mishap /\ UNCHANGED edits => CountsOK'
           /\ Request /\ UNCHANGED mishaps => CountsOK'
BY DEF TypeOK, Mishap, Request, CountsOK

(* A slot that is in use holds a record of its type.                         *)
LEMMA SlotTypes ==
    ASSUME TypeOK
    PROVE  /\ \A r \in Readers : reader[r] # None => reader[r] \in Reader
           /\ \A e \in Editors : editor[e] # None => editor[e] \in Editor
           /\ \A t \in Templates : rows[t] # None => rows[t] \in Row
BY DEF TypeOK

LEMMA GotoType ==
    ASSUME TypeOK, NEW r \in Readers, NEW o \in Reader \cup {None},
           reader' = [reader EXCEPT ![r] = o]
    PROVE  ReadersOK'
BY DEF TypeOK, ReadersOK

LEMMA EditorType ==
    ASSUME TypeOK, NEW e \in Editors, NEW o \in Editor \cup {None},
           editor' = [editor EXCEPT ![e] = o]
    PROVE  EditorsOK'
BY DEF TypeOK, EditorsOK

LEMMA RowType ==
    ASSUME TypeOK, NEW t \in Templates, NEW row \in Row \cup {None},
           rows' = [rows EXCEPT ![t] = row]
    PROVE  RowsOK'
BY DEF TypeOK, RowsOK

(* A record of a reader keeps its type when one of its fields changes.       *)
LEMMA ReaderFields ==
    ASSUME NEW o \in Reader
    PROVE  /\ \A at \in {"cache", "own", "default", "missing"} :
                [o EXCEPT !.at = at] \in Reader
           /\ [o EXCEPT !.crossed = TRUE] \in Reader
           /\ \A c \in Contents, b \in BOOLEAN :
                [o EXCEPT !.at = "fill", !.read = c, !.own = b, !.crossed = FALSE] \in Reader
BY DEF Reader

LEMMA CrossType ==
    ASSUME TypeOK, NEW t \in Templates, reader' = Cross(t)
    PROVE  ReadersOK'
<1>1. \A r \in Readers : reader'[r] \in Reader \cup {None}
  <2>1. SUFFICES ASSUME NEW r \in Readers
                 PROVE  reader'[r] \in Reader \cup {None}
    OBVIOUS
  <2>2. reader'[r] = reader[r] \/ (reader[r] # None /\ reader'[r] = [reader[r] EXCEPT !.crossed = TRUE])
    BY DEF Cross, Is
  <2>. QED
    BY <2>2, SlotTypes, ReaderFields DEF TypeOK
<1>. QED
  BY <1>1 DEF Cross, ReadersOK

LEMMA FoundType ==
    ASSUME TypeOK, NEW o \in Reader, NEW n \in Names, NEW t \in Named(n), NEW own \in BOOLEAN
    PROVE  Found(o, t, own) \in Reader
<1>1. rows[t].content \in Contents
  BY SlotTypes DEF Named, Row
<1>. QED
  BY <1>1, ReaderFields DEF Found

LEMMA ForgetType ==
    ASSUME TypeOK, NEW n \in Names, Forget(n)
    PROVE  CachedOK' /\ HistoryOK'
BY DEF TypeOK, Forget, CachedOK, HistoryOK

(* What an update writes is a row.                                           *)
LEMMA WrittenType ==
    ASSUME NEW row \in Row, NEW o \in Editor
    PROVE  Written(row, o) \in Row
BY DEF Written, Given, Row, Editor

-----------------------------------------------------------------------------
(* Every step keeps the types.                                              *)

LEMMA InitType == Init => TypeOK
<1>1. ASSUME Init PROVE TypeOK
  <2>1. PICK t \in Templates :
          rows = [s \in Templates |-> IF s = t THEN [name |-> Default, content |-> Original] ELSE None]
    BY <1>1 DEF Init
  <2>2. [name |-> Default, content |-> Original] \in Row
    BY TemplateAssumption DEF Row
  <2>3. RowsOK
    BY <2>1, <2>2 DEF RowsOK
  <2>. QED
    BY <1>1, <2>3 DEF Init, TypeOK, RowsOK
<1>. QED
  BY <1>1

LEMMA ReadType ==
    ASSUME TypeOK, NEW r \in Readers, Read(r)
    PROVE  TypeOK'
<1>1. CASE Ask(r)
  <2>1. PICK n \in Names :
          reader' = [reader EXCEPT ![r] = [name |-> n, at |-> "cache", read |-> None,
                                           own |-> FALSE, crossed |-> FALSE]]
    BY <1>1 DEF Ask, Goto
  <2>2. [name |-> n, at |-> "cache", read |-> None, own |-> FALSE, crossed |-> FALSE] \in Reader
    BY DEF Reader
  <2>3. ReadersOK'
    BY <2>1, <2>2, GotoType
  <2>. QED
    BY <1>1, <2>3, Kept, TypeParts DEF Ask, histVars
<1>2. CASE GetCached(r)
  <2>1. reader[r] \in Reader
    BY <1>2, SlotTypes DEF GetCached, Is
  <2>2. [reader[r] EXCEPT !.at = "own"] \in Reader
    BY <2>1, ReaderFields
  <2>3. ReadersOK'
    BY <1>2, <2>2, GotoType DEF GetCached, Goto, Leave
  <2>. QED
    BY <1>2, <2>3, Kept, TypeParts DEF GetCached, histVars
<1>3. CASE FindOwn(r)
  <2>1. reader[r] \in Reader /\ reader[r].name \in Names
    BY <1>3, SlotTypes DEF FindOwn, Is, Reader
  <2>2. \A t \in Named(reader[r].name) : Found(reader[r], t, TRUE) \in Reader
    BY <2>1, FoundType
  <2>3. [reader[r] EXCEPT !.at = "default"] \in Reader
    BY <2>1, ReaderFields
  <2>4. ReadersOK'
    BY <1>3, <2>2, <2>3, GotoType DEF FindOwn, Goto
  <2>. QED
    BY <1>3, <2>4, Kept, TypeParts DEF FindOwn, histVars
<1>4. CASE FindDefault(r)
  <2>1. reader[r] \in Reader /\ Default \in Names
    BY <1>4, SlotTypes, TemplateAssumption DEF FindDefault, Is
  <2>2. \A t \in Named(Default) : Found(reader[r], t, FALSE) \in Reader
    BY <2>1, FoundType
  <2>3. [reader[r] EXCEPT !.at = "missing"] \in Reader
    BY <2>1, ReaderFields
  <2>4. ReadersOK'
    BY <1>4, <2>2, <2>3, GotoType DEF FindDefault, Goto
  <2>. QED
    BY <1>4, <2>4, Kept, TypeParts DEF FindDefault, histVars
<1>5. CASE FillCache(r)
  <2>1. reader[r] \in Reader /\ reader[r].name \in Names
    BY <1>5, SlotTypes DEF FillCache, Is, Reader
  <2>2. cached' = [cached EXCEPT ![reader[r].name] = reader[r].read]
    BY <1>5 DEF FillCache
  <2>3. reader[r].read \in Contents
    BY <1>5, <2>1 DEF FillCache, Is, Reader
  <2>4. CachedOK'
    BY <2>1, <2>2, <2>3 DEF TypeOK, CachedOK
  <2>5. HistoryOK'
    BY <1>5, <2>1 DEF FillCache, TypeOK, HistoryOK
  <2>6. ReadersOK'
    BY <1>5, GotoType DEF FillCache, Leave
  <2>. QED
    BY <1>5, <2>4, <2>5, <2>6, Kept, TypeParts DEF FillCache
<1>6. CASE Throw(r)
  <2>1. ReadersOK'
    BY <1>6, GotoType DEF Throw, Leave
  <2>2. CountsOK'
    BY <1>6, CountTypes, Kept DEF Throw
  <2>. QED
    BY <1>6, <2>1, <2>2, Kept, TypeParts DEF Throw, histVars
<1>. QED
  BY <1>1, <1>2, <1>3, <1>4, <1>5, <1>6 DEF Read

LEMMA EditType ==
    ASSUME TypeOK, NEW e \in Editors, Edit(e)
    PROVE  TypeOK'
<1>1. ASSUME NEW t \in Templates, UpdateTemplate(e, t) PROVE TypeOK'
  <2>1. rows[t].name \in Names
    BY <1>1, SlotTypes DEF UpdateTemplate, Row
  <2>2. EditorsOK'
    <3>1. PICK n \in (Names \ {Default}) \cup {None}, c \in Contents \cup {None} :
            editor' = [editor EXCEPT ![e] =
                [op |-> "update", template |-> t, old |-> rows[t].name, name |-> n,
                 content |-> c, at |-> "write"]]
      BY <1>1 DEF UpdateTemplate
    <3>2. [op |-> "update", template |-> t, old |-> rows[t].name, name |-> n,
           content |-> c, at |-> "write"] \in Editor
      BY <2>1 DEF Editor
    <3>. QED
      BY <3>1, <3>2, EditorType
  <2>. QED
    BY <1>1, <2>2, Kept, CountTypes, TypeParts DEF UpdateTemplate, histVars
<1>2. ASSUME NEW t \in Templates, DeleteTemplate(e, t) PROVE TypeOK'
  <2>1. rows[t].name \in Names
    BY <1>2, SlotTypes DEF DeleteTemplate, Row
  <2>2. [op |-> "delete", template |-> t, old |-> rows[t].name, name |-> None,
         content |-> None, at |-> "drop"] \in Editor
    BY <2>1 DEF Editor
  <2>3. EditorsOK'
    BY <1>2, <2>2, EditorType DEF DeleteTemplate
  <2>. QED
    BY <1>2, <2>3, Kept, CountTypes, TypeParts DEF DeleteTemplate, histVars
<1>3. CASE WriteRow(e)
  <2>1. editor[e] \in Editor /\ editor[e].template \in Templates
    BY <1>3, SlotTypes DEF WriteRow, Busy, Editor
  <2> DEFINE t == editor[e].template
  <2>2. rows[t] \in Row /\ rows[t].name \in Names
    BY <1>3, <2>1, SlotTypes DEF WriteRow, Row
  <2>3. Written(rows[t], editor[e]) \in Row
    BY <2>1, <2>2, WrittenType
  <2>4. rows' = [rows EXCEPT ![t] = Written(rows[t], editor[e])] /\ reader' = Cross(t)
    BY <1>3 DEF WriteRow
  <2>5. RowsOK' /\ ReadersOK'
    BY <2>1, <2>3, <2>4, RowType, CrossType
  <2>6. [editor[e] EXCEPT !.at = "drop"] \in Editor
    BY <2>1 DEF Editor
  <2>7. EditorsOK'
    BY <1>3, <2>6, EditorType DEF WriteRow
  <2>8. HistoryOK'
    BY <1>3, <2>2 DEF WriteRow, TypeOK, HistoryOK
  <2>. QED
    BY <1>3, <2>5, <2>7, <2>8, Kept, TypeParts DEF WriteRow
<1>4. CASE WriteFails(e)
  <2>1. EditorsOK'
    BY <1>4, EditorType DEF WriteFails, Done
  <2>2. CountsOK'
    <3>1. UNCHANGED mishaps \/ Mishap
      BY <1>4 DEF WriteFails
    <3>. QED
      BY <1>4, <3>1, CountTypes, Kept DEF WriteFails
  <2>. QED
    BY <1>4, <2>1, <2>2, Kept, TypeParts DEF WriteFails, histVars
<1>5. CASE DropUpdated(e)
  <2>1. editor[e].old \in Names
    BY <1>5, SlotTypes DEF DropUpdated, Busy, Editor
  <2>2. CachedOK' /\ HistoryOK'
    BY <1>5, <2>1, ForgetType DEF DropUpdated, Stale
  <2>3. EditorsOK'
    BY <1>5, EditorType DEF DropUpdated, Done
  <2>. QED
    BY <1>5, <2>2, <2>3, Kept, TypeParts DEF DropUpdated
<1>6. CASE DropDeleted(e)
  <2>1. editor[e] \in Editor /\ editor[e].old \in Names
    BY <1>6, SlotTypes DEF DropDeleted, Busy, Editor
  <2>2. CachedOK' /\ HistoryOK'
    BY <1>6, <2>1, ForgetType DEF DropDeleted, Stale
  <2>3. [editor[e] EXCEPT !.at = "write"] \in Editor
    BY <2>1 DEF Editor
  <2>4. EditorsOK'
    BY <1>6, <2>3, EditorType DEF DropDeleted
  <2>. QED
    BY <1>6, <2>2, <2>4, Kept, TypeParts DEF DropDeleted
<1>7. CASE DropFails(e)
  <2>1. editor[e].old \in Names
    BY <1>7, SlotTypes DEF DropFails, Editor
  <2>2. HistoryOK'
    BY <1>7, <2>1 DEF DropFails, TypeOK, HistoryOK
  <2>3. EditorsOK'
    BY <1>7, EditorType DEF DropFails, Done
  <2>. QED
    BY <1>7, <2>2, <2>3, Kept, CountTypes, TypeParts DEF DropFails
<1>8. CASE DeleteRow(e)
  <2>1. editor[e].template \in Templates
    BY <1>8, SlotTypes DEF DeleteRow, Busy, Editor
  <2> DEFINE t == editor[e].template
  <2>2. RowsOK' /\ ReadersOK' /\ HistoryOK' /\ CountsOK'
    <3>1. CASE /\ rows[t] # None /\ rows' = [rows EXCEPT ![t] = None] /\ reader' = Cross(t)
               /\ slipped' = IF cached[rows[t].name] = Miss THEN slipped ELSE slipped \cup {rows[t].name}
               /\ UNCHANGED mishaps
      <4>1. rows[t].name \in Names
        BY <2>1, <3>1, SlotTypes DEF Row
      <4>2. HistoryOK'
        BY <1>8, <3>1, <4>1 DEF DeleteRow, TypeOK, HistoryOK
      <4>. QED
        BY <1>8, <2>1, <3>1, <4>2, RowType, CrossType, Kept DEF DeleteRow
    <3>2. CASE UNCHANGED <<rows, reader, slipped>> /\ (UNCHANGED mishaps \/ Mishap)
      BY <1>8, <3>2, Kept, CountTypes DEF DeleteRow
    <3>. QED
      BY <1>8, <3>1, <3>2 DEF DeleteRow
  <2>3. EditorsOK'
    BY <1>8, EditorType DEF DeleteRow, Done
  <2>. QED
    BY <1>8, <2>2, <2>3, Kept, TypeParts DEF DeleteRow
<1>. QED
  BY <1>1, <1>2, <1>3, <1>4, <1>5, <1>6, <1>7, <1>8 DEF Edit

LEMMA RestartType ==
    ASSUME TypeOK, Restart
    PROVE  TypeOK'
<1>1. [name |-> Default, content |-> Original] \in Row
  BY TemplateAssumption DEF Row
<1>2. UNCHANGED rows \/ \E t \in Templates :
        rows' = [rows EXCEPT ![t] = [name |-> Default, content |-> Original]]
  BY DEF Restart
<1>3. RowsOK'
  BY <1>1, <1>2, RowType, Kept
<1>4. ReadersOK' /\ EditorsOK'
  BY DEF Restart, ReadersOK, EditorsOK
<1>5. HistoryOK'
  BY DEF Restart, Pending, TypeOK, HistoryOK
<1>6. CachedOK'
  BY DEF Restart, TypeOK, CachedOK
<1>. QED
  BY <1>3, <1>4, <1>5, <1>6, Kept, CountTypes, TypeParts DEF Restart

LEMMA StepType ==
    ASSUME TypeOK, [Next]_vars
    PROVE  TypeOK'
<1>1. ASSUME NEW n \in Names, Expire(n) PROVE TypeOK'
  <2>1. CachedOK' /\ HistoryOK'
    BY <1>1, ForgetType DEF Expire
  <2>. QED
    BY <1>1, <2>1, Kept, TypeParts DEF Expire
<1>2. ASSUME NEW t \in Templates, CreateTemplate(t) PROVE TypeOK'
  <2>1. PICK n \in Names : rows' = [rows EXCEPT ![t] = [name |-> n, content |-> Original]]
    BY <1>2 DEF CreateTemplate
  <2>2. [name |-> n, content |-> Original] \in Row
    BY TemplateAssumption DEF Row
  <2>3. RowsOK'
    BY <2>1, <2>2, RowType
  <2>. QED
    BY <1>2, <2>3, Kept, CountTypes, TypeParts DEF CreateTemplate, histVars
<1>3. CASE UNCHANGED vars
  BY <1>3, Kept, TypeParts DEF vars, histVars
<1>. QED
  BY <1>1, <1>2, <1>3, ReadType, EditType, RestartType DEF Next

(* Every slot, row and cache entry keeps its type, whatever the requests,    *)
(* failures and restarts do to the templates: in particular what a          *)
(* subscription puts into the cache is a template's content.                *)
THEOREM TypeCorrect == Spec => []TypeOK
<1>. QED
  BY InitType, StepType, PTL DEF Spec

-----------------------------------------------------------------------------
(* The cache and the rows.                                                  *)

(* A subscription that read its own template, and was not overtaken, holds   *)
(* what the template holds: without this, what FillCache does to an entry    *)
(* could not be related to the rows.                                        *)
ReaderFresh ==
    \A r \in Readers :
        Is(r, "fill") /\ reader[r].own /\ ~reader[r].crossed =>
            \E t \in Named(reader[r].name) : reader[r].read = rows[t].content

IInv == TypeOK /\ StaleHasCause /\ ReaderFresh

(* Nothing is lost where rows and entries stay and the causes only grow.     *)
LEMMA EntriesKept ==
    ASSUME StaleHasCause, UNCHANGED <<rows, cached>>,
           borrowed \subseteq borrowed', slipped \subseteq slipped',
           Pending \subseteq Pending' \cup slipped'
    PROVE  StaleHasCause'
BY DEF StaleHasCause, Named

(* An entry that leaves the cache takes its own causes with it.              *)
LEMMA EntryForgotten ==
    ASSUME IInv, NEW n \in Names, Forget(n), UNCHANGED rows, Pending \subseteq Pending' \cup {n}
    PROVE  StaleHasCause'
<1>1. SUFFICES ASSUME NEW m \in Names, cached'[m] # Miss
               PROVE  \/ \E t \in Named(m)' : cached'[m] = rows'[t].content
                      \/ m \in Pending' \cup borrowed' \cup slipped'
  BY DEF StaleHasCause
<1>2. m # n
  BY <1>1 DEF Forget, IInv, TypeOK
<1>3. cached'[m] = cached[m]
  BY <1>2 DEF Forget, IInv, TypeOK
<1>. QED
  BY <1>1, <1>2, <1>3 DEF Forget, IInv, StaleHasCause, Named

(* New rows take no template away from its name.                             *)
LEMMA RowAdded ==
    ASSUME IInv, NEW t \in Templates, rows[t] = None, NEW row \in Row,
           rows' = [rows EXCEPT ![t] = row], UNCHANGED <<cached, borrowed>>,
           slipped \subseteq slipped', Pending \subseteq Pending' \cup slipped'
    PROVE  /\ StaleHasCause'
           /\ \A n \in Names : \A s \in Named(n) : s \in Named(n)' /\ rows'[s] = rows[s]
<1>1. \A n \in Names : \A s \in Named(n) : s \in Named(n)' /\ rows'[s] = rows[s]
  BY DEF Named, IInv, TypeOK
<1>2. StaleHasCause'
  BY <1>1 DEF IInv, StaleHasCause
<1>. QED
  BY <1>1, <1>2

(* A subscription's step leaves every other subscription as it was.          *)
LEMMA ReaderKept ==
    ASSUME IInv, NEW r \in Readers, NEW o, reader' = [reader EXCEPT ![r] = o], UNCHANGED rows,
           (o # None /\ o.at = "fill" /\ o.own /\ ~o.crossed) =>
               \E t \in Named(o.name) : o.read = rows[t].content
    PROVE  ReaderFresh'
<1>1. SUFFICES ASSUME NEW q \in Readers, Is(q, "fill")', reader'[q].own, ~reader'[q].crossed
               PROVE  \E t \in Named(reader[q].name)' : reader'[q].read = rows'[t].content
  BY DEF ReaderFresh
<1>2. CASE q = r
  <2>1. reader'[q] = o
    BY <1>2 DEF IInv, TypeOK
  <2>. QED
    BY <1>1, <2>1 DEF Is, Named
<1>3. CASE q # r
  <2>1. reader'[q] = reader[q]
    BY <1>3 DEF IInv, TypeOK
  <2>. QED
    BY <1>1, <2>1 DEF Is, Named, IInv, ReaderFresh
<1>. QED
  BY <1>2, <1>3

(* Whoever holds what an edited row held is marked as overtaken.             *)
LEMMA ReadersCrossed ==
    ASSUME IInv, NEW t \in Templates, rows[t] # None, NEW row,
           rows' = [rows EXCEPT ![t] = row], reader' = Cross(t)
    PROVE  ReaderFresh'
<1>1. SUFFICES ASSUME NEW q \in Readers, Is(q, "fill")', reader'[q].own, ~reader'[q].crossed
               PROVE  \E s \in Named(reader[q].name)' : reader'[q].read = rows'[s].content
  BY DEF ReaderFresh
<1>2. reader'[q] = IF Is(q, "fill") /\ rows[t] # None /\ rows[t].name = reader[q].name
                  THEN [reader[q] EXCEPT !.crossed = TRUE] ELSE reader[q]
  BY DEF Cross
<1>3. reader'[q] = reader[q] /\ ~(Is(q, "fill") /\ rows[t].name = reader[q].name)
  <2>1. ASSUME Is(q, "fill"), rows[t].name = reader[q].name PROVE FALSE
    <3>1. reader'[q] = [reader[q] EXCEPT !.crossed = TRUE]
      BY <1>2, <2>1
    <3>2. reader[q] \in Reader
      BY <2>1, SlotTypes DEF Is, IInv
    <3>3. reader'[q].crossed = TRUE
      BY <3>1, <3>2 DEF Reader
    <3>. QED
      BY <1>1, <3>3
  <2>. QED
    BY <1>2, <2>1
<1>4. Is(q, "fill") /\ reader[q].own /\ ~reader[q].crossed
  BY <1>1, <1>3 DEF Is
<1>5. PICK s \in Named(reader[q].name) : reader[q].read = rows[s].content
  BY <1>4 DEF IInv, ReaderFresh
<1>6. s # t
  BY <1>3, <1>4, <1>5 DEF Named
<1>7. s \in Named(reader[q].name)' /\ rows'[s] = rows[s]
  BY <1>3, <1>5, <1>6 DEF Named, IInv, TypeOK
<1>. QED
  BY <1>3, <1>5, <1>7

LEMMA FreshKept ==
    ASSUME IInv, UNCHANGED <<rows, reader>>
    PROVE  ReaderFresh'
BY DEF IInv, ReaderFresh, Is, Named

(* What an editor's step does to the names it is about to delete.            *)
LEMMA PendingKept ==
    ASSUME TypeOK, NEW e \in Editors, NEW o, editor' = [editor EXCEPT ![e] = o]
    PROVE  /\ Pending \subseteq Pending' \cup {editor[e].old}
           /\ ~Busy(e, "update", "drop") => Pending \subseteq Pending'
<1>1. ASSUME NEW n \in Names, NEW f \in Editors, Busy(f, "update", "drop"), editor[f].old = n, f # e
      PROVE  n \in Pending'
  <2>1. editor'[f] = editor[f]
    BY <1>1 DEF TypeOK
  <2>. QED
    BY <1>1, <2>1 DEF Pending, Busy
<1>. QED
  BY <1>1 DEF Pending

LEMMA PendingSame ==
    ASSUME UNCHANGED editor
    PROVE  Pending' = Pending
BY DEF Pending, Busy

-----------------------------------------------------------------------------
(* One lemma per group of steps.                                            *)

LEMMA SubscriptionSteps ==
    ASSUME IInv, NEW r \in Readers, Read(r)
    PROVE  StaleHasCause' /\ ReaderFresh'
<1>1. CASE Ask(r)
  <2>1. PICK n \in Names : Goto(r, [name |-> n, at |-> "cache", read |-> None,
                                    own |-> FALSE, crossed |-> FALSE])
    BY <1>1 DEF Ask
  <2>2. ReaderFresh'
    BY <1>1, <2>1, ReaderKept DEF Ask, Goto
  <2>. QED
    BY <1>1, <2>2, EntriesKept, PendingSame DEF Ask, histVars, IInv
<1>2. CASE GetCached(r)
  <2>1. reader[r] \in Reader
    BY <1>2, SlotTypes DEF GetCached, Is, IInv
  <2>2. PICK o : reader' = [reader EXCEPT ![r] = o] /\ (o = None \/ o = [reader[r] EXCEPT !.at = "own"])
    BY <1>2 DEF GetCached, Goto, Leave
  <2>3. o # None => o.at = "own"
    BY <2>1, <2>2 DEF Reader
  <2>4. ReaderFresh'
    BY <1>2, <2>2, <2>3, ReaderKept DEF GetCached
  <2>. QED
    BY <1>2, <2>4, EntriesKept, PendingSame DEF GetCached, histVars, IInv
<1>3. CASE FindOwn(r)
  <2>1. reader[r] \in Reader
    BY <1>3, SlotTypes DEF FindOwn, Is, IInv
  <2>2. CASE \E t \in Named(reader[r].name) : Goto(r, Found(reader[r], t, TRUE))
    <3>1. PICK t \in Named(reader[r].name) : Goto(r, Found(reader[r], t, TRUE))
      BY <2>2
    <3>2. /\ Found(reader[r], t, TRUE).name = reader[r].name
          /\ Found(reader[r], t, TRUE).read = rows[t].content
      BY <2>1 DEF Found, Reader
    <3>. QED
      BY <1>3, <3>1, <3>2, ReaderKept, EntriesKept, PendingSame DEF Goto, FindOwn, histVars, IInv
  <2>3. CASE Goto(r, [reader[r] EXCEPT !.at = "default"])
    <3>1. [reader[r] EXCEPT !.at = "default"].at = "default"
      BY <2>1 DEF Reader
    <3>. QED
      BY <1>3, <2>3, <3>1, ReaderKept, EntriesKept, PendingSame DEF Goto, FindOwn, histVars, IInv
  <2>. QED
    BY <1>3, <2>2, <2>3 DEF FindOwn
<1>4. CASE FindDefault(r)
  <2>1. reader[r] \in Reader
    BY <1>4, SlotTypes DEF FindDefault, Is, IInv
  <2>2. CASE \E t \in Named(Default) : Goto(r, Found(reader[r], t, FALSE))
    <3>1. PICK t \in Named(Default) : Goto(r, Found(reader[r], t, FALSE))
      BY <2>2
    <3>2. ~Found(reader[r], t, FALSE).own
      BY <2>1 DEF Found, Reader
    <3>. QED
      BY <1>4, <3>1, <3>2, ReaderKept, EntriesKept, PendingSame DEF Goto, FindDefault, histVars, IInv
  <2>3. CASE Goto(r, [reader[r] EXCEPT !.at = "missing"])
    <3>1. [reader[r] EXCEPT !.at = "missing"].at = "missing"
      BY <2>1 DEF Reader
    <3>. QED
      BY <1>4, <2>3, <3>1, ReaderKept, EntriesKept, PendingSame DEF Goto, FindDefault, histVars, IInv
  <2>. QED
    BY <1>4, <2>2, <2>3 DEF FindDefault
<1>5. CASE FillCache(r)
  <2>1. reader[r] \in Reader
    BY <1>5, SlotTypes DEF FillCache, Is, IInv
  <2>2. ReaderFresh'
    BY <1>5, ReaderKept DEF FillCache, Leave
  <2>3. ASSUME NEW m \in Names, cached'[m] # Miss
        PROVE  \/ \E t \in Named(m)' : cached'[m] = rows'[t].content
               \/ m \in Pending' \cup borrowed' \cup slipped'
    <3>1. CASE m = reader[r].name
      <4>1. cached'[m] = reader[r].read
        BY <1>5, <3>1 DEF FillCache, IInv, TypeOK
      <4>2. CASE reader[r].own /\ ~reader[r].crossed
        <5>1. PICK t \in Named(m) : reader[r].read = rows[t].content
          BY <1>5, <3>1, <4>2 DEF FillCache, IInv, ReaderFresh
        <5>2. t \in Named(m)'
          BY <1>5, <5>1 DEF FillCache, Named
        <5>. QED
          BY <1>5, <4>1, <5>1, <5>2 DEF FillCache
      <4>. QED
        BY <1>5, <3>1, <4>2 DEF FillCache
    <3>2. CASE m # reader[r].name
      <4>1. cached'[m] = cached[m]
        BY <1>5, <3>2 DEF FillCache, IInv, TypeOK
      <4>2. m \in borrowed \cup slipped => m \in borrowed' \cup slipped'
        BY <1>5, <3>2 DEF FillCache
      <4>3. Named(m)' = Named(m) /\ Pending' = Pending
        BY <1>5, PendingSame DEF FillCache, Named
      <4>. QED
        BY <1>5, <2>3, <4>1, <4>2, <4>3 DEF FillCache, IInv, StaleHasCause
    <3>. QED
      BY <3>1, <3>2
  <2>. QED
    BY <2>2, <2>3 DEF StaleHasCause
<1>6. CASE Throw(r)
  <2>1. ReaderFresh'
    BY <1>6, ReaderKept DEF Throw, Leave
  <2>. QED
    BY <1>6, <2>1, EntriesKept, PendingSame DEF Throw, histVars, IInv
<1>. QED
  BY <1>1, <1>2, <1>3, <1>4, <1>5, <1>6 DEF Read

LEMMA RequestSteps ==
    ASSUME IInv, NEW e \in Editors, NEW t \in Templates, UpdateTemplate(e, t) \/ DeleteTemplate(e, t)
    PROVE  StaleHasCause' /\ ReaderFresh'
<1>1. PICK o : editor' = [editor EXCEPT ![e] = o]
  BY DEF UpdateTemplate, DeleteTemplate
<1>2. ~Busy(e, "update", "drop") /\ UNCHANGED <<rows, cached, reader, borrowed, slipped>>
  BY DEF UpdateTemplate, DeleteTemplate, Busy, histVars
<1>3. Pending \subseteq Pending'
  BY <1>1, <1>2, PendingKept DEF IInv
<1>. QED
  BY <1>2, <1>3, EntriesKept, FreshKept DEF IInv

LEMMA WriteSteps ==
    ASSUME IInv, NEW e \in Editors, WriteRow(e)
    PROVE  StaleHasCause' /\ ReaderFresh'
<1> DEFINE t == editor[e].template
<1>1. editor[e] \in Editor
  BY SlotTypes DEF WriteRow, Busy, IInv
<1>2. t \in Templates /\ rows[t] # None
  BY <1>1 DEF WriteRow, Editor
<1>3. ReaderFresh'
  BY <1>2, ReadersCrossed DEF WriteRow
<1>4. Pending \subseteq Pending'
  <2>1. editor' = [editor EXCEPT ![e] = [editor[e] EXCEPT !.at = "drop"]]
    BY DEF WriteRow
  <2>2. ~Busy(e, "update", "drop")
    BY DEF WriteRow, Busy
  <2>. QED
    BY <2>1, <2>2, PendingKept DEF IInv
<1>5. rows[t].name \in Pending' \cup slipped'
  <2>1. CASE rows[t].name = editor[e].old
    <3>1. editor'[e] = [editor[e] EXCEPT !.at = "drop"]
      BY DEF WriteRow, IInv, TypeOK
    <3>2. editor'[e] \in Editor /\ editor'[e].op = "update" /\ editor'[e].at = "drop"
             /\ editor'[e].old = rows[t].name
      BY <1>1, <2>1, <3>1 DEF Editor, WriteRow, Busy
    <3>3. editor'[e] # None /\ editor'[e].old \in Names
      BY <3>2, SlotAssumption DEF Editor
    <3>. QED
      BY <3>2, <3>3 DEF Pending, Busy
  <2>2. CASE rows[t].name # editor[e].old
    BY <2>2 DEF WriteRow
  <2>. QED
    BY <2>1, <2>2
<1>6. ASSUME NEW m \in Names, cached'[m] # Miss
      PROVE  \/ \E s \in Named(m)' : cached'[m] = rows'[s].content
             \/ m \in Pending' \cup borrowed' \cup slipped'
  <2>1. cached' = cached /\ borrowed' = borrowed /\ slipped \subseteq slipped'
    BY DEF WriteRow
  <2>2. CASE m \in Pending \cup borrowed \cup slipped
    BY <1>4, <2>1, <2>2
  <2>3. CASE \E s \in Named(m) : cached[m] = rows[s].content
    <3>1. PICK s \in Named(m) : cached[m] = rows[s].content
      BY <2>3
    <3>2. CASE s = t
      BY <1>5, <3>1, <3>2 DEF Named
    <3>3. CASE s # t
      <4>1. rows'[s] = rows[s]
        BY <3>1, <3>3 DEF WriteRow, Named, IInv, TypeOK
      <4>2. s \in Named(m)'
        BY <3>1, <4>1 DEF Named
      <4>. QED
        BY <2>1, <3>1, <4>1, <4>2
    <3>. QED
      BY <3>2, <3>3
  <2>. QED
    BY <1>6, <2>1, <2>2, <2>3 DEF IInv, StaleHasCause
<1>. QED
  BY <1>3, <1>6 DEF StaleHasCause

LEMMA DropSteps ==
    ASSUME IInv, NEW e \in Editors,
           WriteFails(e) \/ DropUpdated(e) \/ DropDeleted(e) \/ DropFails(e)
    PROVE  StaleHasCause' /\ ReaderFresh'
<1>1. editor[e] \in Editor
  BY SlotTypes DEF WriteFails, DropUpdated, DropDeleted, DropFails, Busy, IInv
<1>2. editor[e].old \in Names
  BY <1>1 DEF Editor
<1>3. UNCHANGED <<rows, reader>>
  BY DEF WriteFails, DropUpdated, DropDeleted, DropFails
<1>4. PICK o : editor' = [editor EXCEPT ![e] = o]
  BY DEF WriteFails, DropUpdated, DropDeleted, DropFails, Done
<1>5. CASE WriteFails(e)
  <2>1. Pending \subseteq Pending'
    BY <1>4, <1>5, PendingKept DEF WriteFails, Busy, IInv
  <2>. QED
    BY <1>3, <1>5, <2>1, EntriesKept, FreshKept DEF WriteFails, histVars, IInv
<1>6. CASE DropUpdated(e)
  <2>1. Pending \subseteq Pending' \cup {editor[e].old}
    BY <1>4, PendingKept DEF IInv
  <2>2. Forget(editor[e].old)
    BY <1>6 DEF DropUpdated, Stale
  <2>. QED
    BY <1>2, <1>3, <2>1, <2>2, EntryForgotten, FreshKept
<1>7. CASE DropDeleted(e)
  <2>1. Pending \subseteq Pending' \cup {editor[e].old}
    BY <1>4, PendingKept DEF IInv
  <2>2. Forget(editor[e].old)
    BY <1>7 DEF DropDeleted, Stale
  <2>. QED
    BY <1>2, <1>3, <2>1, <2>2, EntryForgotten, FreshKept
<1>8. CASE DropFails(e)
  <2>1. CASE editor[e].op = "update"
    <3>1. Pending \subseteq Pending' \cup {editor[e].old}
      BY <1>4, PendingKept DEF IInv
    <3>. QED
      BY <1>3, <1>8, <2>1, <3>1, EntriesKept, FreshKept DEF DropFails, IInv
  <2>2. CASE editor[e].op # "update"
    <3>1. Pending \subseteq Pending'
      BY <1>4, <2>2, PendingKept DEF Busy, IInv
    <3>. QED
      BY <1>3, <1>8, <2>2, <3>1, EntriesKept, FreshKept DEF DropFails, IInv
  <2>. QED
    BY <2>1, <2>2
<1>. QED
  BY <1>5, <1>6, <1>7, <1>8

LEMMA DeleteSteps ==
    ASSUME IInv, NEW e \in Editors, DeleteRow(e)
    PROVE  StaleHasCause' /\ ReaderFresh'
<1> DEFINE t == editor[e].template
<1>1. t \in Templates
  BY SlotTypes DEF DeleteRow, Busy, IInv, Editor
<1>2. Pending \subseteq Pending'
  BY PendingKept DEF DeleteRow, Done, Busy, IInv
<1>3. cached' = cached /\ borrowed' = borrowed /\ slipped \subseteq slipped'
  BY DEF DeleteRow
<1>4. CASE UNCHANGED <<rows, reader>>
  BY <1>2, <1>3, <1>4, EntriesKept, FreshKept DEF IInv
<1>5. CASE /\ rows[t] # None
           /\ rows' = [rows EXCEPT ![t] = None]
           /\ reader' = Cross(t)
           /\ slipped' = IF cached[rows[t].name] = Miss THEN slipped ELSE slipped \cup {rows[t].name}
  <2>1. ReaderFresh'
    BY <1>1, <1>5, ReadersCrossed
  <2>2. ASSUME NEW m \in Names, cached'[m] # Miss
        PROVE  \/ \E s \in Named(m)' : cached'[m] = rows'[s].content
               \/ m \in Pending' \cup borrowed' \cup slipped'
    <3>1. CASE m \in Pending \cup borrowed \cup slipped
      BY <1>2, <1>3, <3>1
    <3>2. CASE \E s \in Named(m) : cached[m] = rows[s].content
      <4>1. PICK s \in Named(m) : cached[m] = rows[s].content
        BY <3>2
      <4>2. CASE s = t
        BY <1>3, <1>5, <2>2, <4>1, <4>2 DEF Named
      <4>3. CASE s # t
        <5>1. rows'[s] = rows[s]
          BY <1>5, <4>1, <4>3 DEF Named, IInv, TypeOK
        <5>2. s \in Named(m)'
          BY <4>1, <5>1 DEF Named
        <5>. QED
          BY <1>3, <4>1, <5>1, <5>2
      <4>. QED
        BY <4>2, <4>3
    <3>. QED
      BY <1>3, <2>2, <3>1, <3>2 DEF IInv, StaleHasCause
  <2>. QED
    BY <2>1, <2>2 DEF StaleHasCause
<1>. QED
  BY <1>4, <1>5 DEF DeleteRow

LEMMA RowSteps ==
    ASSUME IInv, Restart \/ \E t \in Templates : CreateTemplate(t)
    PROVE  StaleHasCause' /\ ReaderFresh'
<1>1. CASE Restart
  <2>1. ReaderFresh'
    BY <1>1 DEF Restart, ReaderFresh, Is
  <2>2. CASE slipped' = slipped \cup Pending /\ UNCHANGED <<cached, borrowed>>
    <3>1. CASE UNCHANGED rows
      BY <1>1, <2>1, <2>2, <3>1, EntriesKept DEF IInv
    <3>2. CASE \E t \in Templates :
                 rows[t] = None /\ rows' = [rows EXCEPT ![t] = [name |-> Default, content |-> Original]]
      <4>1. [name |-> Default, content |-> Original] \in Row
        BY TemplateAssumption DEF Row
      <4>. QED
        BY <2>1, <2>2, <3>2, <4>1, RowAdded
    <3>. QED
      BY <1>1, <3>1, <3>2 DEF Restart
  <2>3. CASE cached' = [n \in Names |-> Miss]
    BY <2>1, <2>3 DEF StaleHasCause
  <2>. QED
    BY <1>1, <2>2, <2>3 DEF Restart
<1>2. ASSUME NEW t \in Templates, CreateTemplate(t) PROVE StaleHasCause' /\ ReaderFresh'
  <2>1. PICK n \in Names : rows' = [rows EXCEPT ![t] = [name |-> n, content |-> Original]]
    BY <1>2 DEF CreateTemplate
  <2>2. [name |-> n, content |-> Original] \in Row
    BY TemplateAssumption DEF Row
  <2>3. /\ StaleHasCause'
        /\ \A m \in Names : \A s \in Named(m) : s \in Named(m)' /\ rows'[s] = rows[s]
    BY <1>2, <2>1, <2>2, RowAdded, PendingSame DEF CreateTemplate, histVars
  <2>4. ReaderFresh'
    <3>1. \A r \in Readers : Is(r, "fill") => reader[r].name \in Names
      BY SlotTypes DEF Is, Reader, IInv
    <3>2. reader' = reader
      BY <1>2 DEF CreateTemplate
    <3>. QED
      BY <2>3, <3>1, <3>2 DEF IInv, ReaderFresh, Is
  <2>. QED
    BY <2>3, <2>4
<1>. QED
  BY <1>1, <1>2

LEMMA StepInv ==
    ASSUME IInv, [Next]_vars
    PROVE  IInv'
<1>1. TypeOK'
  BY StepType DEF IInv
<1>2. CASE UNCHANGED vars
  BY <1>2, EntriesKept, FreshKept, PendingSame, <1>1 DEF vars, histVars, IInv
<1>3. ASSUME NEW n \in Names, Expire(n) PROVE StaleHasCause' /\ ReaderFresh'
  BY <1>3, EntryForgotten, FreshKept, PendingSame DEF Expire
<1>4. ASSUME NEW e \in Editors, Edit(e) PROVE StaleHasCause' /\ ReaderFresh'
  BY <1>4, RequestSteps, WriteSteps, DropSteps, DeleteSteps DEF Edit
<1>. QED
  BY <1>1, <1>2, <1>3, <1>4, SubscriptionSteps, RowSteps DEF Next, IInv

(* An entry of the cache that is not the content of the template of its name *)
(* has a cause: without failures, renames that cross, deletions and reads    *)
(* that are overtaken, subscriptions get what the administrator last wrote. *)
THEOREM CacheStale == Spec => []StaleHasCause
<1>1. Init => IInv
  BY InitType DEF Init, IInv, StaleHasCause, ReaderFresh, Is
<1>. QED
  BY <1>1, StepInv, PTL DEF Spec, IInv
=============================================================================
