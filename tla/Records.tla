------------------------------ MODULE Records ------------------------------
(***************************************************************************)
(* Contacts, tasks and notes of a company and the lists of its records:    *)
(* company/contacts.py, tasks.py and notes.py, the bot's buttons that make *)
(* a contact and assign a lead, the paged lists of the application and the *)
(* lists with a cursor of the public API. A request reads in one statement *)
(* and writes in a later one. A row is a kind, a place in its list (when   *)
(* it was created or is due), an owner and an email; other columns, the    *)
(* filters of lists and phones are left out. Calls, leads and deals, whose *)
(* handlers other modules model, only arrive.                              *)
(***************************************************************************)
EXTENDS Naturals, FiniteSets, SequencesExt

CONSTANTS
    Ids,        \* numbers, the ids of rows in the order of a cursor
    Companies, Users, Admins, Emails,
    Batches,    \* the emails of the contacts of a bulk request
    DueDates,   \* numbers; the largest stands for a task without a date
    Edits,      \* Edits[kind]: the columns that an update sends
    Jobs,       \* requests that change rows
    Walks,      \* clients that read a list page by page
    Sizes,      \* page sizes
    None, Gone  \* no row yet, no email, no owner; a row deleted for good

Kinds == {"contact", "task", "note", "call", "lead", "deal"}

Columns == {"email", "owner", "place", "done"}

Rows == [kind : Kinds, company : Companies, owner : Users \cup {None},
         email : Emails \cup {None}, place : Nat, done : BOOLEAN,
         born : Nat, live : BOOLEAN]

\* the columns that an update may send
Sendable(e) ==
    /\ DOMAIN e \subseteq Columns
    /\ "email" \in DOMAIN e => e.email \in Emails \cup {None}
    /\ "owner" \in DOMAIN e => e.owner \in Users \cup {None}
    /\ "place" \in DOMAIN e => e.place \in Nat
    /\ "done" \in DOMAIN e => e.done \in BOOLEAN

ASSUME RecordsAssumption ==
    /\ Ids \subseteq Nat
    /\ IsFiniteSet(Ids)
    /\ \A k \in {"contact", "task"} : \A e \in Edits[k] : Sendable(e)
    /\ DueDates \subseteq Nat
    /\ Sizes \subseteq Nat \ {0}
    /\ Admins \subseteq Users
    /\ \A b \in Batches : b \in Seq(Emails \cup {None})
    /\ None \notin Users \cup Emails \cup Rows
    /\ Gone \notin Rows \cup {None}
    /\ None \notin Ids

VARIABLES
    row,        \* row[x]: the row, None or Gone
    serial,     \* how many transactions have created rows
    now,        \* the time
    job,        \* job[j]: how far a request is
    walk,       \* walk[w]: how far a reader is, and what it saw
    raced       \* history: emails whose looks by two requests overlapped

recordVars == <<row, serial, now, job, walk, raced>>

RecordsInit ==
    /\ row = [x \in Ids |-> None]
    /\ serial = 0
    /\ now = 0
    /\ job = [j \in Jobs |-> [pc |-> "unsent"]]
    /\ walk = [w \in Walks |-> [pc |-> "unsent"]]
    /\ raced = {}

-----------------------------------------------------------------------------

Stands(x) == row[x] \in Rows

Live(x) == Stands(x) /\ row[x].live

\* the conditions of every query of a list, for rows with a deleted_at
LiveRows(k, c) == {x \in Ids : Live(x) /\ row[x].kind = k /\ row[x].company = c}

Unused == {x \in Ids : row[x] = None}

WithEmail(c, e) == {x \in LiveRows("contact", c) : row[x].email = e}

New(k, c, u, e, place) ==
    [kind |-> k, company |-> c, owner |-> u, email |-> e, place |-> place,
     done |-> FALSE, born |-> now, live |-> TRUE]

Reading(w) == walk[w].pc \notin {"unsent", "done"}

\* No row of the kind changes.
Untouched(k, rows) ==
    \A x \in Ids :
        \/ rows[x] = row[x]
        \/ Stands(x) /\ row[x].kind # k
        \/ rows[x] \in Rows /\ rows[x].kind # k

\* The rows become the given ones. Readers under way remember which rows
\* have stood all the time, and whether their list stood still.
Become(rows) ==
    /\ row' = rows
    /\ walk' = [w \in Walks |->
        IF ~Reading(w) THEN walk[w]
        ELSE [walk[w] EXCEPT
            !.there = {x \in walk[w].there : rows[x] \in Rows /\ rows[x].live},
            !.calm = walk[w].calm /\ Untouched(walk[w].kind, rows)]]

At(j, pc) == job[j].pc = pc

Answer(j) == job' = [job EXCEPT ![j] = [pc |-> "answered"]]

\* The emails that a request has looked for and is about to write.
Claimed(j) == IF job[j].pc \in {"inserting", "writing"} THEN job[j].claims ELSE {}

\* A look for the company's emails es found nobody.
Claim(j, c, es) ==
    raced' = raced \cup {<<c, e>> : e \in
        {e \in es : \E i \in Jobs \ {j} : e \in Claimed(i) /\ job[i].company = c}}

-----------------------------------------------------------------------------
(* Contacts.                                                                *)

\* Only a given email is looked for. When several contacts have it already,
\* the look fails, which ends the request as well.
CheckEmail(j, c, e) ==
    /\ At(j, "unsent")
    /\ IF e # None /\ WithEmail(c, e) # {}
       THEN Answer(j) /\ UNCHANGED raced
       ELSE /\ job' = [job EXCEPT ![j] =
                [pc |-> "inserting", company |-> c, claims |-> {e} \ {None},
                 emails |-> <<e>>]]
            /\ Claim(j, c, {e} \ {None})
    /\ UNCHANGED <<row, serial, now, walk>>

\* Mutant: the emails within the batch are not compared.
AnyBatch(b) == TRUE

BatchDistinct(b) ==
    \A i, k \in DOMAIN b : b[i] = b[k] /\ b[i] # None => i = k

CheckBatch(j, c, b) ==
    LET es == Range(b) \ {None}
    IN  /\ At(j, "unsent")
        /\ IF ~BatchDistinct(b) \/ \E e \in es : WithEmail(c, e) # {}
           THEN Answer(j) /\ UNCHANGED raced
           ELSE /\ job' = [job EXCEPT ![j] =
                    [pc |-> "inserting", company |-> c, claims |-> es,
                     emails |-> b]]
                /\ Claim(j, c, es)
        /\ UNCHANGED <<row, serial, now, walk>>

\* The bot's button: a live contact with the phone of the call may exist.
CheckPhone(j, c) ==
    /\ At(j, "unsent")
    /\ \/ Answer(j)
       \/ job' = [job EXCEPT ![j] = [pc |-> "inserting", company |-> c,
                                     claims |-> {}, emails |-> <<None>>]]
    /\ UNCHANGED <<row, serial, now, walk, raced>>

\* Contacts of one request are created at one time, the transaction's.
InsertContacts(j) ==
    /\ At(j, "inserting")
    /\ \E s \in SetToSeqs(Unused) :
        LET es == job[j].emails
        IN  /\ Len(es) <= Len(s)
            /\ Become([x \in Ids |->
                IF \E i \in DOMAIN es : s[i] = x
                THEN New("contact", job[j].company, None,
                         es[CHOOSE i \in DOMAIN es : s[i] = x], serial)
                ELSE row[x]])
    /\ serial' = serial + 1
    /\ Answer(j)
    /\ UNCHANGED <<now, raced>>

\* create_contact, bulk_create_contacts and the bot's "cc"
CreateContacts(j, c) ==
    \/ \E e \in Emails \cup {None} : CheckEmail(j, c, e)
    \/ \E b \in Batches : CheckBatch(j, c, b)
    \/ CheckPhone(j, c)
    \/ InsertContacts(j)

-----------------------------------------------------------------------------
(* Tasks, notes, and the rows that others create.                           *)

Insert(x, r) ==
    /\ Become([row EXCEPT ![x] = r])
    /\ serial' = serial + 1
    /\ UNCHANGED <<now, raced>>

\* A task is its creator's unless another user is named.
CreateTask(j, c, u, due) ==
    /\ At(j, "unsent")
    /\ \E x \in Unused : Insert(x, New("task", c, u, None, due))
    /\ Answer(j)

CreateNote(j, c, u) ==
    /\ At(j, "unsent")
    /\ \E x \in Unused : Insert(x, New("note", c, u, None, serial))
    /\ Answer(j)

\* The ids of calls ascend, those of leads and deals are random.
Arrive(k, c, u) ==
    /\ \E x \in Unused :
        /\ k = "call" =>
            \A y \in Ids : Stands(y) /\ row[y].kind = "call" => y < x
        /\ Insert(x, New(k, c, u, None, serial))
    /\ UNCHANGED job

-----------------------------------------------------------------------------
(* Updates and deletions load the row, and write when they have decided.    *)

\* A contact is an operator's when it is assigned to him; so is a task, which
\* only those with the permission delete; a note is its author's. The bot lets
\* every user of the company take a lead.
Owns(u, x, op) ==
    \/ u \in Admins
    \/ op = "assign"
    \/ row[x].owner = u
    \/ row[x].kind = "task" /\ op = "delete"

Load(j, c, u, k, op, edit) ==
    /\ At(j, "unsent")
    /\ \E x \in Ids :
        IF x \notin LiveRows(k, c) \/ ~Owns(u, x, op)
        THEN Answer(j)
        ELSE job' = [job EXCEPT ![j] =
                [pc |-> IF k = "contact" /\ "email" \in DOMAIN edit
                           /\ edit.email \notin {None, row[x].email}
                        THEN "checking" ELSE "writing",
                 op |-> op, company |-> c, row |-> x, loaded |-> row[x],
                 edit |-> edit, claims |-> {}]]
    /\ UNCHANGED <<row, serial, now, walk, raced>>

\* An update of a contact looks for a new email before it writes.
CheckChange(j) ==
    LET c == job[j].company
        e == job[j].edit.email
    IN  /\ At(j, "checking")
        /\ IF WithEmail(c, e) # {}
           THEN Answer(j) /\ UNCHANGED raced
           ELSE /\ job' = [job EXCEPT ![j].pc = "writing", ![j].claims = {e}]
                /\ Claim(j, c, {e})
        /\ UNCHANGED <<row, serial, now, walk>>

\* What is committed are the columns that differ from what was loaded.
Amended(r, loaded, edit) ==
    [f \in DOMAIN r |-> IF f \in DOMAIN edit /\ edit[f] # loaded[f]
                        THEN edit[f] ELSE r[f]]

\* The row may be gone by now, which ends the request in an error.
Put(j, op, k, r) ==
    /\ At(j, "writing")
    /\ job[j].op = op
    /\ job[j].loaded.kind = k
    /\ IF Stands(job[j].row)
       THEN Become([row EXCEPT ![job[j].row] = r])
       ELSE UNCHANGED <<row, walk>>
    /\ Answer(j)
    /\ UNCHANGED <<serial, now, raced>>

AmendRow(j) == Amended(row[job[j].row], job[j].loaded, job[j].edit)

UpdateContact(j, c) ==
    \/ \E u \in Users, e \in Edits["contact"] :
        Load(j, c, u, "contact", "update", e)
    \/ CheckChange(j)
    \/ Put(j, "update", "contact", AmendRow(j))

UpdateTask(j, c) ==
    \/ \E u \in Users, e \in Edits["task"] :
        Load(j, c, u, "task", "update", e)
    \/ Put(j, "update", "task", AmendRow(j))

CompleteTask(j, c) ==
    \/ \E u \in Users :
        Load(j, c, u, "task", "complete", [done |-> TRUE])
    \/ Put(j, "complete", "task", AmendRow(j))

\* The content of a note is left out.
UpdateNote(j, c) ==
    \/ \E u \in Users :
        Load(j, c, u, "note", "update", <<>>)
    \/ Put(j, "update", "note", AmendRow(j))

\* The bot's button: the lead becomes the user's who presses it.
AssignLead(j, c) ==
    \/ \E u \in Users :
        Load(j, c, u, "lead", "assign", [owner |-> u])
    \/ Put(j, "assign", "lead", AmendRow(j))

Delete(j, c, k) ==
    \/ \E u \in Users : Load(j, c, u, k, "delete", <<>>)
    \/ Put(j, "delete", k, [row[job[j].row] EXCEPT !.live = FALSE])
    \/ Put(j, "delete", k, Gone)

DeleteContact(j, c) == Delete(j, c, "contact")

DeleteTask(j, c) == Delete(j, c, "task")

DeleteNote(j, c) == Delete(j, c, "note")

-----------------------------------------------------------------------------
(* Lists of the application: a count, then the page, both anew for each     *)
(* page. Rows whose places are equal come in any order.                     *)

NewestFirst(x, y) == row[x].place > row[y].place

DueFirst(x, y) == row[x].place < row[y].place

Arrangements(S, Before(_, _)) ==
    {s \in SetToSeqs(S) : \A i, k \in DOMAIN s : i < k => ~Before(s[k], s[i])}

ListContacts(c) == Arrangements(LiveRows("contact", c), NewestFirst)

ListTasks(c) == Arrangements(LiveRows("task", c), DueFirst)

ListNotes(c) == Arrangements(LiveRows("note", c), NewestFirst)

ListLeads(c) == Arrangements(LiveRows("lead", c), NewestFirst)

ListDeals(c) == Arrangements(LiveRows("deal", c), NewestFirst)

\* Calls are never deleted.
ListCalls(c) ==
    Arrangements({x \in Ids : Stands(x) /\ row[x].kind = "call"
                                 /\ row[x].company = c}, NewestFirst)

Listed(k, c) ==
    CASE k = "contact" -> ListContacts(c)
      [] k = "task" -> ListTasks(c)
      [] k = "note" -> ListNotes(c)
      [] k = "lead" -> ListLeads(c)
      [] k = "deal" -> ListDeals(c)
      [] k = "call" -> ListCalls(c)

Page(s, page, size) ==
    SubSeq(s, (page - 1) * size + 1,
           IF page * size < Len(s) THEN page * size ELSE Len(s))

TotalPages(total, size) == (total + size - 1) \div size

Start(w, pc, k, c, size) ==
    /\ walk[w].pc = "unsent"
    /\ walk' = [walk EXCEPT ![w] =
            [pc |-> pc, kind |-> k, company |-> c, size |-> size, page |-> 1,
             cursor |-> None, total |-> 0, seen |-> <<>>, paged |-> pc = "count",
             there |-> LiveRows(k, c), calm |-> TRUE]]
    /\ UNCHANGED <<row, serial, now, job, raced>>

StartPages(w) ==
    \E k \in Kinds, c \in Companies, n \in Sizes : Start(w, "count", k, c, n)

CountRows(w) ==
    /\ walk[w].pc = "count"
    /\ \E s \in Listed(walk[w].kind, walk[w].company) :
        walk' = [walk EXCEPT ![w] = [walk[w] EXCEPT !.pc = "page", !.total = Len(s)]]
    /\ UNCHANGED <<row, serial, now, job, raced>>

\* The reader goes on until the page is the last of those it was told of.
ReadPage(w) ==
    /\ walk[w].pc = "page"
    /\ \E s \in Listed(walk[w].kind, walk[w].company) :
        walk' = [walk EXCEPT ![w] =
            [walk[w] EXCEPT
                !.pc = IF walk[w].page < TotalPages(walk[w].total, walk[w].size)
                       THEN "count" ELSE "done",
                !.page = walk[w].page + 1,
                !.seen = walk[w].seen \o Page(s, walk[w].page, walk[w].size),
                !.calm = walk[w].calm
                    /\ \A t \in Listed(walk[w].kind, walk[w].company) : t = s]]
    /\ UNCHANGED <<row, serial, now, job, raced>>

-----------------------------------------------------------------------------
(* Lists of the public API: the rows below a cursor, one more than asked    *)
(* for to see whether there are more, and the last one as the next cursor.  *)

Descending(x, y) == x > y

\* Mutant: the row at the cursor is part of the next page.
FromCursor(S, cursor) ==
    Arrangements({x \in S : cursor = None \/ x <= cursor}, Descending)

Below(S, cursor) ==
    Arrangements({x \in S : cursor = None \/ x < cursor}, Descending)

PublicContacts(c, cursor) == Below(LiveRows("contact", c), cursor)

PublicLeads(c, cursor) == Below(LiveRows("lead", c), cursor)

PublicDeals(c, cursor) == Below(LiveRows("deal", c), cursor)

PublicCalls(c, cursor) ==
    Below({x \in Ids : Stands(x) /\ row[x].kind = "call" /\ row[x].company = c},
          cursor)

Public(k, c, cursor) ==
    CASE k = "contact" -> PublicContacts(c, cursor)
      [] k = "lead" -> PublicLeads(c, cursor)
      [] k = "deal" -> PublicDeals(c, cursor)
      [] k = "call" -> PublicCalls(c, cursor)

StartCursor(w) ==
    \E k \in {"contact", "lead", "deal", "call"}, c \in Companies, n \in Sizes :
        Start(w, "cursor", k, c, n)

ReadBatch(w) ==
    /\ walk[w].pc = "cursor"
    /\ \E items \in Public(walk[w].kind, walk[w].company, walk[w].cursor) :
        LET n == walk[w].size
            more == Len(items) > n
        IN  walk' = [walk EXCEPT ![w] =
                [walk[w] EXCEPT
                    !.pc = IF more THEN "cursor" ELSE "done",
                    !.seen = walk[w].seen \o SubSeq(items, 1, IF more THEN n ELSE Len(items)),
                    !.cursor = IF more THEN items[n] ELSE None]]
    /\ UNCHANGED <<row, serial, now, job, raced>>

ReadLists(w) ==
    StartPages(w) \/ CountRows(w) \/ ReadPage(w) \/ StartCursor(w) \/ ReadBatch(w)

Requests(j, c) ==
    \/ CreateContacts(j, c) \/ UpdateContact(j, c) \/ DeleteContact(j, c)
    \/ \E u \in Users, d \in DueDates : CreateTask(j, c, u, d)
    \/ UpdateTask(j, c) \/ CompleteTask(j, c) \/ DeleteTask(j, c)
    \/ \E u \in Users : CreateNote(j, c, u)
    \/ UpdateNote(j, c) \/ DeleteNote(j, c) \/ AssignLead(j, c)

Arrivals(c) ==
    \E k \in {"call", "lead", "deal"}, u \in Users \cup {None} : Arrive(k, c, u)

RecordsNext ==
    \/ \E j \in Jobs, c \in Companies : Requests(j, c)
    \/ \E c \in Companies : Arrivals(c)
    \/ \E w \in Walks : ReadLists(w)

-----------------------------------------------------------------------------
(* Properties.                                                              *)

\* No two live contacts of a company have the same email, whichever of the
\* requests that create and change contacts made them, unless two requests
\* looked for that email before either wrote (contacts.py:49, 349, 510).
EmailsUnique ==
    \A c \in Companies, e \in Emails :
        <<c, e>> \notin raced => Cardinality(WithEmail(c, e)) <= 1

\* A reader of the public API who follows the cursor to the end has seen every
\* row that stood all the while, and no row twice, whatever came and went in
\* between. A reader of the application's pages has, too, when no row of the
\* list was written meanwhile and no two rows shared a place in it.
WalkComplete ==
    \A w \in Walks :
        walk[w].pc = "done" /\ (walk[w].paged => walk[w].calm) =>
            /\ walk[w].there \subseteq ToSet(walk[w].seen)
            /\ IsInjective(walk[w].seen)

=============================================================================
