--------------------------- MODULE TelegramConfig ---------------------------
(***************************************************************************)
(* Where a company wants its Telegram notifications: the one row of        *)
(* db/models/telegram_config.py, the requests on it and the setup in the   *)
(* background that makes a group (company/telegram.py,                     *)
(* utils/services/pyrogram_service.py). A request loads the row, perhaps   *)
(* calls Telegram, and commits the columns that differ from what it        *)
(* loaded. Languages, names, links and forum topics are left out: a group  *)
(* stands for itself with its topics.                                      *)
(***************************************************************************)
EXTENDS Naturals, FiniteSets

CONSTANTS
    Companies,
    Events,         \* the events that a company may switch on and off
    Groups,         \* groups that the userbot may make
    Manual,         \* a chat that an administrator made himself
    Requests,       \* requests on configurations, each sent at most once
    Edits,          \* what an update may ask for; None leaves a column
    MaxRows,        \* bounds the rows ever inserted
    None

ASSUME ConfigAssumption ==
    /\ Manual \notin Groups
    /\ None \notin Groups \cup {Manual} \cup BOOLEAN
    /\ MaxRows \in Nat
    /\ IsFiniteSet(Companies)
    /\ \A e \in Edits :
        /\ {e.enabled, e.digest} \subseteq BOOLEAN \cup {None}
        /\ DOMAIN e.on \subseteq Events
        /\ \A x \in DOMAIN e.on : e.on[x] \in BOOLEAN

VARIABLES
    config,     \* config[c]: the row of the company, or None
    inserted,   \* rows inserted so far, whose number is the next id
    fate,       \* fate[g]: whether the group is there, or gone again
    request,    \* request[r]: how far it is, its background task included
    asked,      \* history: asked[c][e], the last that was asked for
    raced,      \* history: companies whose filters changed under a request
    died        \* history: companies one of whose requests died or lost its commit

configVars == <<config, inserted, fate, request, asked, raced, died>>

\* A new row: everything is on.
Fresh(id, chat) ==
    [id |-> id, chat |-> chat, group |-> None, status |-> "not_started",
     enabled |-> TRUE, on |-> Events, digest |-> TRUE, pin |-> None]

\* effective_chat_id
ChatOf(row) == IF row.group # None THEN row.group ELSE row.chat

\* A group that is gone never comes back: a new one has another number.
There(chat) == chat \in Groups => fate[chat] = "there"

\* Some companies are connected already.
ConfigInit ==
    /\ inserted = Cardinality(Companies)
    /\ \E id \in [Companies -> 1 .. inserted] :
        /\ \A c, d \in Companies : id[c] = id[d] => c = d
        /\ config \in [Companies -> {None} \cup {Fresh(i, Manual) : i \in 1 .. inserted}]
        /\ \A c \in Companies : config[c] # None => config[c].id = id[c]
    /\ fate = [g \in Groups |-> "none"]
    /\ request = [r \in Requests |-> [pc |-> "unsent"]]
    /\ asked = [c \in Companies |-> [e \in Events |-> TRUE]]
    /\ raced = {}
    /\ died = {}

-----------------------------------------------------------------------------

At(r, pc) == request[r].pc = pc

Goto(r, pc) == request' = [request EXCEPT ![r].pc = pc]

\* The request goes on with the row of its company as it is now.
Load(r, pc) ==
    request' = [request EXCEPT ![r].pc = pc, ![r].row = config[request[r].company]]

\* A row is updated and deleted by its id: another one may have taken its
\* place since it was loaded.
SameRow(r) ==
    LET c == request[r].company IN
    config[c] # None /\ config[c].id = request[r].row.id

\* The columns that differ from the row that was loaded are written. Without
\* the row the commit fails and nothing happens.
Saved(r, new) ==
    LET c == request[r].company
        old == request[r].row
    IN  [config EXCEPT ![c] =
            IF SameRow(r)
            THEN [f \in DOMAIN old |-> IF new[f] = old[f] THEN @[f] ELSE new[f]]
            ELSE @]

Merged(old, change) == (old \ DOMAIN change) \cup {e \in DOMAIN change : change[e]}

Ask(r, change) ==
    LET c == request[r].company IN
    IF SameRow(r)
    THEN /\ asked' = [asked EXCEPT ![c] =
                [e \in Events |-> IF e \in DOMAIN change THEN change[e] ELSE @[e]]]
         /\ raced' = IF config[c].on # request[r].row.on
                     THEN raced \cup {c} ELSE raced
    ELSE UNCHANGED <<asked, raced>>

\* A second insertion for the company meets the unique index and fails.
Insert(c, chat) ==
    IF config[c] = None
    THEN /\ inserted < MaxRows
         /\ inserted' = inserted + 1
         /\ config' = [config EXCEPT ![c] = Fresh(inserted + 1, chat)]
         /\ asked' = [asked EXCEPT ![c] = [e \in Events |-> TRUE]]
         /\ raced' = raced \ {c}
    ELSE UNCHANGED <<config, inserted, asked, raced>>

-----------------------------------------------------------------------------
(* Requests. All of them begin with the row.                                *)

Send(r, c, op) ==
    /\ At(r, "unsent")
    /\ request' = [request EXCEPT ![r] =
            [pc |-> "loaded", op |-> op, company |-> c, row |-> config[c],
             group |-> None]]
    /\ UNCHANGED <<config, inserted, fate, asked, raced, died>>

Begun(r, op) == At(r, "loaded") /\ request[r].op = op

\* create_telegram_config with the filters that its request has by default.
CreateConfig(r) ==
    /\ Begun(r, "create")
    /\ LET old == request[r].row
           all == [e \in Events |-> TRUE]
       IN  IF old = None
           THEN Insert(request[r].company, Manual)
           ELSE /\ config' = Saved(r, [old EXCEPT !.chat = Manual,
                                                  !.enabled = TRUE,
                                                  !.on = Events])
                /\ Ask(r, all)
                /\ UNCHANGED inserted
    /\ Goto(r, "answered")
    /\ UNCHANGED <<fate, died>>

\* Mutant: the filters of the update take the place of the row's.
EditedAnew(old, edit) ==
    [old EXCEPT !.enabled = IF edit.enabled = None THEN @ ELSE edit.enabled,
                !.digest = IF edit.digest = None THEN @ ELSE edit.digest,
                !.on = Merged(Events, edit.on)]

\* The columns of an update and, merged into the filters of the row that was
\* loaded, its filters.
Edited(old, edit) ==
    [old EXCEPT !.enabled = IF edit.enabled = None THEN @ ELSE edit.enabled,
                !.digest = IF edit.digest = None THEN @ ELSE edit.digest,
                !.on = Merged(@, edit.on)]

UpdateConfig(r, edit) ==
    /\ Begun(r, "update")
    /\ IF request[r].row = None     \* not configured
       THEN UNCHANGED <<config, asked, raced>>
       ELSE /\ config' = Saved(r, Edited(request[r].row, edit))
            /\ Ask(r, edit.on)
    /\ Goto(r, "answered")
    /\ UNCHANGED <<inserted, fate, died>>

\* delete_telegram_config has the userbot destroy the group, which may fail.
\* A chat of the administrator's own it cannot destroy.
DestroyGroup(r) ==
    /\ Begun(r, "delete")
    /\ IF request[r].row = None
       THEN Goto(r, "answered") /\ UNCHANGED fate
       ELSE /\ Goto(r, "remove")
            /\ \/ fate' = [g \in Groups |-> IF g = request[r].row.group THEN "gone" ELSE fate[g]]
               \/ UNCHANGED fate
    /\ UNCHANGED <<config, inserted, asked, raced, died>>

RemoveConfig(r) ==
    /\ At(r, "remove")
    /\ config' = [config EXCEPT ![request[r].company] = IF SameRow(r) THEN None ELSE @]
    /\ Goto(r, "answered")
    /\ UNCHANGED <<inserted, fate, asked, raced, died>>

-----------------------------------------------------------------------------
(* Setup.                                                                   *)

\* setup_telegram_group inserts the row when there is none,
InsertForSetup(r) ==
    /\ \E op \in {"setup", "manual"} :
        /\ Begun(r, op)
        /\ request[r].row = None
        /\ LET c == request[r].company
               chat == IF op = "manual" THEN Manual ELSE None
           IN  /\ Insert(c, chat)
               /\ request' = IF config[c] = None
                             THEN [request EXCEPT ![r].row = config'[c]]
                             ELSE [request EXCEPT ![r].pc = "answered"]
    /\ UNCHANGED <<fate, died>>

\* refuses when its row says that a setup is underway, else says so and
\* leaves the rest to a background task.
MarkCreating(r) ==
    /\ Begun(r, "setup")
    /\ request[r].row # None
    /\ IF request[r].row.status = "creating" \/ ~SameRow(r)
       THEN Goto(r, "answered") /\ UNCHANGED config
       ELSE /\ config' = Saved(r, [request[r].row EXCEPT !.status = "creating"])
            /\ Goto(r, "making")
    /\ UNCHANGED <<inserted, fate, asked, raced, died>>

\* create_group fails before the group is there or, at its topics or its
\* invite link, after: then nobody knows the group.
MakeGroup(r) ==
    /\ At(r, "making")
    /\ \/ \E g \in Groups :
            /\ fate[g] = "none"
            /\ fate' = [fate EXCEPT ![g] = "there"]
            /\ \/ request' = [request EXCEPT ![r].pc = "made", ![r].group = g]
               \/ Goto(r, "failed")
       \/ Goto(r, "failed") /\ UNCHANGED fate
    /\ UNCHANGED <<config, inserted, asked, raced, died>>

\* The task loads the row again, which may be gone,
Reload(r) ==
    /\ At(r, "made") \/ At(r, "failed")
    /\ IF config[request[r].company] = None
       THEN Goto(r, "answered")
       ELSE Load(r, IF At(r, "made") THEN "recording" ELSE "apologising")
    /\ UNCHANGED <<config, inserted, fate, asked, raced, died>>

\* and says what became of the setup. When the row is gone by now the error
\* of the commit leads to a second try in the same session, which fails.
RecordGroup(r) ==
    /\ At(r, "recording")
    /\ config' = Saved(r, [request[r].row EXCEPT !.group = request[r].group,
                                                 !.status = "ready"])
    /\ Goto(r, "answered")
    /\ UNCHANGED <<inserted, fate, asked, raced, died>>

\* Mutant: a failure is logged only.
RecordNothing(r) ==
    /\ At(r, "apologising")
    /\ Goto(r, "answered")
    /\ UNCHANGED <<config, inserted, fate, asked, raced, died>>

RecordFailure(r) ==
    /\ At(r, "apologising")
    /\ config' = Saved(r, [request[r].row EXCEPT !.status = "failed"])
    /\ Goto(r, "answered")
    /\ UNCHANGED <<inserted, fate, asked, raced, died>>

\* manual_setup: the bot makes topics in the administrator's group. When that
\* fails as a whole the chat is used without them.
ManualSetup(r) ==
    /\ Begun(r, "manual")
    /\ request[r].row # None
    /\ config' \in
        {Saved(r, [request[r].row EXCEPT !.chat = Manual, !.group = Manual,
                                         !.status = "ready"]),
         Saved(r, [request[r].row EXCEPT !.chat = Manual, !.status = "manual"])}
    /\ Goto(r, "answered")
    /\ UNCHANGED <<inserted, fate, asked, raced, died>>

\* The process dies at a request or at its background task, or the database fails
\* at a commit of the task: its second try, in the same session, fails as well.
Die(r) ==
    /\ request[r].pc \notin {"unsent", "answered"}
    /\ Goto(r, "answered")
    /\ died' = died \cup {request[r].company}
    /\ UNCHANGED <<config, inserted, fate, asked, raced>>

ConfigStep(r) ==
    \/ \E c \in Companies, op \in {"create", "update", "delete", "setup", "manual"} :
            Send(r, c, op)
    \/ CreateConfig(r)
    \/ \E edit \in Edits : UpdateConfig(r, edit)
    \/ DestroyGroup(r)
    \/ RemoveConfig(r)
    \/ InsertForSetup(r)
    \/ MarkCreating(r)
    \/ MakeGroup(r)
    \/ Reload(r)
    \/ RecordGroup(r)
    \/ RecordFailure(r)
    \/ ManualSetup(r)
    \/ Die(r)

ConfigNext == \E r \in Requests : ConfigStep(r)

-----------------------------------------------------------------------------
(* Properties.                                                              *)

\* The events that are on are those last asked for, unless an update merged
\* its filters into a row that had changed since it was loaded
\* (company/telegram.py:124).
FiltersKept ==
    \A c \in Companies \ raced :
        config[c] # None => config[c].on = {e \in Events : asked[c][e]}

\* A configuration in setup has a background task that will say how it ended,
\* unless a process died or the database failed when it was to say so: a setup
\* is refused as long as it is underway (company/telegram.py:271, 321).
CreatingIsUnderway ==
    \A c \in Companies \ died :
        config[c] # None /\ config[c].status = "creating" =>
            \E r \in Requests :
                /\ request[r].pc \in {"making", "made", "failed", "recording",
                                      "apologising"}
                /\ request[r].company = c

=============================================================================
