--------------------------------- MODULE Crm ---------------------------------
(***************************************************************************)
(* The leads and deals of one company (company/leads.py, company/deals.py) *)
(* and the events that the company's webhook endpoint is to receive        *)
(* (services/webhook.py). Every handler goes through the object mapper     *)
(* (db/mixins/object_manager.py): it loads a row, assigns to it, commits   *)
(* the columns that changed and reads the row back, and other requests run *)
(* between these statements. Leads and deals share a table here: `state`   *)
(* is the status of a lead and the stage of a deal.                        *)
(***************************************************************************)
EXTENDS Naturals

CONSTANTS
    Leads, Deals,   \* ids of rows
    Requests,       \* requests, each sent at most once
    SetState,       \* SetState[i]: what updates may set the state of row i to
    None,           \* no row yet; no lead; a state that an update does not set
    Gone            \* the row was deleted for good

Ids == Leads \cup Deals

Stages == {"PROSPECTING", "QUALIFICATION", "PROPOSAL", "NEGOTIATION",
           "CLOSED_WON", "CLOSED_LOST"}

Statuses == {"NEW", "CONTACTED", "QUALIFIED", "CONVERTED", "LOST"}

Rows == [state : Stages \cup Statuses, lead_id : Leads \cup {None},
         deleted : BOOLEAN]

ASSUME CrmAssumption ==
    /\ SetState \in [Ids -> SUBSET (Stages \cup Statuses \cup {None})]
    /\ Leads \cap Deals = {}
    /\ None # Gone
    /\ None \notin Leads \cup Stages \cup Statuses
    /\ {None, Gone} \cap Rows = {}

VARIABLES
    row,          \* row[i]: None before it is inserted, Gone after its removal
    endpoint,     \* the webhook endpoint: "active", "inactive" or "deleted"
    request,      \* request[r]: how far request r is
    delivery,     \* delivery[r]: the delivery record of r's event
    task,         \* task[r]: the task that is to deliver r's event
    posted,       \* the requests whose event was posted to the endpoint
    staged,       \* history: the stages that deal d has had
    told,         \* history: the stage of deal d in the last event about it
    wrote,        \* history: the requests that committed
    rerouted      \* history: the endpoint was switched or deleted

database == <<row, staged, wrote>>
outbound == <<endpoint, delivery, task, posted, told, rerouted>>
vars == <<database, outbound, request>>

Ops == {"create", "edit", "update", "win", "lose", "delete", "convert", "mark"}

Unsent == [pc |-> "unsent"]

\* `loaded` is the row as it was loaded, `set` the object that the handler
\* works on: what it assigned, and after the refresh what it read back.
RequestStates ==
    {Unsent}
        \cup [pc : {"insert"}, lead : Leads \cup {None}]
        \cup [pc : {"save", "refresh", "fire", "flush"}, op : Ops,
              id : Ids, loaded : Rows, set : Rows]
        \cup [pc : {"remove"}, id : Ids]
        \cup [pc : {"close"}]
        \cup [pc : {"answered"}, answer : {"done", "400", "500"}]

TypeOK ==
    /\ row \in [Ids -> Rows \cup {None, Gone}]
    /\ endpoint \in {"active", "inactive", "deleted"}
    /\ request \in [Requests -> RequestStates]
    /\ delivery \in [Requests -> {"none", "flushed", "committed"}]
    /\ task \in [Requests -> {"none", "spawned", "done"}]
    /\ posted \subseteq Requests
    /\ staged \in [Deals -> SUBSET (Stages \cup Statuses)]
    /\ told \in [Deals -> Stages \cup Statuses]
    /\ wrote \subseteq Requests
    /\ rerouted \in BOOLEAN

Init ==
    /\ row = [i \in Ids |-> None]
    /\ endpoint = "active"
    /\ request = [r \in Requests |-> Unsent]
    /\ delivery = [r \in Requests |-> "none"]
    /\ task = [r \in Requests |-> "none"]
    /\ posted = {}
    /\ staged = [d \in Deals |-> {}]
    /\ told = [d \in Deals |-> "PROSPECTING"]
    /\ wrote = {}
    /\ rerouted = FALSE

-----------------------------------------------------------------------------

Exists(i) == row[i] \notin {None, Gone}

Live(i) == Exists(i) /\ ~row[i].deleted

Send(r) == request[r].pc = "unsent"

Goto(r, state) == request' = [request EXCEPT ![r] = state]

Answer(r, a) == Goto(r, [pc |-> "answered", answer |-> a])

\* Request r commits the row i.
Commit(r, i, new) ==
    /\ row' = [row EXCEPT ![i] = new]
    /\ staged' = [d \in Deals |->
                    IF d = i THEN staged[d] \cup {new.state} ELSE staged[d]]
    /\ wrote' = wrote \cup {r}

-----------------------------------------------------------------------------
(* Creation. The contact and the assignee of a row are not modelled.        *)

NewLead == [state |-> "NEW", lead_id |-> None, deleted |-> FALSE]

NewDeal(l) == [state |-> "PROSPECTING", lead_id |-> l, deleted |-> FALSE]

Inserted(i, new) ==
    [pc |-> "refresh", op |-> "create", id |-> i, loaded |-> new, set |-> new]

SendCreateLead(r) ==
    /\ Send(r)
    /\ \E l \in Leads :
        /\ row[l] = None
        /\ Commit(r, l, NewLead)
        /\ Goto(r, Inserted(l, NewLead))
    /\ UNCHANGED outbound

SendCreateDeal(r) ==
    /\ Send(r)
    /\ \E l \in Leads \cup {None} :
        /\ l # None => Live(l)
        /\ Goto(r, [pc |-> "insert", lead |-> l])
    /\ UNCHANGED <<database, outbound>>

\* Mutant: soft-deleted leads cannot be referred to.
ReferableLive(l) == l # None => Live(l)

\* The foreign key is satisfied by soft-deleted leads, too.
Referable(l) == l # None => Exists(l)

\* The INSERT of create_deal and the second half of convert_lead.
InsertDeal(r) ==
    /\ request[r].pc = "insert"
    /\ LET l == request[r].lead IN
        \/ /\ Referable(l)
           /\ \E d \in Deals :
                /\ row[d] = None
                /\ Commit(r, d, NewDeal(l))
                /\ Goto(r, Inserted(d, NewDeal(l)))
        \/ /\ ~Referable(l)
           /\ Answer(r, "400")
           /\ UNCHANGED database
    /\ UNCHANGED outbound

-----------------------------------------------------------------------------
(* Changes: load the row, assign to it, commit, read the row back.          *)

Load(r, o, i, assigned) ==
    /\ Send(r)
    /\ Live(i)
    /\ Goto(r, [pc |-> "save", op |-> o, id |-> i,
                loaded |-> row[i], set |-> assigned])
    /\ UNCHANGED <<database, outbound>>

Assigned(old, s) == IF s = None THEN old ELSE [old EXCEPT !.state = s]

\* update_lead, update_deal and assign_lead, with a state or without ("edit").
\* Only a deal has a lead.
SendUpdate(r) ==
    \E i \in Ids : \E s \in SetState[i], l \in Leads \cup {None} :
        /\ i \in Leads => l = None
        /\ Load(r, IF s = None THEN "edit" ELSE "update", i,
                [Assigned(row[i], s) EXCEPT !.lead_id = l])

\* mark_deal_won and mark_deal_lost
SendClose(r) ==
    \E d \in Deals :
        \/ Load(r, "win", d, Assigned(row[d], "CLOSED_WON"))
        \/ Load(r, "lose", d, Assigned(row[d], "CLOSED_LOST"))

\* convert_lead, which makes a deal of the lead unless told not to
SendConvert(r) ==
    \E l \in Leads, o \in {"convert", "mark"} :
        Load(r, o, l, Assigned(row[l], "CONVERTED"))

\* delete_lead and delete_deal, by default a soft deletion
SendDelete(r) ==
    \E i \in Ids : Load(r, "delete", i, [row[i] EXCEPT !.deleted = TRUE])

SendRemove(r) ==
    /\ Send(r)
    /\ \E i \in Ids : Live(i) /\ Goto(r, [pc |-> "remove", id |-> i])
    /\ UNCHANGED <<database, outbound>>

\* Mutant: the UPDATE statement names every column.
ChangedAll(old, loaded, set) == set

\* The UPDATE statement: the columns that were assigned a new value.
Changed(old, loaded, set) ==
    [f \in DOMAIN old |-> IF set[f] # loaded[f] THEN set[f] ELSE old[f]]

\* Mutant: the change is flushed and never committed.
SaveFlushed(r) ==
    /\ request[r].pc = "save"
    /\ Exists(request[r].id)
    /\ Goto(r, [request[r] EXCEPT !.pc = "refresh"])
    /\ UNCHANGED <<database, outbound>>

Save(r) ==
    /\ request[r].pc = "save"
    /\ LET q == request[r]
           valid == q.set.lead_id = q.loaded.lead_id \/ Referable(q.set.lead_id)
       IN
        \/ /\ Exists(q.id) /\ valid
           /\ Commit(r, q.id, Changed(row[q.id], q.loaded, q.set))
           /\ Goto(r, [q EXCEPT !.pc = "refresh"])
        \/ /\ ~Exists(q.id) \/ ~valid
           /\ Answer(r, IF Exists(q.id) THEN "400" ELSE "500")
           /\ UNCHANGED database
    /\ UNCHANGED outbound

\* The removal of a lead takes it off its deals. Removing a row that is gone
\* removes nothing and is no error.
Remove(r) ==
    /\ request[r].pc = "remove"
    /\ LET i == request[r].id IN
        row' = [j \in Ids |->
                    IF j = i THEN Gone
                    ELSE IF Exists(j) /\ row[j].lead_id = i
                         THEN [row[j] EXCEPT !.lead_id = None]
                    ELSE row[j]]
    /\ wrote' = wrote \cup {r}
    /\ Answer(r, "done")
    /\ UNCHANGED <<staged, outbound>>

\* The requests that fire an event: update_deal when it was given a stage and
\* the stage that it read back is not the old one.
Fires(q, new) ==
    \/ q.op = "create" /\ q.id \in Leads
    \/ q.op \in {"win", "lose"}
    \/ q.op = "update" /\ q.id \in Deals /\ new.state # q.loaded.state

Refresh(r) ==
    /\ request[r].pc = "refresh"
    /\ LET q == request[r]
           new == row[q.id]
       IN
        \/ ~Exists(q.id) /\ Answer(r, "500")
        \/ /\ Exists(q.id) /\ Fires(q, new)
           /\ Goto(r, [pc |-> "fire", op |-> q.op, id |-> q.id,
                       loaded |-> q.loaded, set |-> new])
        \/ /\ Exists(q.id) /\ q.op = "convert"
           /\ Goto(r, [pc |-> "insert", lead |-> q.id])
        \/ /\ Exists(q.id) /\ ~Fires(q, new) /\ q.op # "convert"
           /\ Answer(r, "done")
    /\ UNCHANGED <<database, outbound>>

-----------------------------------------------------------------------------
(* fire_webhook_event: selects the active endpoints, adds a record of each  *)
(* delivery to the session of the request and starts a task. Nothing        *)
(* commits the session after that; it is rolled back when the request ends. *)

Fire(r) ==
    /\ request[r].pc = "fire"
    /\ IF endpoint = "active"
       THEN Goto(r, [request[r] EXCEPT !.pc = "flush"])
       ELSE Answer(r, "done")
    /\ UNCHANGED <<database, outbound>>

\* The stage that the event reports.
Reported(q) ==
    IF q.op = "win" THEN "CLOSED_WON"
    ELSE IF q.op = "lose" THEN "CLOSED_LOST"
    ELSE q.set.state

Flush(r) ==
    /\ request[r].pc = "flush"
    /\ LET q == request[r] IN
        \/ /\ endpoint # "deleted"
           /\ delivery' = [delivery EXCEPT ![r] = "flushed"]
           /\ task' = [task EXCEPT ![r] = "spawned"]
           /\ told' = IF q.id \in Deals THEN [told EXCEPT ![q.id] = Reported(q)]
                      ELSE told
           /\ Goto(r, [pc |-> "close"])
        \/ /\ endpoint = "deleted"
           /\ Answer(r, "400")
           /\ UNCHANGED <<delivery, task, told>>
    /\ UNCHANGED <<database, endpoint, posted, rerouted>>

Close(r) ==
    /\ request[r].pc = "close"
    /\ delivery' = [delivery EXCEPT ![r] = "none"]
    /\ Answer(r, "done")
    /\ UNCHANGED <<database, endpoint, task, posted, told, rerouted>>

\* _process_delivery opens a session of its own and sees only what was
\* committed. What follows a failed attempt is not modelled.
Deliver(r) ==
    /\ task[r] = "spawned"
    /\ posted' = IF delivery[r] = "committed" /\ endpoint = "active"
                 THEN posted \cup {r} ELSE posted
    /\ task' = [task EXCEPT ![r] = "done"]
    /\ UNCHANGED <<database, endpoint, delivery, told, rerouted, request>>

\* update_webhook_endpoint
SwitchEndpoint ==
    /\ endpoint # "deleted"
    /\ endpoint' = IF endpoint = "active" THEN "inactive" ELSE "active"
    /\ rerouted' = TRUE
    /\ UNCHANGED <<database, delivery, task, posted, told, request>>

\* delete_webhook_endpoint waits for the transactions that refer to the
\* endpoint.
DeleteEndpoint ==
    /\ endpoint # "deleted"
    /\ \A r \in Requests : delivery[r] # "flushed"
    /\ endpoint' = "deleted"
    /\ rerouted' = TRUE
    /\ UNCHANGED <<database, delivery, task, posted, told, request>>

-----------------------------------------------------------------------------

Next ==
    \/ \E r \in Requests :
        \/ SendCreateLead(r) \/ SendCreateDeal(r) \/ InsertDeal(r)
        \/ SendUpdate(r) \/ SendClose(r) \/ SendConvert(r) \/ SendDelete(r)
        \/ SendRemove(r)
        \/ Save(r) \/ Remove(r) \/ Refresh(r)
        \/ Fire(r) \/ Flush(r) \/ Close(r) \/ Deliver(r)
    \/ SwitchEndpoint \/ DeleteEndpoint

Spec == Init /\ [][Next]_vars

-----------------------------------------------------------------------------
(* Properties *)

\* A deleted lead or deal stays deleted: an update that loaded the row before
\* its soft deletion does not write the old deleted_at back, and nothing puts
\* a removed row back.
Undeleted(i) ==
    \/ row[i] = Gone /\ row'[i] # Gone
    \/ Exists(i) /\ row[i].deleted /\ row'[i] # Gone /\ ~row'[i].deleted

NoneUndeleted == \A i \in Ids : ~Undeleted(i)

DeletionStands == [][NoneUndeleted]_vars

\* However requests interleave, an event reports a stage that the deal has
\* had: it is fired after the commit, with what was committed or read back.
EventsReportFacts ==
    \A d \in Deals : told[d] # "PROSPECTING" => told[d] \in staged[d]

\* A request that committed a change and is then answered with an error met a
\* hard deletion by someone else: of its row, of the lead it converts (which
\* is left converted and without its deal) or of the endpoint. No interleaving
\* of updates and soft deletions fails a request half way.
Removals == endpoint = "deleted" \/ \E i \in Ids : row[i] = Gone

FailedMidway(r) ==
    /\ r \in wrote
    /\ request[r] \in [pc : {"answered"}, answer : {"400", "500"}]

ErrorsNeedRemovals == (\E r \in Requests : FailedMidway(r)) => Removals

-----------------------------------------------------------------------------
(* What the repository says and the code does not do.                      *)

\* "creates delivery records, and dispatches delivery tasks"
\* (utils/services/webhook.py:155): when the task of an event has ended and
\* the endpoint was active all the time, the event was posted.
EventDelivered ==
    ~rerouted => \A r \in Requests : task[r] = "done" => r \in posted

=============================================================================
