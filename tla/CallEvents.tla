----------------------------- MODULE CallEvents -----------------------------
(***************************************************************************)
(* The life of the rows of `call_events`: Sipuni reports a call with       *)
(* webhooks (1 started, 2 ended, 3 answered, 4 transferred), every webhook *)
(* is served by an HTTP handler that runs several SQL statements, the      *)
(* /calls/sipuni endpoints insert the row of the calls they place, and a   *)
(* background task marks the rows nobody reported on as FAILED.            *)
(*                                                                         *)
(* One atomic step is one SQL statement or one commit under READ           *)
(* COMMITTED: a handler reads the row, other transactions may commit, and  *)
(* the handler then writes what it computed from the row it read.          *)
(***************************************************************************)
EXTENDS Naturals, FiniteSets

CONSTANTS
    Calls,        \* provider_call_id's of one company
    Outbound,     \* the calls made by an agent; the others are inbound
    ApiCalls,     \* the outbound calls an agent may place with the endpoints
    Customer,     \* Customer[c]: the number at the far end of call c
    Handlers,     \* webhook requests the server can have in progress
    Unordered,    \* TRUE: webhooks of one call may arrive out of order
    Redelivers,   \* TRUE: the provider may send any webhook again
    Hangups,      \* the states with which calls may end
    Transferable  \* the inbound calls an agent may transfer

ASSUME CallsAssumption ==
    /\ Outbound \subseteq Calls
    /\ ApiCalls \subseteq Outbound
    /\ Unordered \in BOOLEAN
    /\ Redelivers \in BOOLEAN
    /\ Hangups \subseteq {"ANSWER", "NOANSWER", "CHANUNAVAIL"}

Inbound == Calls \ Outbound

-----------------------------------------------------------------------------
(* The values the handlers exchange.                                       *)

\* NOANSWER stands for NOANSWER, BUSY and CANCEL, CHANUNAVAIL for
\* CHANUNAVAIL and CONGESTION: the code never tells them apart.
HangupStates == {"ANSWER", "NOANSWER", "CHANUNAVAIL"}

\* _TERMINAL_STATES: FAILED is not one of them.
TerminalStates == HangupStates

MissedStates == {"NOANSWER"}

\* "ABSENT": no such row; "NULL": the row has no state yet.
RowStates == {"ABSENT", "NULL", "RINGING", "FAILED"} \union HangupStates

EventTypes == {"call_started", "call_answered", "call_transferred", "call_ended"}

\* A normalised webhook: `answered` says whether it carries a valid
\* call_answer_timestamp.
Events == [call: Calls, type: EventTypes,
           state: {"RINGING"} \union HangupStates, answered: BOOLEAN]

\* What Sipuni may send of call c, as the provider normalises it.
CallStart(c) ==
    [call |-> c, type |-> "call_started", state |-> "RINGING", answered |-> FALSE]
CallAnswer(c) ==
    [call |-> c, type |-> "call_answered", state |-> "ANSWER", answered |-> TRUE]
TransferHangup(c, s, valid) ==
    [call |-> c, type |-> "call_transferred", state |-> s, answered |-> valid]
Hangup(c, s, valid) ==
    [call |-> c, type |-> "call_ended", state |-> s, answered |-> valid]

Rank(type) ==
    CASE type = "call_started" -> 1 [] type = "call_answered" -> 2
      [] type = "call_transferred" -> 3 [] OTHER -> 4

Row == [state: RowStates, answered: BOOLEAN, ended: BOOLEAN, billed: BOOLEAN,
        needs_callback: BOOLEAN, callback_at: BOOLEAN, operator: BOOLEAN]

NoRow == [state |-> "ABSENT", answered |-> FALSE, ended |-> FALSE,
          billed |-> FALSE, needs_callback |-> FALSE, callback_at |-> FALSE,
          operator |-> FALSE]

-----------------------------------------------------------------------------
VARIABLES
    line,       \* line[c]: the call at the provider: idle, ringing, talking, over
    network,    \* webhooks sent and not yet taken by a handler
    calls,      \* calls[c]: the committed row of call c
    handler,    \* handler[h]: the request h serves
    request,    \* request[c]: progress of the endpoint call that placed c
    stale,      \* calls whose row is older than STALE_THRESHOLD_MINUTES
    scheduled   \* webhooks whose background tasks were scheduled

vars == <<line, network, calls, handler, request, stale, scheduled>>

\* A handler between requests.
Free == [pc |-> "free"]

\* A handler that serves webhook `event`: `resolves` are the rows its open
\* transaction has marked as called back (it holds their row locks), `seen`
\* is the row it last read.
Busy == [pc: {"lookup", "insert", "refetch", "update"}, event: Events,
         resolves: SUBSET Calls, seen: Row]

RequestStates == {"none", "lookup", "insert", "update", "ok", "conflict", "lost"}

InProgress == {"lookup", "insert", "update"}

Serving(h) == handler[h].pc # "free"

LockedBy(h) == IF Serving(h) THEN handler[h].resolves ELSE {}

Locked(c, h) == \E g \in Handlers \ {h} : c \in LockedBy(g)

Exists(c) == calls[c].state # "ABSENT"

Init ==
    /\ line = [c \in Calls |-> "idle"]
    /\ network = {}
    /\ calls = [c \in Calls |-> NoRow]
    /\ handler = [h \in Handlers |-> Free]
    /\ request = [c \in Calls |-> "none"]
    /\ stale = {}
    /\ scheduled = {}

-----------------------------------------------------------------------------
(* Sipuni, outside the repository: what it does to a call and sends of it. *)

Send(e) == network' = network \union {e}

ProviderStart(c) ==
    /\ line[c] = "idle"
    /\ line' = [line EXCEPT ![c] = "ringing"]
    /\ Send(CallStart(c))
    /\ UNCHANGED <<calls, handler, request, stale, scheduled>>

ProviderAnswer(c) ==
    /\ line[c] = "ringing"
    /\ line' = [line EXCEPT ![c] = "talking"]
    /\ Send(CallAnswer(c))
    /\ UNCHANGED <<calls, handler, request, stale, scheduled>>

\* The first agent hands the caller over; the leg to the next agent may be
\* missed although the call as a whole was answered.
ProviderTransfer(c) ==
    /\ line[c] = "talking"
    /\ c \in Inbound \intersect Transferable
    /\ \E s \in {"ANSWER", "NOANSWER"} : \E valid \in BOOLEAN :
         /\ s = "NOANSWER" => ~valid
         /\ Send(TransferHangup(c, s, valid))
    /\ line' = [line EXCEPT ![c] = "transferred"]
    /\ UNCHANGED <<calls, handler, request, stale, scheduled>>

ProviderHangup(c) ==
    /\ line[c] \in {"ringing", "talking", "transferred"}
    /\ \E s \in Hangups : \E valid \in BOOLEAN :
         /\ s = "ANSWER" <=> line[c] # "ringing"
         /\ s # "ANSWER" => ~valid
         /\ Send(Hangup(c, s, valid))
    /\ line' = [line EXCEPT ![c] = "over"]
    /\ UNCHANGED <<calls, handler, request, stale, scheduled>>

-----------------------------------------------------------------------------
(* The columns a webhook writes.                                           *)

\* Inbound missed calls are flagged for a callback.
Flags(e) == e.call \in Inbound /\ e.state \in MissedStates

\* CallEvent.create with the webhook's data.
NewRow(e) ==
    [state |-> e.state,
     answered |-> e.answered,
     ended |-> e.type \in {"call_transferred", "call_ended"},
     billed |-> e.type = "call_ended" /\ e.state = "ANSWER" /\ e.answered,
     needs_callback |-> Flags(e),
     callback_at |-> FALSE,
     operator |-> FALSE]

\* _update_existing_call: `seen` is the row as it was read, `row` the row
\* the UPDATE finds. A column the webhook does not carry keeps its value.
Duplicate(e, seen) == e.type = "call_started" /\ seen.state = "RINGING"

\* Mutant: the guard of the terminal states is missing.
NeverKeepsState(e, seen) == FALSE

KeepsState(e, seen) == e.state = "RINGING" /\ seen.state \in TerminalStates

\* billing_sec is recomputed when only the stored answer time is valid.
Rebills(e, seen) ==
    /\ seen.answered /\ ~e.answered
    /\ e.state = "ANSWER"
    /\ e.type \in {"call_transferred", "call_ended"}

\* Mutant: the UPDATE writes every column, also those the webhook lacks.
Overwritten(row, e, seen) == [NewRow(e) EXCEPT !.operator = row.operator]

Merged(row, e, seen) ==
    LET new == NewRow(e) IN
    [row EXCEPT !.state = IF KeepsState(e, seen) THEN @ ELSE e.state,
                !.answered = @ \/ new.answered,
                !.ended = @ \/ new.ended,
                !.billed = @ \/ new.billed \/ Rebills(e, seen),
                !.needs_callback = @ \/ new.needs_callback]

\* callback_at and needs_callback of the rows in S, resolved by a commit.
Resolved(rows, S) ==
    [c \in Calls |-> IF c \in S
                       THEN [rows[c] EXCEPT !.needs_callback = FALSE,
                                            !.callback_at = TRUE]
                       ELSE rows[c]]

-----------------------------------------------------------------------------
(* handle_webhook.                                                         *)

\* Webhooks that may arrive next: in order, the earliest of each call.
Arriving(e) ==
    \/ Unordered
    \/ \A f \in network : f.call = e.call => Rank(e.type) =< Rank(f.type)

AutoResolves(e) ==
    e.call \in Outbound /\ e.type = "call_ended" /\ e.state = "ANSWER"

\* The rows the auto-resolve UPDATE of e matches.
PendingCallbacks(e) ==
    {c \in Inbound : calls[c].needs_callback /\ Customer[c] = Customer[e.call]}

\* Mutant: the row is read FOR SHARE, and written later.
ReadingShared(e, resolves) ==
    [pc |-> IF Exists(e.call) THEN "update" ELSE "insert",
     event |-> e, resolves |-> resolves \union {e.call}, seen |-> calls[e.call]]

\* CallEvent.get: what h does next with webhook e depends on the row it read.
Reading(e, resolves) ==
    [pc |-> IF Exists(e.call) THEN "update" ELSE "insert",
     event |-> e, resolves |-> resolves, seen |-> calls[e.call]]

\* A request takes webhook e. SIP calls send event 1 twice.
Take(e) ==
    /\ e \in network
    /\ Arriving(e)
    /\ \/ network' = network \ {e}
       \/ (Redelivers \/ e.type = "call_started") /\ UNCHANGED network

\* A webhook that resolves no callback: its first statement is CallEvent.get.
Receive(h) ==
    /\ ~Serving(h)
    /\ \E e \in network :
         /\ ~AutoResolves(e)
         /\ Take(e)
         /\ handler' = [handler EXCEPT ![h] = Reading(e, {})]
    /\ UNCHANGED <<line, calls, request, stale, scheduled>>

\* Mutant: the auto-resolve UPDATE is committed on its own.
ReceiveAnsweredCommits(h) ==
    /\ ~Serving(h)
    /\ \E e \in network :
         /\ AutoResolves(e)
         /\ \A c \in PendingCallbacks(e) : ~Locked(c, h)
         /\ Take(e)
         /\ calls' = Resolved(calls, PendingCallbacks(e))
         /\ handler' = [handler EXCEPT ![h] =
                [pc |-> "lookup", event |-> e, resolves |-> {}, seen |-> NoRow]]
    /\ UNCHANGED <<line, request, stale, scheduled>>

\* The end of an answered outbound call: the auto-resolve UPDATE comes
\* first, and waits for the row locks of other transactions.
ReceiveAnswered(h) ==
    /\ ~Serving(h)
    /\ \E e \in network :
         /\ AutoResolves(e)
         /\ \A c \in PendingCallbacks(e) : ~Locked(c, h)
         /\ Take(e)
         /\ handler' = [handler EXCEPT ![h] =
                [pc |-> "lookup", event |-> e, resolves |-> PendingCallbacks(e),
                 seen |-> NoRow]]
    /\ UNCHANGED <<line, calls, request, stale, scheduled>>

Lookup(h) ==
    /\ handler[h].pc = "lookup"
    /\ handler' = [handler EXCEPT ![h] = Reading(@.event, @.resolves)]
    /\ UNCHANGED <<line, network, calls, request, stale, scheduled>>

\* CallEvent.create commits the new row and the resolved callbacks.
Insert(h) ==
    /\ handler[h].pc = "insert"
    /\ LET e == handler[h].event IN
       /\ ~Exists(e.call)
       /\ calls' = [Resolved(calls, handler[h].resolves) EXCEPT ![e.call] = NewRow(e)]
       /\ scheduled' = scheduled \union {e}
    /\ handler' = [handler EXCEPT ![h] = Free]
    /\ UNCHANGED <<line, network, request, stale>>

\* IntegrityError: the rollback undoes the whole transaction.
InsertConflict(h) ==
    /\ handler[h].pc = "insert"
    /\ Exists(handler[h].event.call)
    /\ handler' = [handler EXCEPT ![h].pc = "refetch", ![h].resolves = {}]
    /\ UNCHANGED <<line, network, calls, request, stale, scheduled>>

Refetch(h) ==
    /\ handler[h].pc = "refetch"
    /\ handler' = [handler EXCEPT ![h] = Reading(@.event, {})]
    /\ UNCHANGED <<line, network, calls, request, stale, scheduled>>

\* The early return for a repeated event 1 commits nothing.
SkipDuplicate(h) ==
    /\ handler[h].pc = "update"
    /\ Duplicate(handler[h].event, handler[h].seen)
    /\ handler' = [handler EXCEPT ![h] = Free]
    /\ UNCHANGED <<line, network, calls, request, stale, scheduled>>

\* CallEvent.update_by waits for the row and commits.
Update(h) ==
    /\ handler[h].pc = "update"
    /\ LET e == handler[h].event IN
       /\ ~Duplicate(e, handler[h].seen)
       /\ ~Locked(e.call, h)
       /\ calls' = [Resolved(calls, handler[h].resolves) EXCEPT
                      ![e.call] = Merged(@, e, handler[h].seen)]
       /\ scheduled' = scheduled \union {e}
    /\ handler' = [handler EXCEPT ![h] = Free]
    /\ UNCHANGED <<line, network, request, stale>>

\* Any other exception: the transaction is undone, the provider gets a 200
\* and does not retry.
HandlerError(h) ==
    /\ Serving(h)
    /\ handler' = [handler EXCEPT ![h] = Free]
    /\ UNCHANGED <<line, network, calls, request, stale, scheduled>>

-----------------------------------------------------------------------------
(* /calls/sipuni: the provider places the call, then _upsert_call_event.   *)

MakeCall(c) ==
    /\ c \in ApiCalls
    /\ line[c] = "idle"
    /\ line' = [line EXCEPT ![c] = "ringing"]
    /\ Send(CallStart(c))
    /\ request' = [request EXCEPT ![c] = "lookup"]
    /\ UNCHANGED <<calls, handler, stale, scheduled>>

\* The call is placed, but its first leg drops and no webhook is ever sent.
MakeDeadCall(c) ==
    /\ c \in ApiCalls
    /\ line[c] = "idle"
    /\ line' = [line EXCEPT ![c] = "over"]
    /\ request' = [request EXCEPT ![c] = "lookup"]
    /\ UNCHANGED <<network, calls, handler, stale, scheduled>>

UpsertLookup(c) ==
    /\ request[c] = "lookup"
    /\ request' = [request EXCEPT ![c] = IF Exists(c) THEN "update" ELSE "insert"]
    /\ UNCHANGED <<line, network, calls, handler, stale, scheduled>>

\* Mutant: an existing row is left as the webhook made it.
UpsertSkips(c) ==
    /\ request[c] = "update"
    /\ request' = [request EXCEPT ![c] = "ok"]
    /\ UNCHANGED <<line, network, calls, handler, stale, scheduled>>

UpsertUpdate(c) ==
    /\ request[c] = "update"
    /\ calls' = [calls EXCEPT ![c].operator = TRUE]
    /\ request' = [request EXCEPT ![c] = "ok"]
    /\ UNCHANGED <<line, network, handler, stale, scheduled>>

UpsertCreate(c) ==
    /\ request[c] = "insert"
    /\ ~Exists(c)
    /\ calls' = [calls EXCEPT ![c] = [NoRow EXCEPT !.state = "NULL", !.operator = TRUE]]
    /\ request' = [request EXCEPT ![c] = "ok"]
    /\ UNCHANGED <<line, network, handler, stale, scheduled>>

\* The IntegrityError of the INSERT is not caught: main.py answers 409.
UpsertConflict(c) ==
    /\ request[c] = "insert"
    /\ Exists(c)
    /\ request' = [request EXCEPT ![c] = "conflict"]
    /\ UNCHANGED <<line, network, calls, handler, stale, scheduled>>

\* The process dies: every open transaction is undone, every request is lost.
Crash ==
    /\ handler' = [h \in Handlers |-> Free]
    /\ request' = [c \in Calls |-> IF request[c] \in InProgress THEN "lost" ELSE request[c]]
    /\ UNCHANGED <<line, network, calls, stale, scheduled>>

-----------------------------------------------------------------------------
(* cleanup_orphan_calls: one UPDATE of every old row without a state.      *)

Age(c) ==
    /\ calls[c].state = "NULL"
    /\ c \notin stale
    /\ stale' = stale \union {c}
    /\ UNCHANGED <<line, network, calls, handler, request, scheduled>>

\* Mutant: calls that still ring are given up, too.
OrphansRinging == {c \in stale : calls[c].state \in {"NULL", "RINGING"}}

\* Mutant: the comparison with the cutoff is the wrong way round.
OrphansYoung == {c \in Calls \ stale : calls[c].state = "NULL"}

Orphans == {c \in stale : calls[c].state = "NULL"}

CleanupOrphanCalls ==
    /\ Orphans # {}
    /\ calls' = [c \in Calls |-> IF c \in Orphans
                                   THEN [calls[c] EXCEPT !.state = "FAILED"]
                                   ELSE calls[c]]
    /\ UNCHANGED <<line, network, handler, request, stale, scheduled>>

-----------------------------------------------------------------------------
Provider ==
    \E c \in Calls : \/ ProviderStart(c) \/ ProviderAnswer(c)
                     \/ ProviderTransfer(c) \/ ProviderHangup(c)

Work(h) ==
    \/ Lookup(h) \/ Insert(h) \/ InsertConflict(h) \/ Refetch(h)
    \/ SkipDuplicate(h) \/ Update(h)

Upsert(c) ==
    \/ UpsertLookup(c) \/ UpsertUpdate(c) \/ UpsertCreate(c) \/ UpsertConflict(c)

Next ==
    \/ Provider
    \/ \E h \in Handlers : Receive(h) \/ ReceiveAnswered(h) \/ Work(h) \/ HandlerError(h)
    \/ \E c \in Calls : MakeCall(c) \/ MakeDeadCall(c) \/ Upsert(c) \/ Age(c)
    \/ CleanupOrphanCalls \/ Crash

Spec == Init /\ [][Next]_vars

\* The event loop runs every request it has accepted, and the cleanup
\* scheduler wakes up every CLEANUP_INTERVAL seconds. Nothing forces the
\* provider to go on, or a webhook to arrive.
Fairness ==
    /\ \A h \in Handlers : WF_vars(Work(h))
    /\ \A c \in Calls : WF_vars(Upsert(c)) /\ WF_vars(Age(c))
    /\ WF_vars(CleanupOrphanCalls)

FairSpec == Spec /\ Fairness

-----------------------------------------------------------------------------
(* What must hold.                                                         *)

TypeOK ==
    /\ line \in [Calls -> {"idle", "ringing", "talking", "transferred", "over"}]
    /\ network \subseteq Events
    /\ calls \in [Calls -> Row]
    /\ handler \in [Handlers -> {Free} \union Busy]
    /\ request \in [Calls -> RequestStates]
    /\ stale \subseteq Calls
    /\ scheduled \subseteq Events

\* A missed inbound call that was announced stays on the callback list until
\* it has been called back: no later, repeated or concurrent webhook of the
\* call takes it off (webhooks.py:289 and the update_by of :413).
MissedIsTracked ==
    \A e \in scheduled :
        Flags(e) => calls[e.call].needs_callback \/ calls[e.call].callback_at

\* A call is marked as called back only by a transaction that also recorded
\* an answered outbound call to the same customer (webhooks.py:293-307): a
\* rolled back or failed request leaves no mark.
CallbackWasMade ==
    \A c \in Calls : calls[c].callback_at =>
        \E e \in scheduled : AutoResolves(e) /\ Customer[e.call] = Customer[c]

\* The cleanup only gives up calls of which no webhook was recorded
\* (orphan_call_cleanup.py:4), however the two interleave.
OrphanMeansSilent ==
    \A c \in Calls : calls[c].state = "FAILED" => \A e \in scheduled : e.call # c

\* Mutant: a transfer is announced by the state it reports.
HookEventByState(e) ==
    CASE e.type = "call_started" -> "call.started"
      [] e.type # "call_answered" /\ e.state = "ANSWER" -> "call.completed"
      [] e.type # "call_answered" /\ e.state \in MissedStates -> "call.missed"
      [] OTHER -> "none"

\* The outbound webhook fired for e (_schedule_notifications and
\* _fire_call_webhook); the Telegram message of a call_ended follows it.
HookEvent(e) ==
    CASE e.type = "call_started" -> "call.started"
      [] e.type = "call_transferred" -> "call.transferred"
      [] e.type = "call_ended" /\ e.state = "ANSWER" -> "call.completed"
      [] e.type = "call_ended" /\ e.state \in MissedStates -> "call.missed"
      [] OTHER -> "none"

\* Subscribers are never told both that a call was completed and that it was
\* missed, though the leg of a transfer may be missed (webhooks.py:438-472).
OneOutcome ==
    \A e, f \in scheduled :
        e.call = f.call => {HookEvent(e), HookEvent(f)} # {"call.completed", "call.missed"}

\* What the provider said of the end of a call is never lost: the row keeps
\* the end time and never falls back to having no state or to FAILED.
HangupKept ==
    \A e \in scheduled : e.type = "call_ended" =>
        /\ calls[e.call].ended
        /\ calls[e.call].state \notin {"ABSENT", "NULL", "FAILED"}

\* A call placed through the API and answered with success is recorded and
\* attributed, whichever of the endpoint and the webhooks came first
\* (sipuni.py:64-70).
MadeCallOwned ==
    \A c \in Calls : request[c] = "ok" => Exists(c) /\ calls[c].operator

\* A call that is billed has ended and an answer time was recorded for it,
\* though the billing of a hang-up without a valid answer time is computed
\* from the row as the request read it (webhooks.py:400-410).
BilledWasAnswered ==
    \A c \in Calls : calls[c].billed => calls[c].answered /\ calls[c].ended

\* "Terminal call states -- once set, RINGING should not overwrite"
\* (webhooks.py:36).
RingingNeverReturns ==
    [][\A c \in Calls : calls[c].state \in TerminalStates
                           => calls'[c].state # "RINGING"]_vars

\* The calls of which only webhooks tell.
Reported == Calls \ ApiCalls

Record ==
    INSTANCE CallRecord WITH Calls <- Reported,
                             record <- [c \in Reported |-> calls[c].state]

\* The row of a call that only webhooks report behaves as CallRecord says,
\* however many requests serve them at once: none of them takes the call out
\* of a terminal state back to RINGING (webhooks.py:36-40, :393-398).
RecordSpec == Record!Spec

\* A request that was accepted is answered: a handler that holds the rows its
\* auto-resolve marked, and the handlers of those calls that wait for them,
\* never wait for each other for ever, whoever dies or fails in between
\* (webhooks.py:298-307, :413).
HandlersFinish == \A h \in Handlers : Serving(h) ~> ~Serving(h)

\* No call stays without a state (orphan_call_cleanup.py:4-6).
CallsSettle == \A c \in Calls : calls[c].state = "NULL" ~> calls[c].state # "NULL"

-----------------------------------------------------------------------------
(* What the repository says of the code and the code does not do.          *)

\* _upsert_call_event updates the row "instead of failing with a duplicate
\* key error" (sipuni.py:68-70).
UpsertNeverConflicts == \A c \in Calls : request[c] # "conflict"

\* "Callback tracking for missed inbound calls" (call_event.py:122): a call
\* on the list is a missed one.
OnlyMissedNeedCallback ==
    \A c \in Calls : calls[c].needs_callback => calls[c].state \in MissedStates

\* "Event 3 must not include 'state' to avoid overwriting RINGING"
\* (test_sipuni_webhook_events.py:150).
AnswerEventKeepsState ==
    [][\A e \in scheduled' \ scheduled :
          e.type = "call_answered" /\ Exists(e.call)
              => calls'[e.call].state = calls[e.call].state]_vars

\* "Auto-resolve callback: outbound call to a number that has pending missed
\* calls" (webhooks.py:292): a call waiting for a callback before an outbound
\* call to its customer began is resolved once that call's end is recorded.
CallbackResolvedByCall ==
    \A i \in Inbound, o \in Outbound :
        Customer[i] = Customer[o] =>
            []( /\ calls[i].needs_callback
                /\ line[o] = "idle"
                /\ <>(\E e \in scheduled : AutoResolves(e) /\ e.call = o)
                => <>(~calls[i].needs_callback) )

=============================================================================
