---------------------------- MODULE CallProofs -----------------------------
(***************************************************************************)
(* Safety of CallEvents for every set of calls and handlers, every order   *)
(* of delivery and every repetition: the row of a call never forgets what  *)
(* a recorded webhook said of it. And of Escalation, for any number of     *)
(* processes, calls and failures: a reminder is about a call that was due  *)
(* when its check began, a single process never repeats one whose key it   *)
(* wrote while that key lives, and while nothing fails they come in time.  *)
(***************************************************************************)
EXTENDS CallEvents, Escalation, TLAPS

-----------------------------------------------------------------------------
(* The inductive invariant.                                                *)

\* A webhook was applied to the row of c.
Heard(c) == calls[c].state \notin {"ABSENT", "NULL", "FAILED"}

\* The row of a recorded webhook was reached by it.
ScheduledAreHeard == \A e \in scheduled : Heard(e.call)

\* A handler about to UPDATE found the row, and rows are never deleted. When
\* it will keep the state it read, that state was a webhook's.
UpdatesFindRow ==
    \A h \in Handlers : handler[h].pc = "update" =>
        /\ Exists(handler[h].event.call)
        /\ handler[h].seen.state \in TerminalStates => Heard(handler[h].event.call)

\* The same for an endpoint about to UPDATE.
RequestsFindRow == \A c \in Calls : request[c] = "update" => Exists(c)

\* Only an answered outbound call holds callbacks of its own customer.
ResolvesAreOwn ==
    \A h \in Handlers : Serving(h) =>
        \A c \in handler[h].resolves :
            /\ AutoResolves(handler[h].event)
            /\ Customer[handler[h].event.call] = Customer[c]

\* A webhook sent, served or recorded.
Sent(e) ==
    \/ e \in network \union scheduled
    \/ \E h \in Handlers : Serving(h) /\ handler[h].event = e

\* A call ends once: all its hang-up webhooks say the same.
OneEnd ==
    \A e, f \in Events : Sent(e) /\ e.type = "call_ended" =>
        /\ line[e.call] = "over"
        /\ e.state \in HangupStates
        /\ Sent(f) /\ f.type = "call_ended" /\ f.call = e.call => f.state = e.state

Inv ==
    /\ TypeOK
    /\ ScheduledAreHeard
    /\ UpdatesFindRow
    /\ RequestsFindRow
    /\ ResolvesAreOwn
    /\ OneEnd
    /\ MissedIsTracked
    /\ CallbackWasMade
    /\ MadeCallOwned
    /\ HangupKept

-----------------------------------------------------------------------------
(* Types.                                                                  *)

USE DEF HangupStates, TerminalStates, MissedStates, RowStates, EventTypes, Inbound

\* The webhooks Sipuni sends are events.
LEMMA SentAreEvents ==
    ASSUME NEW c \in Calls
    PROVE  /\ CallStart(c) \in Events
           /\ CallAnswer(c) \in Events
           /\ \A s \in HangupStates, valid \in BOOLEAN :
                  /\ TransferHangup(c, s, valid) \in Events
                  /\ Hangup(c, s, valid) \in Events
  BY DEF CallStart, CallAnswer, TransferHangup, Hangup, Events

\* The rows the code writes are rows.
LEMMA RowTypes ==
    /\ NoRow \in Row
    /\ \A e \in Events : NewRow(e) \in Row
    /\ \A row, seen \in Row, e \in Events : Merged(row, e, seen) \in Row
    /\ \A rows \in [Calls -> Row], S \in SUBSET Calls : Resolved(rows, S) \in [Calls -> Row]
<1>1. NoRow \in Row
  BY DEF NoRow, Row
<1>2. ASSUME NEW e \in Events PROVE NewRow(e) \in Row
  BY <1>2 DEF NewRow, Row, Events, Flags
<1>3. ASSUME NEW row \in Row, NEW seen \in Row, NEW e \in Events
      PROVE  Merged(row, e, seen) \in Row
  <2> DEFINE new == NewRow(e)
             m == Merged(row, e, seen)
  <2>1. new \in Row
    BY <1>2
  <2>2. e.state \in RowStates
    BY DEF Events
  <2>3. \A p, q : (p \/ q) \in BOOLEAN
    OBVIOUS
  <2>4. m = [row EXCEPT !.state = m.state, !.answered = row.answered \/ new.answered,
                        !.ended = row.ended \/ new.ended,
                        !.billed = row.billed \/ new.billed \/ Rebills(e, seen),
                        !.needs_callback = row.needs_callback \/ new.needs_callback]
    BY DEF Merged, Row
  <2>5. m.state \in RowStates
    BY <2>2 DEF Merged, Row
  <2> QED
    BY <2>1, <2>3, <2>4, <2>5 DEF Row
<1>4. ASSUME NEW rows \in [Calls -> Row], NEW S \in SUBSET Calls
      PROVE  Resolved(rows, S) \in [Calls -> Row]
  BY <1>4 DEF Resolved, Row
<1> QED
  BY <1>1, <1>2, <1>3, <1>4

\* A request that is served is a Busy record.
LEMMA ServingIsBusy ==
    ASSUME TypeOK, NEW h \in Handlers, Serving(h)
    PROVE  handler[h] \in Busy
  BY DEF TypeOK, Serving, Free

\* Reading the row of an event leaves a Busy record.
LEMMA ReadingIsBusy ==
    ASSUME TypeOK, NEW e \in Events, NEW S \in SUBSET Calls
    PROVE  Reading(e, S) \in Busy
  BY DEF TypeOK, Reading, Busy, Events

LEMMA TypeInit == Init => TypeOK
  BY RowTypes DEF Init, TypeOK, Free, RequestStates

LEMMA TypeNext == TypeOK /\ [Next]_vars => TypeOK'
<1> SUFFICES ASSUME TypeOK, [Next]_vars PROVE TypeOK'
  OBVIOUS
<1>1. ASSUME NEW c \in Calls, ProviderStart(c) PROVE TypeOK'
  BY <1>1, SentAreEvents DEF TypeOK, ProviderStart, Send
<1>2. ASSUME NEW c \in Calls, ProviderAnswer(c) PROVE TypeOK'
  BY <1>2, SentAreEvents DEF TypeOK, ProviderAnswer, Send
<1>3. ASSUME NEW c \in Calls, ProviderTransfer(c) PROVE TypeOK'
  <2>1. PICK s \in {"ANSWER", "NOANSWER"}, valid \in BOOLEAN : Send(TransferHangup(c, s, valid))
    BY <1>3 DEF ProviderTransfer
  <2>2. TransferHangup(c, s, valid) \in Events
    BY SentAreEvents
  <2> QED
    BY <1>3, <2>1, <2>2 DEF TypeOK, ProviderTransfer, Send
<1>4. ASSUME NEW c \in Calls, ProviderHangup(c) PROVE TypeOK'
  <2>1. PICK s \in Hangups, valid \in BOOLEAN : Send(Hangup(c, s, valid))
    BY <1>4 DEF ProviderHangup
  <2>2. Hangup(c, s, valid) \in Events
    BY SentAreEvents, CallsAssumption
  <2> QED
    BY <1>4, <2>1, <2>2 DEF TypeOK, ProviderHangup, Send
<1>5. ASSUME NEW c \in Calls, MakeCall(c) PROVE TypeOK'
  BY <1>5, SentAreEvents DEF TypeOK, MakeCall, Send, RequestStates
<1>6. ASSUME NEW c \in Calls, MakeDeadCall(c) PROVE TypeOK'
  BY <1>6 DEF TypeOK, MakeDeadCall, RequestStates
<1>7. ASSUME NEW c \in Calls, UpsertLookup(c) PROVE TypeOK'
  BY <1>7 DEF TypeOK, UpsertLookup, RequestStates
<1>8. ASSUME NEW c \in Calls, UpsertUpdate(c) PROVE TypeOK'
  <2>1. [calls[c] EXCEPT !.operator = TRUE] \in Row
    BY DEF TypeOK, Row
  <2> QED
    BY <1>8, <2>1 DEF TypeOK, UpsertUpdate, RequestStates
<1>9. ASSUME NEW c \in Calls, UpsertCreate(c) PROVE TypeOK'
  <2>1. [NoRow EXCEPT !.state = "NULL", !.operator = TRUE] \in Row
    BY DEF NoRow, Row
  <2> QED
    BY <1>9, <2>1 DEF TypeOK, UpsertCreate, RequestStates
<1>10. ASSUME NEW c \in Calls, UpsertConflict(c) PROVE TypeOK'
  BY <1>10 DEF TypeOK, UpsertConflict, RequestStates
<1>11. ASSUME NEW c \in Calls, Age(c) PROVE TypeOK'
  BY <1>11 DEF TypeOK, Age
<1>12. ASSUME NEW h \in Handlers, Receive(h) PROVE TypeOK'
  <2>1. PICK e \in network : Take(e) /\ handler' = [handler EXCEPT ![h] = Reading(e, {})]
    BY <1>12 DEF Receive
  <2>2. Reading(e, {}) \in Busy
    BY ReadingIsBusy DEF TypeOK
  <2> QED
    BY <1>12, <2>1, <2>2 DEF TypeOK, Receive, Take
<1>13. ASSUME NEW h \in Handlers, ReceiveAnswered(h) PROVE TypeOK'
  <2> DEFINE b(e) == [pc |-> "lookup", event |-> e, resolves |-> PendingCallbacks(e), seen |-> NoRow]
  <2>1. PICK e \in network : Take(e) /\ handler' = [handler EXCEPT ![h] = b(e)]
    BY <1>13 DEF ReceiveAnswered
  <2>2. b(e) \in Busy
    BY RowTypes DEF TypeOK, Busy, PendingCallbacks
  <2> HIDE DEF b
  <2> QED
    BY <1>13, <2>1, <2>2 DEF TypeOK, ReceiveAnswered, Take
<1>14. ASSUME NEW h \in Handlers, Lookup(h) PROVE TypeOK'
  <2>1. Reading(handler[h].event, handler[h].resolves) \in Busy
    BY <1>14, ServingIsBusy, ReadingIsBusy DEF Lookup, Serving, Busy
  <2> QED
    BY <1>14, <2>1 DEF TypeOK, Lookup
<1>15. ASSUME NEW h \in Handlers, Refetch(h) PROVE TypeOK'
  <2>1. Reading(handler[h].event, {}) \in Busy
    BY <1>15, ServingIsBusy, ReadingIsBusy DEF Refetch, Serving, Busy
  <2> QED
    BY <1>15, <2>1 DEF TypeOK, Refetch
<1>16. ASSUME NEW h \in Handlers, Insert(h) PROVE TypeOK'
  <2> DEFINE e == handler[h].event
  <2>1. handler[h] \in Busy
    BY <1>16, ServingIsBusy DEF Insert, Serving
  <2>2. e \in Events /\ handler[h].resolves \subseteq Calls
    BY <2>1 DEF Busy
  <2>3. e.call \in Calls
    BY <2>2 DEF Events
  <2>4. NewRow(e) \in Row /\ Resolved(calls, handler[h].resolves) \in [Calls -> Row]
    BY <2>2, RowTypes DEF TypeOK
  <2> QED
    BY <1>16, <2>2, <2>3, <2>4 DEF TypeOK, Insert
<1>17. ASSUME NEW h \in Handlers, InsertConflict(h) PROVE TypeOK'
  <2>1. handler[h] \in Busy
    BY <1>17, ServingIsBusy DEF InsertConflict, Serving
  <2>2. [handler[h] EXCEPT !.pc = "refetch", !.resolves = {}] \in Busy
    BY <2>1 DEF Busy
  <2> QED
    BY <1>17, <2>2 DEF TypeOK, InsertConflict
<1>18. ASSUME NEW h \in Handlers, SkipDuplicate(h) PROVE TypeOK'
  BY <1>18 DEF TypeOK, SkipDuplicate
<1>19. ASSUME NEW h \in Handlers, Update(h) PROVE TypeOK'
  <2> DEFINE e == handler[h].event
             rows == Resolved(calls, handler[h].resolves)
  <2>1. handler[h] \in Busy
    BY <1>19, ServingIsBusy DEF Update, Serving
  <2>2. e \in Events /\ handler[h].resolves \subseteq Calls /\ handler[h].seen \in Row
    BY <2>1 DEF Busy
  <2>3. e.call \in Calls
    BY <2>2 DEF Events
  <2>4. rows \in [Calls -> Row]
    BY <2>2, RowTypes DEF TypeOK
  <2>5. Merged(rows[e.call], e, handler[h].seen) \in Row
    BY <2>2, <2>3, <2>4, RowTypes
  <2>6. calls' = [rows EXCEPT ![e.call] = Merged(rows[e.call], e, handler[h].seen)]
    BY <1>19 DEF Update
  <2> HIDE DEF rows
  <2> QED
    BY <1>19, <2>2, <2>3, <2>4, <2>5, <2>6 DEF TypeOK, Update
<1>20. ASSUME NEW h \in Handlers, HandlerError(h) PROVE TypeOK'
  BY <1>20 DEF TypeOK, HandlerError
<1>21. CASE CleanupOrphanCalls
  BY <1>21 DEF TypeOK, CleanupOrphanCalls, Row
<1>22. CASE Crash
  BY <1>22 DEF TypeOK, Crash, RequestStates
<1>23. CASE UNCHANGED vars
  BY <1>23 DEF TypeOK, vars
<1> QED
  BY <1>1, <1>2, <1>3, <1>4, <1>5, <1>6, <1>7, <1>8, <1>9, <1>10, <1>11, <1>12,
     <1>13, <1>14, <1>15, <1>16, <1>17, <1>18, <1>19, <1>20, <1>21, <1>22, <1>23
     DEF Next, Provider, Work, Upsert

\* Every reachable state is well typed.
THEOREM TypeCorrect == Spec => []TypeOK
<1>1. Init => TypeOK
  BY TypeInit
<1>2. TypeOK /\ [Next]_vars => TypeOK'
  BY TypeNext
<1> QED
  BY <1>1, <1>2, PTL DEF Spec

-----------------------------------------------------------------------------
(* What the writes of a handler do to the rows.                            *)

\* No row loses what Inv says of it; only rows in S become called back.
Kept(S) ==
    \A c \in Calls :
        /\ Exists(c) => Exists(c)' /\ (calls[c].operator => calls'[c].operator)
        /\ Heard(c) =>
             /\ Heard(c)'
             /\ calls[c].needs_callback \/ calls[c].callback_at
                   => calls'[c].needs_callback \/ calls'[c].callback_at
             /\ calls[c].ended => calls'[c].ended
        /\ calls'[c].callback_at => calls[c].callback_at \/ c \in S

\* The row of e's call shows e.
Shows(e) ==
    /\ Heard(e.call)
    /\ Flags(e) => calls[e.call].needs_callback
    /\ e.type = "call_ended" => calls[e.call].ended

LEMMA KeptRows ==
    ASSUME Inv, TypeOK', NEW S, NEW T \in SUBSET Events,
           Kept(S), scheduled' = scheduled \union T,
           \A e \in T : Shows(e)',
           \A c \in S : \E e \in T : AutoResolves(e) /\ Customer[e.call] = Customer[c]
    PROVE  /\ ScheduledAreHeard'
           /\ MissedIsTracked'
           /\ CallbackWasMade'
           /\ HangupKept'
<1>1. \A e \in Events : e.call \in Calls
  BY DEF Events
<1>2. ScheduledAreHeard'
  BY <1>1 DEF Inv, TypeOK, ScheduledAreHeard, Kept, Shows
<1>3. MissedIsTracked'
  BY <1>1 DEF Inv, TypeOK, ScheduledAreHeard, MissedIsTracked, Kept, Shows, Flags
<1>4. CallbackWasMade'
  <2> SUFFICES ASSUME NEW c \in Calls, calls'[c].callback_at
               PROVE  \E e \in scheduled' : AutoResolves(e) /\ Customer[e.call] = Customer[c]
    BY DEF CallbackWasMade, AutoResolves
  <2>1. calls[c].callback_at \/ c \in S
    BY DEF Kept
  <2> QED
    BY <2>1 DEF Inv, CallbackWasMade
<1>5. HangupKept'
  <2> SUFFICES ASSUME NEW e \in scheduled', e.type = "call_ended"
               PROVE  calls'[e.call].ended /\ Heard(e.call)'
    BY DEF HangupKept, Heard
  <2>1. CASE e \in T
    BY <2>1 DEF Shows
  <2>2. CASE e \in scheduled
    BY <1>1, <2>2 DEF Inv, TypeOK, HangupKept, ScheduledAreHeard, Kept
  <2> QED
    BY <2>1, <2>2
<1> QED
  BY <1>2, <1>3, <1>4, <1>5

\* A step that writes no row and records no webhook.
LEMMA SameRows ==
    ASSUME Inv, TypeOK', UNCHANGED <<calls, scheduled>>
    PROVE  /\ ScheduledAreHeard'
           /\ MissedIsTracked'
           /\ CallbackWasMade'
           /\ HangupKept'
<1>1. Kept({})
  BY DEF Kept, Exists, Heard
<1> QED
  BY <1>1, KeptRows

\* When no webhook is sent and no call changes, OneEnd is preserved.
LEMMA NothingSent ==
    ASSUME Inv, UNCHANGED line, \A e \in Events : Sent(e)' => Sent(e)
    PROVE  OneEnd'
  BY DEF Inv, OneEnd

\* Resolving callbacks changes nothing else of a row.
LEMMA ResolvedRows ==
    ASSUME NEW rows \in [Calls -> Row], NEW S, NEW c \in Calls
    PROVE  LET r == Resolved(rows, S)[c] IN
           /\ r \in Row
           /\ r.state = rows[c].state /\ r.operator = rows[c].operator
           /\ r.ended = rows[c].ended
           /\ rows[c].needs_callback \/ rows[c].callback_at
                 => r.needs_callback \/ r.callback_at
           /\ r.callback_at => rows[c].callback_at \/ c \in S
  BY DEF Resolved, Row

LEMMA InsertKeeps ==
    ASSUME Inv, TypeOK', NEW h \in Handlers, Insert(h),
           NEW e \in Events, e = handler[h].event
    PROVE  Kept(handler[h].resolves) /\ Shows(e)'
<1> DEFINE S == handler[h].resolves
           rows == Resolved(calls, S)
<1>1. handler[h] \in Busy
  BY ServingIsBusy DEF Insert, Serving, Inv
<1>2. e.call \in Calls
  BY DEF Events
<1>3. calls \in [Calls -> Row] /\ ~Exists(e.call)
  BY DEF Inv, TypeOK, Insert
<1>4. calls' = [rows EXCEPT ![e.call] = NewRow(e)]
  BY DEF Insert
<1>5. rows \in [Calls -> Row] /\ S \subseteq Calls
  BY <1>1, <1>3, RowTypes DEF Busy
<1>6. calls'[e.call] = NewRow(e) /\ \A c \in Calls \ {e.call} : calls'[c] = rows[c]
  BY <1>2, <1>4, <1>5
<1>7. Kept(S)
  <2> SUFFICES ASSUME NEW c \in Calls
               PROVE  /\ Exists(c) => Exists(c)' /\ (calls[c].operator => calls'[c].operator)
                      /\ Heard(c) =>
                           /\ Heard(c)'
                           /\ calls[c].needs_callback \/ calls[c].callback_at
                                 => calls'[c].needs_callback \/ calls'[c].callback_at
                           /\ calls[c].ended => calls'[c].ended
                      /\ calls'[c].callback_at => calls[c].callback_at \/ c \in S
    BY DEF Kept
  <2>1. CASE c = e.call
    BY <1>3, <1>6, <2>1 DEF Exists, Heard, NewRow
  <2>2. CASE c # e.call
    <3>1. calls'[c] = Resolved(calls, S)[c]
      BY <1>6, <2>2
    <3> QED
      BY <1>3, <3>1, ResolvedRows DEF Exists, Heard
  <2> QED
    BY <2>1, <2>2
<1>8. Shows(e)'
  <2>1. /\ NewRow(e).state = e.state /\ NewRow(e).needs_callback = Flags(e)
        /\ e.type = "call_ended" => NewRow(e).ended
    BY DEF NewRow
  <2>2. e.state \notin {"ABSENT", "NULL", "FAILED"}
    BY DEF Events
  <2> QED
    BY <1>6, <2>1, <2>2 DEF Shows, Heard, Flags
<1> QED
  BY <1>7, <1>8

LEMMA UpdateKeeps ==
    ASSUME Inv, TypeOK', NEW h \in Handlers, Update(h),
           NEW e \in Events, e = handler[h].event
    PROVE  Kept(handler[h].resolves) /\ Shows(e)'
<1> DEFINE S == handler[h].resolves
           seen == handler[h].seen
           rows == Resolved(calls, S)
           m == Merged(rows[e.call], e, seen)
<1>1. handler[h] \in Busy
  BY ServingIsBusy DEF Update, Serving, Inv
<1>2. e.call \in Calls /\ seen \in Row
  BY <1>1 DEF Busy, Events
<1>3. calls \in [Calls -> Row]
  BY DEF Inv, TypeOK
<1>4. Exists(e.call) /\ (seen.state \in TerminalStates => Heard(e.call))
  BY DEF Inv, UpdatesFindRow, Update
<1>5. rows \in [Calls -> Row]
  BY <1>1, <1>3, RowTypes DEF Busy
<1>6. calls'[e.call] = m /\ \A c \in Calls \ {e.call} : calls'[c] = rows[c]
  <2>1. calls' = [rows EXCEPT ![e.call] = Merged(rows[e.call], e, seen)]
    BY DEF Update
  <2> HIDE DEF rows
  <2> QED
    BY <1>2, <1>5, <2>1
<1>7. /\ m.state = IF KeepsState(e, seen) THEN rows[e.call].state ELSE e.state
      /\ m.ended = (rows[e.call].ended \/ NewRow(e).ended)
      /\ m.needs_callback = (rows[e.call].needs_callback \/ NewRow(e).needs_callback)
      /\ m.callback_at = rows[e.call].callback_at
      /\ m.operator = rows[e.call].operator
  <2>1. \A row \in Row :
          LET merged == Merged(row, e, seen) IN
          /\ merged.state = IF KeepsState(e, seen) THEN row.state ELSE e.state
          /\ merged.ended = (row.ended \/ NewRow(e).ended)
          /\ merged.needs_callback = (row.needs_callback \/ NewRow(e).needs_callback)
          /\ merged.callback_at = row.callback_at
          /\ merged.operator = row.operator
    BY DEF Merged, Row
  <2> QED
    BY <1>2, <1>5, <2>1
<1>8. e.state \notin {"ABSENT", "NULL", "FAILED"}
  BY <1>2 DEF Events
<1>9. /\ rows[e.call].state = calls[e.call].state
      /\ rows[e.call].operator = calls[e.call].operator
      /\ rows[e.call].ended = calls[e.call].ended
      /\ calls[e.call].needs_callback \/ calls[e.call].callback_at
            => rows[e.call].needs_callback \/ rows[e.call].callback_at
      /\ rows[e.call].callback_at => calls[e.call].callback_at \/ e.call \in S
  BY <1>2, <1>3, ResolvedRows
<1>10. Heard(e.call)'
  BY <1>4, <1>6, <1>7, <1>8, <1>9 DEF Heard, KeepsState
<1>11. Kept(S)
  <2> SUFFICES ASSUME NEW c \in Calls
               PROVE  /\ Exists(c) => Exists(c)' /\ (calls[c].operator => calls'[c].operator)
                      /\ Heard(c) =>
                           /\ Heard(c)'
                           /\ calls[c].needs_callback \/ calls[c].callback_at
                                 => calls'[c].needs_callback \/ calls'[c].callback_at
                           /\ calls[c].ended => calls'[c].ended
                      /\ calls'[c].callback_at => calls[c].callback_at \/ c \in S
    BY DEF Kept
  <2>1. CASE c = e.call
    BY <1>6, <1>7, <1>9, <1>10, <2>1 DEF Exists, Heard
  <2>2. CASE c # e.call
    <3>1. calls'[c] = Resolved(calls, S)[c]
      BY <1>6, <2>2
    <3> QED
      BY <1>3, <3>1, ResolvedRows DEF Exists, Heard
  <2> QED
    BY <2>1, <2>2
<1>12. Shows(e)'
  <2>1. /\ NewRow(e).needs_callback = Flags(e)
        /\ e.type = "call_ended" => NewRow(e).ended
    BY DEF NewRow
  <2> QED
    BY <1>6, <1>7, <1>10, <2>1 DEF Shows, Flags
<1> QED
  BY <1>11, <1>12

-----------------------------------------------------------------------------
(* Every step preserves the invariant.                                     *)

\* What UpdatesFindRow and ResolvesAreOwn say of one handler.
Sound(h) ==
    /\ handler[h].pc = "update" =>
         /\ Exists(handler[h].event.call)
         /\ handler[h].seen.state \in TerminalStates => Heard(handler[h].event.call)
    /\ Serving(h) =>
         \A c \in handler[h].resolves :
             /\ AutoResolves(handler[h].event)
             /\ Customer[handler[h].event.call] = Customer[c]

\* A step of handler h that leaves it sound.
LEMMA HandlerMoves ==
    ASSUME Inv, TypeOK', NEW h \in Handlers, NEW S,
           Kept(S), UNCHANGED <<line, request>>,
           \A g \in Handlers \ {h} : handler'[g] = handler[g],
           Sound(h)',
           \A e \in Events : Sent(e)' => Sent(e)
    PROVE  UpdatesFindRow' /\ RequestsFindRow' /\ ResolvesAreOwn' /\ OneEnd' /\ MadeCallOwned'
<1>1. ASSUME NEW g \in Handlers PROVE Sound(g)'
  <2>1. CASE g = h
    BY <2>1
  <2>2. CASE g # h
    <3>1. handler'[g] = handler[g]
      BY <2>2
    <3>2. Sound(g)
      BY DEF Inv, UpdatesFindRow, ResolvesAreOwn, Sound
    <3>3. handler[g].pc = "update" => handler[g].event.call \in Calls
      BY ServingIsBusy DEF Inv, Serving, Busy, Events
    <3> QED
      BY <3>1, <3>2, <3>3 DEF Sound, Serving, Kept, AutoResolves
  <2> QED
    BY <2>1, <2>2
<1>2. UpdatesFindRow' /\ ResolvesAreOwn'
  BY <1>1 DEF Sound, UpdatesFindRow, ResolvesAreOwn, AutoResolves
<1>3. RequestsFindRow' /\ MadeCallOwned'
  BY DEF Inv, RequestsFindRow, MadeCallOwned, Kept
<1>4. OneEnd'
  BY NothingSent
<1> QED
  BY <1>2, <1>3, <1>4

\* A step of a handler that neither writes nor records.
LEMMA HandlerReads ==
    ASSUME Inv, TypeOK', NEW h \in Handlers,
           UNCHANGED <<line, request, calls, scheduled>>,
           \A g \in Handlers \ {h} : handler'[g] = handler[g],
           Sound(h)',
           \A e \in Events : Sent(e)' => Sent(e)
    PROVE  Inv'
<1>1. Kept({})
  BY DEF Kept, Exists, Heard
<1> QED
  BY <1>1, SameRows, HandlerMoves DEF Inv

\* The row a handler reads is as sound as the rows are.
LEMMA ReadingIsSound ==
    ASSUME Inv, TypeOK', NEW h \in Handlers, NEW e \in Events, NEW S,
           UNCHANGED calls, handler'[h] = Reading(e, S),
           \A c \in S : AutoResolves(e) /\ Customer[e.call] = Customer[c]
    PROVE  Sound(h)'
<1>1. /\ handler'[h].pc = (IF Exists(e.call) THEN "update" ELSE "insert")
      /\ handler'[h].event = e /\ handler'[h].resolves = S
      /\ handler'[h].seen = calls[e.call]
  BY DEF Reading
<1> QED
  BY <1>1 DEF Sound, Exists, Heard, Serving, AutoResolves

\* Handlers that stop serving, and events they drop or record, add none.
LEMMA SentByHandler ==
    ASSUME Inv, NEW h \in Handlers, NEW e \in Events,
           network' \subseteq network,
           \A g \in Handlers \ {h} : handler'[g] = handler[g],
           scheduled' \subseteq scheduled \union {f \in Events : Sent(f)},
           handler'[h].pc = "free" \/ Sent(handler'[h].event),
           Sent(e)'
    PROVE  Sent(e)
  BY DEF Sent, Serving

LEMMA InvInit == Init => Inv
<1> SUFFICES ASSUME Init PROVE Inv
  OBVIOUS
<1>1. TypeOK
  BY TypeInit
<1>2. \A c \in Calls : calls[c] = NoRow
  BY DEF Init
<1>3. \A h \in Handlers : ~Serving(h) /\ handler[h].pc = "free"
  BY DEF Init, Serving, Free
<1> QED
  BY <1>1, <1>2, <1>3
     DEF Init, Inv, ScheduledAreHeard, UpdatesFindRow, RequestsFindRow, ResolvesAreOwn,
         OneEnd, Sent, MissedIsTracked, CallbackWasMade, MadeCallOwned, HangupKept, NoRow

LEMMA InvNext == Inv /\ [Next]_vars => Inv'
<1> SUFFICES ASSUME Inv, [Next]_vars PROVE Inv'
  OBVIOUS
<1>0. TypeOK /\ TypeOK'
  BY TypeNext DEF Inv
<1>1. ASSUME NEW c \in Calls, ProviderStart(c) PROVE Inv'
  <2>1. ScheduledAreHeard' /\ MissedIsTracked' /\ CallbackWasMade' /\ HangupKept'
    BY <1>0, <1>1, SameRows DEF ProviderStart
  <2>2. UpdatesFindRow' /\ RequestsFindRow' /\ ResolvesAreOwn' /\ MadeCallOwned'
    BY <1>1 DEF ProviderStart, Inv, UpdatesFindRow, RequestsFindRow, ResolvesAreOwn, MadeCallOwned,
                   Serving, Exists, Heard, AutoResolves
  <2>3. OneEnd'
    <3>1. \A f \in Events : Sent(f)' => Sent(f) \/ f = CallStart(c)
      BY <1>1 DEF ProviderStart, Send, Sent, Serving
    <3>2. CallStart(c).type # "call_ended"
      BY DEF CallStart
    <3>3. \A d \in Calls : line[d] = "over" => line'[d] = "over"
      BY <1>0, <1>1 DEF TypeOK, ProviderStart
    <3> QED
      BY <3>1, <3>2, <3>3 DEF Inv, OneEnd, Events
  <2> QED
    BY <1>0, <2>1, <2>2, <2>3 DEF Inv
<1>2. ASSUME NEW c \in Calls, ProviderAnswer(c) PROVE Inv'
  <2>1. ScheduledAreHeard' /\ MissedIsTracked' /\ CallbackWasMade' /\ HangupKept'
    BY <1>0, <1>2, SameRows DEF ProviderAnswer
  <2>2. UpdatesFindRow' /\ RequestsFindRow' /\ ResolvesAreOwn' /\ MadeCallOwned'
    BY <1>2 DEF ProviderAnswer, Inv, UpdatesFindRow, RequestsFindRow, ResolvesAreOwn, MadeCallOwned,
                   Serving, Exists, Heard, AutoResolves
  <2>3. OneEnd'
    <3>1. \A f \in Events : Sent(f)' => Sent(f) \/ f = CallAnswer(c)
      BY <1>2 DEF ProviderAnswer, Send, Sent, Serving
    <3>2. CallAnswer(c).type # "call_ended"
      BY DEF CallAnswer
    <3>3. \A d \in Calls : line[d] = "over" => line'[d] = "over"
      BY <1>0, <1>2 DEF TypeOK, ProviderAnswer
    <3> QED
      BY <3>1, <3>2, <3>3 DEF Inv, OneEnd, Events
  <2> QED
    BY <1>0, <2>1, <2>2, <2>3 DEF Inv
<1>3. ASSUME NEW c \in Calls, ProviderTransfer(c) PROVE Inv'
  <2>1. ScheduledAreHeard' /\ MissedIsTracked' /\ CallbackWasMade' /\ HangupKept'
    BY <1>0, <1>3, SameRows DEF ProviderTransfer
  <2>2. UpdatesFindRow' /\ RequestsFindRow' /\ ResolvesAreOwn' /\ MadeCallOwned'
    BY <1>3 DEF ProviderTransfer, Inv, UpdatesFindRow, RequestsFindRow, ResolvesAreOwn, MadeCallOwned,
                   Serving, Exists, Heard, AutoResolves
  <2>3. OneEnd'
    <3>1. PICK s \in {"ANSWER", "NOANSWER"}, valid \in BOOLEAN : Send(TransferHangup(c, s, valid))
      BY <1>3 DEF ProviderTransfer
    <3>2. \A f \in Events : Sent(f)' => Sent(f) \/ f = TransferHangup(c, s, valid)
      BY <1>3, <3>1 DEF ProviderTransfer, Send, Sent, Serving
    <3>3. TransferHangup(c, s, valid).type # "call_ended"
      BY DEF TransferHangup
    <3>4. \A d \in Calls : line[d] = "over" => line'[d] = "over"
      BY <1>0, <1>3 DEF TypeOK, ProviderTransfer
    <3> QED
      BY <3>2, <3>3, <3>4 DEF Inv, OneEnd, Events
  <2> QED
    BY <1>0, <2>1, <2>2, <2>3 DEF Inv
<1>4. ASSUME NEW c \in Calls, ProviderHangup(c) PROVE Inv'
  <2>1. ScheduledAreHeard' /\ MissedIsTracked' /\ CallbackWasMade' /\ HangupKept'
    BY <1>0, <1>4, SameRows DEF ProviderHangup
  <2>2. UpdatesFindRow' /\ RequestsFindRow' /\ ResolvesAreOwn' /\ MadeCallOwned'
    BY <1>4 DEF ProviderHangup, Inv, UpdatesFindRow, RequestsFindRow, ResolvesAreOwn, MadeCallOwned,
                   Serving, Exists, Heard, AutoResolves
  <2>3. OneEnd'
    <3>1. PICK s \in Hangups, valid \in BOOLEAN : Send(Hangup(c, s, valid))
      BY <1>4 DEF ProviderHangup
    <3>2. \A f \in Events : Sent(f)' => Sent(f) \/ f = Hangup(c, s, valid)
      BY <1>4, <3>1 DEF ProviderHangup, Send, Sent, Serving
    <3>3. Hangup(c, s, valid).call = c /\ Hangup(c, s, valid).state = s /\ s \in HangupStates
      BY CallsAssumption DEF Hangup
    <3>4. line'[c] = "over" /\ \A d \in Calls : line[d] = "over" => line'[d] = "over"
      BY <1>0, <1>4 DEF TypeOK, ProviderHangup
    <3>5. \A f \in Events : Sent(f) /\ f.type = "call_ended" => f.call # c
      BY <1>4 DEF Inv, OneEnd, ProviderHangup
    <3> QED
      BY <3>2, <3>3, <3>4, <3>5 DEF Inv, OneEnd, Events
  <2> QED
    BY <1>0, <2>1, <2>2, <2>3 DEF Inv
<1>5. ASSUME NEW c \in Calls, MakeCall(c) PROVE Inv'
  <2>1. ScheduledAreHeard' /\ MissedIsTracked' /\ CallbackWasMade' /\ HangupKept'
    BY <1>0, <1>5, SameRows DEF MakeCall
  <2>2. UpdatesFindRow' /\ RequestsFindRow' /\ ResolvesAreOwn' /\ MadeCallOwned'
    BY <1>5 DEF MakeCall, Inv, UpdatesFindRow, RequestsFindRow, ResolvesAreOwn, MadeCallOwned,
                   Serving, Exists, Heard, AutoResolves
  <2>3. OneEnd'
    <3>1. \A f \in Events : Sent(f)' => Sent(f) \/ f = CallStart(c)
      BY <1>5 DEF MakeCall, Send, Sent, Serving
    <3>2. CallStart(c).type # "call_ended"
      BY DEF CallStart
    <3>3. \A d \in Calls : line[d] = "over" => line'[d] = "over"
      BY <1>0, <1>5 DEF TypeOK, MakeCall
    <3> QED
      BY <3>1, <3>2, <3>3 DEF Inv, OneEnd, Events
  <2> QED
    BY <1>0, <2>1, <2>2, <2>3 DEF Inv
<1>6. ASSUME NEW c \in Calls, MakeDeadCall(c) PROVE Inv'
  <2>1. ScheduledAreHeard' /\ MissedIsTracked' /\ CallbackWasMade' /\ HangupKept'
    BY <1>0, <1>6, SameRows DEF MakeDeadCall
  <2>2. UpdatesFindRow' /\ RequestsFindRow' /\ ResolvesAreOwn' /\ MadeCallOwned'
    BY <1>6 DEF MakeDeadCall, Inv, UpdatesFindRow, RequestsFindRow, ResolvesAreOwn, MadeCallOwned,
                   Serving, Exists, Heard, AutoResolves
  <2>3. OneEnd'
    <3>1. \A f \in Events : Sent(f)' => Sent(f)
      BY <1>6 DEF MakeDeadCall, Sent, Serving
    <3>2. \A d \in Calls : line[d] = "over" => line'[d] = "over"
      BY <1>0, <1>6 DEF TypeOK, MakeDeadCall
    <3> QED
      BY <3>1, <3>2 DEF Inv, OneEnd, Events
  <2> QED
    BY <1>0, <2>1, <2>2, <2>3 DEF Inv
<1>7. ASSUME NEW c \in Calls, UpsertLookup(c) PROVE Inv'
  <2>1. Kept({}) /\ scheduled' = scheduled \union {}
    BY <1>0, <1>7 DEF TypeOK, Row, UpsertLookup, Kept, Exists, Heard
  <2>2. ScheduledAreHeard' /\ MissedIsTracked' /\ CallbackWasMade' /\ HangupKept'
    BY <1>0, <2>1, KeptRows
  <2>3. UpdatesFindRow' /\ ResolvesAreOwn'
    <3>1. \A h \in Handlers : Serving(h) => handler[h].event.call \in Calls
      BY ServingIsBusy DEF Inv, Busy, Events
    <3> QED
      BY <1>7, <2>1, <3>1 DEF UpsertLookup, Inv, UpdatesFindRow, ResolvesAreOwn, Kept, Serving, AutoResolves
  <2>4. RequestsFindRow' /\ MadeCallOwned'
    BY <1>0, <1>7, <2>1 DEF TypeOK, Row, UpsertLookup, Inv, RequestsFindRow, MadeCallOwned, Kept, Exists
  <2>5. OneEnd'
    BY <1>7, NothingSent DEF UpsertLookup, Sent, Serving
  <2> QED
    BY <1>0, <2>2, <2>3, <2>4, <2>5 DEF Inv
<1>8. ASSUME NEW c \in Calls, UpsertUpdate(c) PROVE Inv'
  <2>1. Kept({}) /\ scheduled' = scheduled \union {}
    BY <1>0, <1>8 DEF TypeOK, Row, UpsertUpdate, Kept, Exists, Heard
  <2>2. ScheduledAreHeard' /\ MissedIsTracked' /\ CallbackWasMade' /\ HangupKept'
    BY <1>0, <2>1, KeptRows
  <2>3. UpdatesFindRow' /\ ResolvesAreOwn'
    <3>1. \A h \in Handlers : Serving(h) => handler[h].event.call \in Calls
      BY ServingIsBusy DEF Inv, Busy, Events
    <3> QED
      BY <1>8, <2>1, <3>1 DEF UpsertUpdate, Inv, UpdatesFindRow, ResolvesAreOwn, Kept, Serving, AutoResolves
  <2>4. RequestsFindRow' /\ MadeCallOwned'
    BY <1>0, <1>8, <2>1 DEF TypeOK, Row, UpsertUpdate, Inv, RequestsFindRow, MadeCallOwned, Kept, Exists
  <2>5. OneEnd'
    BY <1>8, NothingSent DEF UpsertUpdate, Sent, Serving
  <2> QED
    BY <1>0, <2>2, <2>3, <2>4, <2>5 DEF Inv
<1>9. ASSUME NEW c \in Calls, UpsertCreate(c) PROVE Inv'
  <2>1. Kept({}) /\ scheduled' = scheduled \union {}
    BY <1>0, <1>9 DEF TypeOK, Row, UpsertCreate, Kept, Exists, Heard, NoRow
  <2>2. ScheduledAreHeard' /\ MissedIsTracked' /\ CallbackWasMade' /\ HangupKept'
    BY <1>0, <2>1, KeptRows
  <2>3. UpdatesFindRow' /\ ResolvesAreOwn'
    <3>1. \A h \in Handlers : Serving(h) => handler[h].event.call \in Calls
      BY ServingIsBusy DEF Inv, Busy, Events
    <3> QED
      BY <1>9, <2>1, <3>1 DEF UpsertCreate, Inv, UpdatesFindRow, ResolvesAreOwn, Kept, Serving, AutoResolves
  <2>4. RequestsFindRow' /\ MadeCallOwned'
    BY <1>0, <1>9, <2>1 DEF TypeOK, Row, UpsertCreate, Inv, RequestsFindRow, MadeCallOwned, Kept, Exists, NoRow
  <2>5. OneEnd'
    BY <1>9, NothingSent DEF UpsertCreate, Sent, Serving
  <2> QED
    BY <1>0, <2>2, <2>3, <2>4, <2>5 DEF Inv
<1>10. ASSUME NEW c \in Calls, UpsertConflict(c) PROVE Inv'
  <2>1. Kept({}) /\ scheduled' = scheduled \union {}
    BY <1>0, <1>10 DEF TypeOK, Row, UpsertConflict, Kept, Exists, Heard
  <2>2. ScheduledAreHeard' /\ MissedIsTracked' /\ CallbackWasMade' /\ HangupKept'
    BY <1>0, <2>1, KeptRows
  <2>3. UpdatesFindRow' /\ ResolvesAreOwn'
    <3>1. \A h \in Handlers : Serving(h) => handler[h].event.call \in Calls
      BY ServingIsBusy DEF Inv, Busy, Events
    <3> QED
      BY <1>10, <2>1, <3>1 DEF UpsertConflict, Inv, UpdatesFindRow, ResolvesAreOwn, Kept, Serving, AutoResolves
  <2>4. RequestsFindRow' /\ MadeCallOwned'
    BY <1>0, <1>10, <2>1 DEF TypeOK, Row, UpsertConflict, Inv, RequestsFindRow, MadeCallOwned, Kept, Exists
  <2>5. OneEnd'
    BY <1>10, NothingSent DEF UpsertConflict, Sent, Serving
  <2> QED
    BY <1>0, <2>2, <2>3, <2>4, <2>5 DEF Inv
<1>11. ASSUME NEW c \in Calls, Age(c) PROVE Inv'
  <2>1. Kept({}) /\ scheduled' = scheduled \union {}
    BY <1>0, <1>11 DEF TypeOK, Row, Age, Kept, Exists, Heard
  <2>2. ScheduledAreHeard' /\ MissedIsTracked' /\ CallbackWasMade' /\ HangupKept'
    BY <1>0, <2>1, KeptRows
  <2>3. UpdatesFindRow' /\ ResolvesAreOwn'
    <3>1. \A h \in Handlers : Serving(h) => handler[h].event.call \in Calls
      BY ServingIsBusy DEF Inv, Busy, Events
    <3> QED
      BY <1>11, <2>1, <3>1 DEF Age, Inv, UpdatesFindRow, ResolvesAreOwn, Kept, Serving, AutoResolves
  <2>4. RequestsFindRow' /\ MadeCallOwned'
    BY <1>0, <1>11, <2>1 DEF TypeOK, Row, Age, Inv, RequestsFindRow, MadeCallOwned, Kept, Exists
  <2>5. OneEnd'
    BY <1>11, NothingSent DEF Age, Sent, Serving
  <2> QED
    BY <1>0, <2>2, <2>3, <2>4, <2>5 DEF Inv
<1>12. ASSUME NEW h \in Handlers, Receive(h) PROVE Inv'
  <2>1. PICK f \in network : Take(f) /\ handler' = [handler EXCEPT ![h] = Reading(f, {})]
    BY <1>12 DEF Receive
  <2>2. handler'[h] = Reading(f, {}) /\ \A g \in Handlers \ {h} : handler'[g] = handler[g]
    BY <1>0, <2>1 DEF TypeOK
  <2>3. f \in Events /\ network' \subseteq network /\ Sent(f)
    BY <1>0, <2>1 DEF TypeOK, Take, Sent
  <2>4. Sound(h)'
    BY <1>0, <1>12, <2>2, <2>3, ReadingIsSound DEF Receive
  <2>5. \A e \in Events : Sent(e)' => Sent(e)
    BY <1>12, <2>2, <2>3, SentByHandler DEF Receive, Reading
  <2> QED
    BY <1>0, <1>12, <2>2, <2>4, <2>5, HandlerReads DEF Receive
<1>13. ASSUME NEW h \in Handlers, ReceiveAnswered(h) PROVE Inv'
  <2> DEFINE b(f) == [pc |-> "lookup", event |-> f, resolves |-> PendingCallbacks(f), seen |-> NoRow]
  <2>1. PICK f \in network : AutoResolves(f) /\ Take(f) /\ handler' = [handler EXCEPT ![h] = b(f)]
    BY <1>13 DEF ReceiveAnswered
  <2>2. handler'[h] = b(f) /\ \A g \in Handlers \ {h} : handler'[g] = handler[g]
    BY <1>0, <2>1 DEF TypeOK
  <2>3. f \in Events /\ network' \subseteq network /\ Sent(f)
    BY <1>0, <2>1 DEF TypeOK, Take, Sent
  <2>4. Sound(h)'
    BY <2>1, <2>2 DEF Sound, PendingCallbacks, AutoResolves, Serving
  <2>5. \A e \in Events : Sent(e)' => Sent(e)
    BY <1>13, <2>2, <2>3, SentByHandler DEF ReceiveAnswered
  <2> QED
    BY <1>0, <1>13, <2>2, <2>4, <2>5, HandlerReads DEF ReceiveAnswered
<1>14. ASSUME NEW h \in Handlers, Lookup(h) PROVE Inv'
  <2>1. handler[h] \in Busy /\ Serving(h)
    BY <1>0, <1>14, ServingIsBusy DEF Lookup, Serving
  <2>2. handler[h].event \in Events /\ Sent(handler[h].event)
    BY <2>1 DEF Busy, Sent
  <2>3. handler'[h] = Reading(handler[h].event, handler[h].resolves) /\ \A g \in Handlers \ {h} : handler'[g] = handler[g]
    BY <1>0, <1>14 DEF TypeOK, Lookup
  <2>4. \A c \in handler[h].resolves : AutoResolves(handler[h].event) /\ Customer[handler[h].event.call] = Customer[c]
    BY <2>1 DEF Inv, ResolvesAreOwn
  <2>5. Sound(h)'
    BY <1>0, <1>14, <2>2, <2>3, <2>4, ReadingIsSound DEF Lookup
  <2>6. \A e \in Events : Sent(e)' => Sent(e)
    BY <1>14, <2>2, <2>3, SentByHandler DEF Lookup, Reading
  <2> QED
    BY <1>0, <1>14, <2>3, <2>5, <2>6, HandlerReads DEF Lookup
<1>15. ASSUME NEW h \in Handlers, Refetch(h) PROVE Inv'
  <2>1. handler[h] \in Busy /\ Serving(h)
    BY <1>0, <1>15, ServingIsBusy DEF Refetch, Serving
  <2>2. handler[h].event \in Events /\ Sent(handler[h].event)
    BY <2>1 DEF Busy, Sent
  <2>3. handler'[h] = Reading(handler[h].event, {}) /\ \A g \in Handlers \ {h} : handler'[g] = handler[g]
    BY <1>0, <1>15 DEF TypeOK, Refetch
  <2>4. \A c \in {} : AutoResolves(handler[h].event) /\ Customer[handler[h].event.call] = Customer[c]
    BY <2>1 DEF Inv, ResolvesAreOwn
  <2>5. Sound(h)'
    BY <1>0, <1>15, <2>2, <2>3, <2>4, ReadingIsSound DEF Refetch
  <2>6. \A e \in Events : Sent(e)' => Sent(e)
    BY <1>15, <2>2, <2>3, SentByHandler DEF Refetch, Reading
  <2> QED
    BY <1>0, <1>15, <2>3, <2>5, <2>6, HandlerReads DEF Refetch
<1>16. ASSUME NEW h \in Handlers, InsertConflict(h) PROVE Inv'
  <2>1. handler[h] \in Busy /\ Serving(h)
    BY <1>0, <1>16, ServingIsBusy DEF InsertConflict, Serving
  <2>2. Sent(handler[h].event)
    BY <2>1 DEF Sent
  <2>3. /\ handler'[h] = [handler[h] EXCEPT !.pc = "refetch", !.resolves = {}]
        /\ \A g \in Handlers \ {h} : handler'[g] = handler[g]
    BY <1>0, <1>16 DEF TypeOK, InsertConflict
  <2>4. handler'[h].pc = "refetch" /\ handler'[h].resolves = {} /\ handler'[h].event = handler[h].event
    BY <2>1, <2>3 DEF Busy
  <2>5. Sound(h)'
    BY <2>4 DEF Sound
  <2>6. \A e \in Events : Sent(e)' => Sent(e)
    BY <1>16, <2>2, <2>3, <2>4, SentByHandler DEF InsertConflict
  <2> QED
    BY <1>0, <1>16, <2>3, <2>5, <2>6, HandlerReads DEF InsertConflict
<1>17. ASSUME NEW h \in Handlers, SkipDuplicate(h) PROVE Inv'
  <2>1. handler'[h] = Free /\ \A g \in Handlers \ {h} : handler'[g] = handler[g]
    BY <1>0, <1>17 DEF TypeOK, SkipDuplicate
  <2>2. Sound(h)'
    BY <2>1 DEF Sound, Serving, Free
  <2>3. \A e \in Events : Sent(e)' => Sent(e)
    BY <1>17, <2>1, SentByHandler DEF SkipDuplicate, Free
  <2> QED
    BY <1>0, <1>17, <2>1, <2>2, <2>3, HandlerReads DEF SkipDuplicate
<1>18. ASSUME NEW h \in Handlers, HandlerError(h) PROVE Inv'
  <2>1. handler'[h] = Free /\ \A g \in Handlers \ {h} : handler'[g] = handler[g]
    BY <1>0, <1>18 DEF TypeOK, HandlerError
  <2>2. Sound(h)'
    BY <2>1 DEF Sound, Serving, Free
  <2>3. \A e \in Events : Sent(e)' => Sent(e)
    BY <1>18, <2>1, SentByHandler DEF HandlerError, Free
  <2> QED
    BY <1>0, <1>18, <2>1, <2>2, <2>3, HandlerReads DEF HandlerError
<1>19. ASSUME NEW h \in Handlers, Insert(h) PROVE Inv'
  <2>1. handler[h] \in Busy /\ Serving(h)
    BY <1>0, <1>19, ServingIsBusy DEF Insert, Serving
  <2>2. PICK f \in Events : f = handler[h].event
    BY <2>1 DEF Busy
  <2>3. Kept(handler[h].resolves) /\ Shows(f)'
    BY <1>0, <1>19, <2>2, InsertKeeps
  <2>4. \A c \in handler[h].resolves : AutoResolves(f) /\ Customer[f.call] = Customer[c]
    BY <2>1, <2>2 DEF Inv, ResolvesAreOwn
  <2>5. ScheduledAreHeard' /\ MissedIsTracked' /\ CallbackWasMade' /\ HangupKept'
    <3> DEFINE T == {f}
    <3>1. T \in SUBSET Events /\ scheduled' = scheduled \union T
      BY <1>19, <2>2 DEF Insert
    <3>2. \A e \in T : Shows(e)'
      BY <2>3
    <3>3. \A c \in handler[h].resolves : \E e \in T : AutoResolves(e) /\ Customer[e.call] = Customer[c]
      BY <2>4
    <3> HIDE DEF T
    <3> QED
      BY <1>0, <2>3, <3>1, <3>2, <3>3, KeptRows
  <2>6. handler'[h] = Free /\ \A g \in Handlers \ {h} : handler'[g] = handler[g]
    BY <1>0, <1>19 DEF TypeOK, Insert
  <2>7. Sound(h)'
    BY <2>6 DEF Sound, Serving, Free
  <2>8. \A e \in Events : Sent(e)' => Sent(e)
    <3>1. scheduled' = scheduled \union {f} /\ Sent(f)
      BY <1>19, <2>1, <2>2 DEF Insert, Sent
    <3> QED
      BY <1>19, <2>6, <3>1, SentByHandler DEF Insert, Free
  <2> QED
    BY <1>0, <1>19, <2>3, <2>5, <2>6, <2>7, <2>8, HandlerMoves DEF Insert, Inv
<1>20. ASSUME NEW h \in Handlers, Update(h) PROVE Inv'
  <2>1. handler[h] \in Busy /\ Serving(h)
    BY <1>0, <1>20, ServingIsBusy DEF Update, Serving
  <2>2. PICK f \in Events : f = handler[h].event
    BY <2>1 DEF Busy
  <2>3. Kept(handler[h].resolves) /\ Shows(f)'
    BY <1>0, <1>20, <2>2, UpdateKeeps
  <2>4. \A c \in handler[h].resolves : AutoResolves(f) /\ Customer[f.call] = Customer[c]
    BY <2>1, <2>2 DEF Inv, ResolvesAreOwn
  <2>5. ScheduledAreHeard' /\ MissedIsTracked' /\ CallbackWasMade' /\ HangupKept'
    <3> DEFINE T == {f}
    <3>1. T \in SUBSET Events /\ scheduled' = scheduled \union T
      BY <1>20, <2>2 DEF Update
    <3>2. \A e \in T : Shows(e)'
      BY <2>3
    <3>3. \A c \in handler[h].resolves : \E e \in T : AutoResolves(e) /\ Customer[e.call] = Customer[c]
      BY <2>4
    <3> HIDE DEF T
    <3> QED
      BY <1>0, <2>3, <3>1, <3>2, <3>3, KeptRows
  <2>6. handler'[h] = Free /\ \A g \in Handlers \ {h} : handler'[g] = handler[g]
    BY <1>0, <1>20 DEF TypeOK, Update
  <2>7. Sound(h)'
    BY <2>6 DEF Sound, Serving, Free
  <2>8. \A e \in Events : Sent(e)' => Sent(e)
    <3>1. scheduled' = scheduled \union {f} /\ Sent(f)
      BY <1>20, <2>1, <2>2 DEF Update, Sent
    <3> QED
      BY <1>20, <2>6, <3>1, SentByHandler DEF Update, Free
  <2> QED
    BY <1>0, <1>20, <2>3, <2>5, <2>6, <2>7, <2>8, HandlerMoves DEF Update, Inv
<1>21. CASE CleanupOrphanCalls
  <2>1. Kept({}) /\ scheduled' = scheduled \union {}
    BY <1>0, <1>21 DEF TypeOK, Row, CleanupOrphanCalls, Orphans, Kept, Exists, Heard
  <2>2. ScheduledAreHeard' /\ MissedIsTracked' /\ CallbackWasMade' /\ HangupKept'
    BY <1>0, <2>1, KeptRows
  <2>3. UpdatesFindRow' /\ ResolvesAreOwn'
    <3>1. \A h \in Handlers : Serving(h) => handler[h].event.call \in Calls
      BY ServingIsBusy DEF Inv, Busy, Events
    <3> QED
      BY <1>21, <2>1, <3>1 DEF CleanupOrphanCalls, Inv, UpdatesFindRow, ResolvesAreOwn, Kept, Serving, AutoResolves
  <2>4. RequestsFindRow' /\ MadeCallOwned'
    BY <1>21, <2>1 DEF CleanupOrphanCalls, Inv, RequestsFindRow, MadeCallOwned, Kept
  <2>5. OneEnd'
    BY <1>21, NothingSent DEF CleanupOrphanCalls, Sent, Serving
  <2> QED
    BY <1>0, <2>2, <2>3, <2>4, <2>5 DEF Inv
<1>22. CASE Crash
  <2>1. ScheduledAreHeard' /\ MissedIsTracked' /\ CallbackWasMade' /\ HangupKept'
    BY <1>0, <1>22, SameRows DEF Crash
  <2>2. \A h \in Handlers : handler'[h].pc = "free"
    BY <1>22 DEF Crash, Free
  <2>3. UpdatesFindRow' /\ ResolvesAreOwn'
    BY <2>2 DEF UpdatesFindRow, ResolvesAreOwn, Serving
  <2>4. RequestsFindRow' /\ MadeCallOwned'
    BY <1>22 DEF Crash, Inv, RequestsFindRow, MadeCallOwned, InProgress, Exists
  <2>5. OneEnd'
    BY <1>22, <2>2, NothingSent DEF Crash, Sent, Serving
  <2> QED
    BY <1>0, <2>1, <2>3, <2>4, <2>5 DEF Inv
<1>23. CASE UNCHANGED vars
  BY <1>0, <1>23
     DEF vars, Inv, ScheduledAreHeard, UpdatesFindRow, RequestsFindRow, ResolvesAreOwn,
         OneEnd, Sent, MissedIsTracked, CallbackWasMade, MadeCallOwned, HangupKept,
         Serving, Exists, Heard, AutoResolves
<1> QED
  BY <1>1, <1>2, <1>3, <1>4, <1>5, <1>6, <1>7, <1>8, <1>9, <1>10, <1>11, <1>12,
     <1>13, <1>14, <1>15, <1>16, <1>17, <1>18, <1>19, <1>20, <1>21, <1>22, <1>23
     DEF Next, Provider, Work, Upsert

\* The inductive invariant holds in every reachable state.
THEOREM Invariance == Spec => []Inv
<1>1. Init => Inv
  BY InvInit
<1>2. Inv /\ [Next]_vars => Inv'
  BY InvNext
<1> QED
  BY <1>1, <1>2, PTL DEF Spec

\* A missed inbound call that was announced stays on the callback list or was
\* called back, whatever webhooks and requests interleave (webhooks.py:289).
THEOREM MissedTracked == Spec => []MissedIsTracked
<1>1. Inv => MissedIsTracked
  BY DEF Inv
<1> QED
  BY <1>1, Invariance, PTL

\* A call is marked as called back only together with the record of an
\* answered call to its customer (webhooks.py:293-307).
THEOREM CallbacksWereMade == Spec => []CallbackWasMade
<1>1. Inv => CallbackWasMade
  BY DEF Inv
<1> QED
  BY <1>1, Invariance, PTL

\* The cleanup never gives up a call of which a webhook was recorded
\* (orphan_call_cleanup.py:4).
THEOREM OrphansAreSilent == Spec => []OrphanMeansSilent
<1>1. Inv => OrphanMeansSilent
  BY DEF Inv, TypeOK, ScheduledAreHeard, OrphanMeansSilent, Heard
<1> QED
  BY <1>1, Invariance, PTL

\* The row of a call whose end was recorded keeps the end (webhooks.py:412).
THEOREM HangupsAreKept == Spec => []HangupKept
<1>1. Inv => HangupKept
  BY DEF Inv
<1> QED
  BY <1>1, Invariance, PTL

\* A call placed with success has an attributed row (sipuni.py:64-70).
THEOREM MadeCallsAreOwned == Spec => []MadeCallOwned
<1>1. Inv => MadeCallOwned
  BY DEF Inv
<1> QED
  BY <1>1, Invariance, PTL

\* No subscriber is told of two outcomes of one call (webhooks.py:438-472).
THEOREM OutcomeIsUnique == Spec => []OneOutcome
<1>1. ASSUME Inv PROVE OneOutcome
  <2> SUFFICES ASSUME NEW e \in scheduled, NEW f \in scheduled, e.call = f.call,
                      HookEvent(e) = "call.completed", HookEvent(f) = "call.missed"
               PROVE  FALSE
    BY DEF OneOutcome
  <2>1. e \in Events /\ f \in Events /\ Sent(e) /\ Sent(f)
    BY <1>1 DEF Inv, TypeOK, Sent
  <2>2. e.type = "call_ended" /\ e.state = "ANSWER"
    BY DEF HookEvent
  <2>3. f.type = "call_ended" /\ f.state = "NOANSWER"
    BY DEF HookEvent
  <2> QED
    BY <1>1, <2>1, <2>2, <2>3 DEF Inv, OneEnd
<1> QED
  BY <1>1, Invariance, PTL

-----------------------------------------------------------------------------
(* For the calls that only webhooks report, CallEvents implements          *)
(* CallRecord.                                                             *)

\* No row of such a call was made without a state, and only event 1 rings.
NoSilentRow ==
    /\ \A c \in Reported : request[c] = "none" /\ calls[c].state \notin {"NULL", "FAILED"}
    /\ \A h \in Handlers : handler[h].pc = "update" /\ handler[h].event.call \in Reported =>
           handler[h].seen.state \notin {"ABSENT", "NULL", "FAILED"}
    /\ \A e \in Events : Sent(e) /\ e.state = "RINGING" => e.type = "call_started"

LEMMA SilentInit == Init => NoSilentRow
  BY DEF Init, NoSilentRow, Free, NoRow, Sent, Serving, Reported

\* What a step does to the handlers and the webhooks, as far as NoSilentRow
\* depends on it.
LEMMA SilentHandlers ==
    ASSUME Inv, TypeOK', NoSilentRow, NEW h \in Handlers,
           UNCHANGED <<request, calls, scheduled>>,
           \A g \in Handlers \ {h} : handler'[g] = handler[g],
           handler'[h].pc = "update" /\ handler'[h].event.call \in Reported
               => handler'[h].seen.state \notin {"ABSENT", "NULL", "FAILED"},
           \A e \in Events : Sent(e)' => Sent(e)
    PROVE  NoSilentRow'
  BY DEF NoSilentRow

LEMMA SilentReading ==
    ASSUME TypeOK, NoSilentRow, NEW e \in Events, NEW S,
           Reading(e, S).pc = "update", Reading(e, S).event.call \in Reported
    PROVE  Reading(e, S).seen.state \notin {"ABSENT", "NULL", "FAILED"}
<1>1. e.call \in Reported
  BY DEF Reading
<1> QED
  BY <1>1 DEF NoSilentRow, Reading, Exists

\* The state an Update writes is the one it finds, or a terminal one.
LEMMA UpdateStates ==
    ASSUME Inv, TypeOK', NoSilentRow, NEW h \in Handlers, Update(h),
           NEW e \in Events, e = handler[h].event
    PROVE  /\ Exists(e.call)
           /\ \A c \in Calls \ {e.call} : calls'[c].state = calls[c].state
           /\ e.call \in Reported =>
                calls'[e.call].state \in {calls[e.call].state} \union TerminalStates
<1> DEFINE rows == Resolved(calls, handler[h].resolves)
           seen == handler[h].seen
<1>1. handler[h] \in Busy /\ Serving(h)
  BY ServingIsBusy DEF Update, Serving, Inv
<1>2. /\ handler[h].resolves \subseteq Calls /\ calls \in [Calls -> Row] /\ e.call \in Calls
      /\ e.state \in {"RINGING"} \union TerminalStates /\ seen \in Row
  BY <1>1 DEF Inv, TypeOK, Busy, Events
<1>3. Exists(e.call)
  BY DEF Inv, UpdatesFindRow, Update
<1>4. rows \in [Calls -> Row] /\ \A c \in Calls : rows[c].state = calls[c].state
  <2>1. rows \in [Calls -> Row]
    BY <1>2, RowTypes
  <2>2. \A c \in Calls : rows[c].state = calls[c].state
    BY <1>2, ResolvedRows
  <2> QED
    BY <2>1, <2>2
<1>5. calls' = [rows EXCEPT ![e.call] = Merged(rows[e.call], e, seen)]
  BY DEF Update
<1>6. e.state = "RINGING" /\ e.call \in Reported => KeepsState(e, seen)
  <2> SUFFICES ASSUME e.state = "RINGING", e.call \in Reported PROVE seen.state \in TerminalStates
    BY DEF KeepsState
  <2>1. Sent(e)
    BY <1>1 DEF Sent
  <2>2. e.type = "call_started" /\ seen.state \notin {"ABSENT", "NULL", "FAILED"}
    BY <2>1 DEF NoSilentRow, Update
  <2>3. seen.state # "RINGING"
    BY <2>2 DEF Update, Duplicate
  <2> QED
    BY <1>2, <2>2, <2>3 DEF Row
<1>7. \A row \in Row :
        Merged(row, e, seen).state = IF KeepsState(e, seen) THEN row.state ELSE e.state
  BY DEF Merged, Row
<1> HIDE DEF rows
<1>8. e.call \in Reported =>
        calls'[e.call].state \in {calls[e.call].state} \union TerminalStates
  BY <1>2, <1>4, <1>5, <1>6, <1>7
<1>9. \A c \in Calls \ {e.call} : calls'[c].state = calls[c].state
  BY <1>4, <1>5
<1> QED
  BY <1>3, <1>8, <1>9

\* An Insert makes the row of its call, in the state of its webhook.
LEMMA InsertStates ==
    ASSUME Inv, TypeOK', NEW h \in Handlers, Insert(h),
           NEW e \in Events, e = handler[h].event
    PROVE  /\ calls[e.call].state = "ABSENT"
           /\ \A c \in Calls \ {e.call} : calls'[c].state = calls[c].state
           /\ calls'[e.call].state \in {"RINGING"} \union TerminalStates
<1> DEFINE rows == Resolved(calls, handler[h].resolves)
<1>1. handler[h] \in Busy
  BY ServingIsBusy DEF Insert, Serving, Inv
<1>2. /\ handler[h].resolves \subseteq Calls /\ calls \in [Calls -> Row] /\ e.call \in Calls
      /\ e.state \in {"RINGING"} \union TerminalStates
  BY <1>1 DEF Inv, TypeOK, Busy, Events
<1>3. rows \in [Calls -> Row] /\ \A c \in Calls : rows[c].state = calls[c].state
  <2>1. rows \in [Calls -> Row]
    BY <1>2, RowTypes
  <2>2. \A c \in Calls : rows[c].state = calls[c].state
    BY <1>2, ResolvedRows
  <2> QED
    BY <2>1, <2>2
<1>4. calls' = [rows EXCEPT ![e.call] = NewRow(e)] /\ NewRow(e).state = e.state
  BY DEF Insert, NewRow
<1>5. calls[e.call].state = "ABSENT"
  BY DEF Insert, Exists
<1> HIDE DEF rows
<1> QED
  BY <1>2, <1>3, <1>4, <1>5

LEMMA SilentNext == Inv /\ NoSilentRow /\ [Next]_vars => NoSilentRow'
<1> SUFFICES ASSUME Inv, NoSilentRow, [Next]_vars PROVE NoSilentRow'
  OBVIOUS
<1>0. TypeOK /\ TypeOK'
  BY TypeNext DEF Inv
<1>1. ASSUME NEW c \in Calls, ProviderStart(c) PROVE NoSilentRow'
  <2>1. \A f \in Events : Sent(f)' => Sent(f) \/ f = CallStart(c)
    BY <1>1 DEF ProviderStart, Send, Sent, Serving
  <2>2. CallStart(c).state = "RINGING" => CallStart(c).type = "call_started"
    BY DEF CallStart
  <2> QED
    BY <1>1, <2>1, <2>2 DEF NoSilentRow, ProviderStart
<1>2. ASSUME NEW c \in Calls, ProviderAnswer(c) PROVE NoSilentRow'
  <2>1. \A f \in Events : Sent(f)' => Sent(f) \/ f = CallAnswer(c)
    BY <1>2 DEF ProviderAnswer, Send, Sent, Serving
  <2>2. CallAnswer(c).state = "RINGING" => CallAnswer(c).type = "call_started"
    BY DEF CallAnswer
  <2> QED
    BY <1>2, <2>1, <2>2 DEF NoSilentRow, ProviderAnswer
<1>3. ASSUME NEW c \in Calls, ProviderTransfer(c) PROVE NoSilentRow'
  <2>1. PICK s \in {"ANSWER", "NOANSWER"}, valid \in BOOLEAN : Send(TransferHangup(c, s, valid))
    BY <1>3 DEF ProviderTransfer
  <2>2. \A f \in Events : Sent(f)' => Sent(f) \/ f = TransferHangup(c, s, valid)
    BY <1>3, <2>1 DEF ProviderTransfer, Send, Sent, Serving
  <2>3. TransferHangup(c, s, valid).state # "RINGING"
    BY CallsAssumption DEF TransferHangup
  <2> QED
    BY <1>3, <2>2, <2>3 DEF NoSilentRow, ProviderTransfer
<1>4. ASSUME NEW c \in Calls, ProviderHangup(c) PROVE NoSilentRow'
  <2>1. PICK s \in Hangups, valid \in BOOLEAN : Send(Hangup(c, s, valid))
    BY <1>4 DEF ProviderHangup
  <2>2. \A f \in Events : Sent(f)' => Sent(f) \/ f = Hangup(c, s, valid)
    BY <1>4, <2>1 DEF ProviderHangup, Send, Sent, Serving
  <2>3. Hangup(c, s, valid).state # "RINGING"
    BY CallsAssumption DEF Hangup
  <2> QED
    BY <1>4, <2>2, <2>3 DEF NoSilentRow, ProviderHangup
<1>5. ASSUME NEW c \in Calls, MakeCall(c) \/ MakeDeadCall(c) \/ Upsert(c) \/ Age(c) PROVE NoSilentRow'
  <2>1. \A d \in Reported : d \in Calls /\ d \notin ApiCalls
    BY DEF Reported
  <2>2. CASE Age(c)
    BY <2>2 DEF NoSilentRow, Age, Sent, Serving
  <2>3. CASE MakeCall(c)
    <3>1. \A f \in Events : Sent(f)' => Sent(f) \/ f = CallStart(c)
      BY <2>3 DEF MakeCall, Send, Sent, Serving
    <3>2. CallStart(c).state = "RINGING" => CallStart(c).type = "call_started"
      BY DEF CallStart
    <3> QED
      BY <1>0, <2>1, <2>3, <3>1, <3>2 DEF NoSilentRow, MakeCall, TypeOK
  <2>4. CASE MakeDeadCall(c)
    BY <1>0, <2>1, <2>4 DEF NoSilentRow, MakeDeadCall, Sent, Serving, TypeOK
  <2>5. CASE Upsert(c)
    <3>1. c \notin Reported
      BY <2>1, <2>5 DEF NoSilentRow, Upsert, UpsertLookup, UpsertUpdate, UpsertCreate,
                        UpsertConflict
    <3>2. \A d \in Reported : request'[d] = request[d] /\ calls'[d] = calls[d]
      BY <1>0, <2>1, <2>5, <3>1 DEF Upsert, UpsertLookup, UpsertUpdate, UpsertCreate,
                        UpsertConflict, TypeOK
    <3>3. handler' = handler /\ \A f \in Events : Sent(f)' => Sent(f)
      BY <2>5 DEF Upsert, UpsertLookup, UpsertUpdate, UpsertCreate, UpsertConflict, Sent, Serving
    <3> QED
      BY <3>2, <3>3 DEF NoSilentRow
  <2> QED
    BY <1>5, <2>2, <2>3, <2>4, <2>5
<1>6. ASSUME NEW h \in Handlers, Receive(h) PROVE NoSilentRow'
  <2>1. PICK f \in network : Take(f) /\ handler' = [handler EXCEPT ![h] = Reading(f, {})]
    BY <1>6 DEF Receive
  <2>2. handler'[h] = Reading(f, {}) /\ \A g \in Handlers \ {h} : handler'[g] = handler[g]
    BY <1>0, <2>1 DEF TypeOK
  <2>3. f \in Events /\ network' \subseteq network /\ Sent(f)
    BY <1>0, <2>1 DEF TypeOK, Take, Sent
  <2>4. \A e \in Events : Sent(e)' => Sent(e)
    BY <1>6, <2>2, <2>3, SentByHandler DEF Receive, Reading
  <2> QED
    BY <1>0, <1>6, <2>2, <2>3, <2>4, SilentReading, SilentHandlers DEF Receive
<1>7. ASSUME NEW h \in Handlers, ReceiveAnswered(h) PROVE NoSilentRow'
  <2> DEFINE b(f) == [pc |-> "lookup", event |-> f, resolves |-> PendingCallbacks(f), seen |-> NoRow]
  <2>1. PICK f \in network : Take(f) /\ handler' = [handler EXCEPT ![h] = b(f)]
    BY <1>7 DEF ReceiveAnswered
  <2>2. handler'[h] = b(f) /\ \A g \in Handlers \ {h} : handler'[g] = handler[g]
    BY <1>0, <2>1 DEF TypeOK
  <2>3. network' \subseteq network /\ Sent(f)
    BY <2>1 DEF Take, Sent
  <2>4. \A e \in Events : Sent(e)' => Sent(e)
    BY <1>7, <2>2, <2>3, SentByHandler DEF ReceiveAnswered
  <2> QED
    BY <1>0, <1>7, <2>2, <2>4, SilentHandlers DEF ReceiveAnswered
<1>8. ASSUME NEW h \in Handlers, Lookup(h) PROVE NoSilentRow'
  <2>1. handler[h] \in Busy /\ Serving(h)
    BY <1>0, <1>8, ServingIsBusy DEF Lookup, Serving
  <2>2. handler[h].event \in Events /\ Sent(handler[h].event)
    BY <2>1 DEF Busy, Sent
  <2>3. handler'[h] = Reading(handler[h].event, handler[h].resolves) /\ \A g \in Handlers \ {h} : handler'[g] = handler[g]
    BY <1>0, <1>8 DEF TypeOK, Lookup
  <2>4. \A e \in Events : Sent(e)' => Sent(e)
    BY <1>8, <2>2, <2>3, SentByHandler DEF Lookup, Reading
  <2> QED
    BY <1>0, <1>8, <2>2, <2>3, <2>4, SilentReading, SilentHandlers DEF Lookup
<1>9. ASSUME NEW h \in Handlers, Refetch(h) PROVE NoSilentRow'
  <2>1. handler[h] \in Busy /\ Serving(h)
    BY <1>0, <1>9, ServingIsBusy DEF Refetch, Serving
  <2>2. handler[h].event \in Events /\ Sent(handler[h].event)
    BY <2>1 DEF Busy, Sent
  <2>3. handler'[h] = Reading(handler[h].event, {}) /\ \A g \in Handlers \ {h} : handler'[g] = handler[g]
    BY <1>0, <1>9 DEF TypeOK, Refetch
  <2>4. \A e \in Events : Sent(e)' => Sent(e)
    BY <1>9, <2>2, <2>3, SentByHandler DEF Refetch, Reading
  <2> QED
    BY <1>0, <1>9, <2>2, <2>3, <2>4, SilentReading, SilentHandlers DEF Refetch
<1>10. ASSUME NEW h \in Handlers, InsertConflict(h) PROVE NoSilentRow'
  <2>1. handler[h] \in Busy /\ Serving(h)
    BY <1>0, <1>10, ServingIsBusy DEF InsertConflict, Serving
  <2>2. /\ handler'[h].pc = "refetch" /\ handler'[h].event = handler[h].event
        /\ \A g \in Handlers \ {h} : handler'[g] = handler[g]
    BY <1>0, <1>10, <2>1 DEF TypeOK, InsertConflict, Busy
  <2>3. Sent(handler[h].event)
    BY <2>1 DEF Sent
  <2>4. \A e \in Events : Sent(e)' => Sent(e)
    BY <1>10, <2>2, <2>3, SentByHandler DEF InsertConflict
  <2> QED
    BY <1>0, <1>10, <2>2, <2>4, SilentHandlers DEF InsertConflict
<1>11. ASSUME NEW h \in Handlers, SkipDuplicate(h) PROVE NoSilentRow'
  <2>1. handler'[h] = Free /\ \A g \in Handlers \ {h} : handler'[g] = handler[g]
    BY <1>0, <1>11 DEF TypeOK, SkipDuplicate
  <2>2. \A e \in Events : Sent(e)' => Sent(e)
    BY <1>11, <2>1, SentByHandler DEF SkipDuplicate, Free
  <2> QED
    BY <1>0, <1>11, <2>1, <2>2, SilentHandlers DEF SkipDuplicate, Free
<1>12. ASSUME NEW h \in Handlers, HandlerError(h) PROVE NoSilentRow'
  <2>1. handler'[h] = Free /\ \A g \in Handlers \ {h} : handler'[g] = handler[g]
    BY <1>0, <1>12 DEF TypeOK, HandlerError
  <2>2. \A e \in Events : Sent(e)' => Sent(e)
    BY <1>12, <2>1, SentByHandler DEF HandlerError, Free
  <2> QED
    BY <1>0, <1>12, <2>1, <2>2, SilentHandlers DEF HandlerError, Free
<1>13. ASSUME NEW h \in Handlers, Insert(h) PROVE NoSilentRow'
  <2>1. handler[h] \in Busy /\ Serving(h)
    BY <1>0, <1>13, ServingIsBusy DEF Insert, Serving
  <2>2. PICK f \in Events : f = handler[h].event
    BY <2>1 DEF Busy
  <2>3. handler'[h] = Free /\ \A g \in Handlers \ {h} : handler'[g] = handler[g]
    BY <1>0, <1>13 DEF TypeOK, Insert
  <2>4. \A e \in Events : Sent(e)' => Sent(e)
    <3>1. scheduled' = scheduled \union {f} /\ Sent(f)
      BY <1>13, <2>1, <2>2 DEF Insert, Sent
    <3> QED
      BY <1>13, <2>3, <3>1, SentByHandler DEF Insert, Free
  <2>5. \A c \in Reported : calls'[c].state \notin {"NULL", "FAILED"}
    <3>1. \A c \in Reported : c \in Calls
      BY DEF Reported
    <3> QED
      BY <1>0, <1>13, <2>2, <3>1, InsertStates DEF NoSilentRow
  <2> QED
    BY <1>13, <2>3, <2>4, <2>5 DEF NoSilentRow, Insert, Free
<1>14. ASSUME NEW h \in Handlers, Update(h) PROVE NoSilentRow'
  <2>1. handler[h] \in Busy /\ Serving(h)
    BY <1>0, <1>14, ServingIsBusy DEF Update, Serving
  <2>2. PICK f \in Events : f = handler[h].event
    BY <2>1 DEF Busy
  <2>3. handler'[h] = Free /\ \A g \in Handlers \ {h} : handler'[g] = handler[g]
    BY <1>0, <1>14 DEF TypeOK, Update
  <2>4. \A e \in Events : Sent(e)' => Sent(e)
    <3>1. scheduled' = scheduled \union {f} /\ Sent(f)
      BY <1>14, <2>1, <2>2 DEF Update, Sent
    <3> QED
      BY <1>14, <2>3, <3>1, SentByHandler DEF Update, Free
  <2>5. \A c \in Reported : calls'[c].state \notin {"NULL", "FAILED"}
    <3>1. \A c \in Reported : c \in Calls
      BY DEF Reported
    <3> QED
      BY <1>0, <1>14, <2>2, <3>1, UpdateStates DEF NoSilentRow
  <2> QED
    BY <1>14, <2>3, <2>4, <2>5 DEF NoSilentRow, Update, Free
<1>15. CASE CleanupOrphanCalls
  <2>1. \A c \in Reported : calls'[c] = calls[c]
    BY <1>15 DEF NoSilentRow, CleanupOrphanCalls, Orphans, Reported
  <2>2. \A e \in Events : Sent(e)' => Sent(e)
    BY <1>15 DEF CleanupOrphanCalls, Sent, Serving
  <2> QED
    BY <1>15, <2>1, <2>2 DEF NoSilentRow, CleanupOrphanCalls
<1>16. CASE Crash
  BY <1>16 DEF NoSilentRow, Crash, Free, Sent, Serving, InProgress, Reported
<1>17. CASE UNCHANGED vars
  BY <1>17 DEF vars, NoSilentRow, Sent, Serving
<1> QED
  BY <1>1, <1>2, <1>3, <1>4, <1>5, <1>6, <1>7, <1>8, <1>9, <1>10, <1>11, <1>12,
     <1>13, <1>14, <1>15, <1>16, <1>17
     DEF Next, Provider, Work

\* No interleaving of webhooks brings a finished call back to ringing that
\* the endpoints did not place: its row behaves as CallRecord says
\* (webhooks.py:36-40).
THEOREM Implements == Spec => RecordSpec
<1> DEFINE record == [c \in Reported |-> calls[c].state]
<1>0. Reported \subseteq Calls
  BY DEF Reported
<1>1. Init => Record!Init
  BY <1>0 DEF Init, NoRow, Record!Init
<1>2. ASSUME Inv, NoSilentRow, [Next]_vars PROVE [Record!Next]_record
  <2>0. TypeOK /\ TypeOK'
    BY <1>2, TypeNext DEF Inv
  <2>1. ASSUME NEW h \in Handlers, Insert(h) PROVE [Record!Next]_record
    <3>1. PICK e \in Events : e = handler[h].event
      BY <1>2, <2>1, ServingIsBusy DEF Inv, Insert, Serving, Busy
    <3>2. /\ calls[e.call].state = "ABSENT"
          /\ \A c \in Calls \ {e.call} : calls'[c].state = calls[c].state
          /\ calls'[e.call].state \in {"RINGING"} \union TerminalStates
      BY <1>2, <2>0, <2>1, <3>1, InsertStates
    <3>3. CASE e.call \in Reported
      <4>1. record' = [record EXCEPT ![e.call] = calls'[e.call].state]
        BY <1>0, <3>2, <3>3
      <4>2. Record!Appear(e.call)
        BY <3>2, <3>3, <4>1 DEF Record!Appear, Record!Terminal, TerminalStates, HangupStates
      <4> QED
        BY <3>3, <4>2 DEF Record!Next
    <3>4. CASE e.call \notin Reported
      BY <1>0, <3>2, <3>4
    <3> QED
      BY <3>3, <3>4
  <2>2. ASSUME NEW h \in Handlers, Update(h) PROVE [Record!Next]_record
    <3>1. PICK e \in Events : e = handler[h].event
      BY <1>2, <2>2, ServingIsBusy DEF Inv, Update, Serving, Busy
    <3>2. /\ Exists(e.call)
          /\ \A c \in Calls \ {e.call} : calls'[c].state = calls[c].state
          /\ e.call \in Reported =>
               calls'[e.call].state \in {calls[e.call].state} \union TerminalStates
      BY <1>2, <2>0, <2>2, <3>1, UpdateStates
    <3>3. CASE e.call \in Reported /\ calls'[e.call].state \in TerminalStates
      <4>1. record' = [record EXCEPT ![e.call] = calls'[e.call].state]
        BY <1>0, <3>2, <3>3
      <4>2. Record!Finish(e.call)
        BY <3>2, <3>3, <4>1 DEF Record!Finish, Record!Terminal, TerminalStates, HangupStates, Exists
      <4> QED
        BY <3>3, <4>2 DEF Record!Next
    <3>4. CASE ~(e.call \in Reported /\ calls'[e.call].state \in TerminalStates)
      BY <1>0, <3>2, <3>4
    <3> QED
      BY <3>3, <3>4
  <2>3. ASSUME UNCHANGED calls PROVE UNCHANGED record
    BY <2>3
  <2>4. ASSUME NEW c \in Calls, MakeCall(c) \/ MakeDeadCall(c) \/ Upsert(c)
        PROVE  UNCHANGED record
    <3>1. CASE Upsert(c)
      <4>1. c \notin Reported
        BY <1>2, <3>1 DEF NoSilentRow, Upsert, UpsertLookup, UpsertUpdate, UpsertCreate,
                          UpsertConflict
      <4>2. \A d \in Reported : calls'[d] = calls[d]
        BY <1>0, <2>0, <3>1, <4>1 DEF Upsert, UpsertLookup, UpsertUpdate, UpsertCreate,
                                      UpsertConflict, TypeOK
      <4> QED
        BY <4>2
    <3> QED
      BY <2>3, <2>4, <3>1 DEF MakeCall, MakeDeadCall
  <2>5. ASSUME CleanupOrphanCalls PROVE UNCHANGED record
    <3>1. \A c \in Reported : calls'[c] = calls[c]
      BY <1>0, <1>2, <2>5 DEF NoSilentRow, CleanupOrphanCalls, Orphans
    <3> QED
      BY <3>1
  <2>6. \/ UNCHANGED calls \/ CleanupOrphanCalls
        \/ \E h \in Handlers : Insert(h) \/ Update(h)
        \/ \E c \in Calls : MakeCall(c) \/ MakeDeadCall(c) \/ Upsert(c)
    BY <1>2 DEF Next, vars, Provider, ProviderStart, ProviderAnswer, ProviderTransfer, ProviderHangup,
                Work, Receive, ReceiveAnswered, Lookup, InsertConflict, Refetch, SkipDuplicate,
                HandlerError, Age, Crash
  <2> QED
    BY <2>1, <2>2, <2>3, <2>4, <2>5, <2>6
<1>3. Init => NoSilentRow
  BY SilentInit
<1>4. Inv /\ NoSilentRow /\ [Next]_vars => NoSilentRow'
  BY SilentNext
<1> QED
  BY <1>1, <1>2, <1>3, <1>4, Invariance, PTL DEF Spec, RecordSpec, Record!Spec

-----------------------------------------------------------------------------
(* The reminders of missed calls (module Escalation).                      *)

USE EscalationAssumption DEF Tiers, Time, Never, Customers, callRows

LEMMA EscalationTypeInit == EscalationInit => EscalationTypeOK
  BY DEF EscalationInit, EscalationTypeOK, Checks, Idle

\* The check a worker runs, by its pc.
LEMMA CheckTypes ==
    ASSUME EscalationTypeOK, NEW w \in Workers
    PROVE  /\ worker[w].pc = "next" => worker[w] \in [pc: {"next"}, began: Time, groups: SUBSET CallIds]
           /\ worker[w].pc = "send" =>
                 worker[w] \in [pc: {"send"}, began: Time, groups: SUBSET CallIds,
                                customer: Customers, tier: Tiers, seen: SUBSET Messages]
           /\ worker[w].pc = "mark" =>
                 worker[w] \in [pc: {"mark"}, began: Time, groups: SUBSET CallIds,
                                message: Messages, seen: SUBSET Messages]
           /\ worker[w].pc \in {"markcalls", "dm"} =>
                 worker[w] \in [pc: {"markcalls", "dm"}, began: Time,
                                groups: SUBSET CallIds, message: Messages]
  BY DEF EscalationTypeOK, Checks, Idle

\* What LookAt does with customer p.
Looks(w, p) ==
    worker' = [worker EXCEPT ![w] =
        IF Due(p, TierOf(w, p))
          THEN [pc |-> "send", began |-> worker[w].began, groups |-> Rest(w, p).groups,
                customer |-> p, tier |-> TierOf(w, p), seen |-> marked]
          ELSE Rest(w, p)]

\* A process changes only its own check, to one that is well typed.
LEMMA WorkerTypes ==
    ASSUME EscalationTypeOK, NEW w \in Workers, NEW v \in Checks, worker' = [worker EXCEPT ![w] = v]
    PROVE  worker' \in [Workers -> Checks]
  BY DEF EscalationTypeOK

LEMMA EscalationTypeNext == EscalationTypeOK /\ [EscalationNext]_escalationVars => EscalationTypeOK'
<1> SUFFICES ASSUME EscalationTypeOK, [EscalationNext]_escalationVars PROVE EscalationTypeOK'
  OBVIOUS
<1>0. Fault => faults' \in 0 .. MaxFaults
  BY DEF EscalationTypeOK, Fault
<1>1. CASE Tick
  <2>1. now' \in Time
    BY <1>1 DEF EscalationTypeOK, Tick
  <2>2. waited' \subseteq CallIds \X Time
    BY <1>1, <2>1 DEF EscalationTypeOK, Tick
  <2> QED
    BY <1>0, <1>1, <2>1, <2>2 DEF EscalationTypeOK, Tick
<1>2. ASSUME NEW c \in CallIds, Ring(c) \/ Miss(c) PROVE EscalationTypeOK'
  BY <1>2 DEF EscalationTypeOK, Ring, Miss
<1>3. ASSUME NEW p \in Customers, CallBack(p) PROVE EscalationTypeOK'
  BY <1>3 DEF EscalationTypeOK, CallBack
<1>4. ASSUME NEW w \in Workers, StartCheck(w) PROVE EscalationTypeOK'
  <2>1. [pc |-> "next", began |-> now, groups |-> MissedCalls] \in Checks
    BY DEF EscalationTypeOK, Checks, MissedCalls
  <2> QED
    BY <1>4, <2>1, WorkerTypes DEF EscalationTypeOK, StartCheck
<1>5. ASSUME NEW w \in Workers, EndCheck(w) \/ AbortCheck(w) \/ Restart(w) PROVE EscalationTypeOK'
  <2>1. Idle \in Checks
    BY DEF Checks
  <2> QED
    BY <1>0, <1>5, <2>1, WorkerTypes DEF EscalationTypeOK, EndCheck, AbortCheck, Restart
<1>6. ASSUME NEW w \in Workers, LookAt(w) PROVE EscalationTypeOK'
  <2>1. worker[w] \in [pc: {"next"}, began: Time, groups: SUBSET CallIds]
    BY <1>6, CheckTypes DEF LookAt
  <2>2. PICK p \in {Caller[c] : c \in worker[w].groups} : Looks(w, p)
    BY <1>6 DEF LookAt, Looks
  <2>3. Rest(w, p) \in Checks /\ Rest(w, p).groups \subseteq CallIds
    BY <2>1 DEF Rest, Checks
  <2>4. TierOf(w, p) \in 0 .. 3
    BY DEF TierOf
  <2>5. ASSUME Due(p, TierOf(w, p))
        PROVE  [pc |-> "send", began |-> worker[w].began, groups |-> Rest(w, p).groups,
                customer |-> p, tier |-> TierOf(w, p), seen |-> marked] \in Checks
    BY <2>1, <2>2, <2>3, <2>4, <2>5 DEF Checks, Due, EscalationTypeOK
  <2>6. worker' \in [Workers -> Checks]
    BY <2>2, <2>3, <2>5, WorkerTypes DEF Looks
  <2> QED
    BY <1>6, <2>6 DEF EscalationTypeOK, LookAt
<1>7. ASSUME NEW w \in Workers, SendMessage(w) PROVE EscalationTypeOK'
  <2>1. worker[w] \in [pc: {"send"}, began: Time, groups: SUBSET CallIds,
                       customer: Customers, tier: Tiers, seen: SUBSET Messages]
    BY <1>7, CheckTypes DEF SendMessage
  <2>2. Message(w) \in Messages
    BY <2>1 DEF EscalationTypeOK, Message, Messages
  <2>3. [pc |-> "mark", began |-> worker[w].began, groups |-> worker[w].groups,
         message |-> Message(w), seen |-> worker[w].seen] \in Checks
    BY <2>1, <2>2 DEF Checks
  <2>4. worker' \in [Workers -> Checks]
    BY <1>7, <2>3, WorkerTypes DEF SendMessage
  <2> QED
    BY <1>7, <2>2, <2>4 DEF EscalationTypeOK, SendMessage
<1>8. ASSUME NEW w \in Workers, Mark(w) PROVE EscalationTypeOK'
  <2>1. worker[w] \in [pc: {"mark"}, began: Time, groups: SUBSET CallIds,
                       message: Messages, seen: SUBSET Messages]
    BY <1>8, CheckTypes DEF Mark
  <2>2. [pc |-> "markcalls", began |-> worker[w].began, groups |-> worker[w].groups,
         message |-> worker[w].message] \in Checks
    BY <2>1 DEF Checks
  <2>3. worker' \in [Workers -> Checks]
    BY <1>8, <2>2, WorkerTypes DEF Mark
  <2>4. worker[w].message \in Messages
    BY <2>1
  <2>5. key' \in [Customers -> [tier: 0 .. 3, expires: Nat]]
    BY <1>8, <2>4 DEF EscalationTypeOK, Mark, Messages
  <2> QED
    BY <1>8, <2>3, <2>4, <2>5 DEF EscalationTypeOK, Mark
<1>9. ASSUME NEW w \in Workers, MarkCalls(w) \/ GiveUpCustomer(w) PROVE EscalationTypeOK'
  <2> DEFINE rest == [pc |-> "next", began |-> worker[w].began, groups |-> worker[w].groups]
  <2>1. rest \in Checks
    BY <1>9, CheckTypes DEF MarkCalls, GiveUpCustomer, Checks
  <2>2. MarkCalls(w) => [worker[w] EXCEPT !.pc = "dm"] \in Checks
    BY CheckTypes DEF MarkCalls, Checks
  <2>3. worker' \in [Workers -> Checks]
    BY <1>9, <2>1, <2>2, WorkerTypes DEF MarkCalls, GiveUpCustomer
  <2> QED
    BY <1>0, <1>9, <2>3 DEF EscalationTypeOK, MarkCalls, GiveUpCustomer
<1>10. ASSUME NEW w \in Workers, DmManagers(w) PROVE EscalationTypeOK'
  <2> DEFINE rest == [pc |-> "next", began |-> worker[w].began, groups |-> worker[w].groups]
  <2>1. rest \in Checks /\ worker[w].message \in Messages
    BY <1>10, CheckTypes DEF DmManagers, Checks
  <2>2. worker' \in [Workers -> Checks]
    BY <1>10, <2>1, WorkerTypes DEF DmManagers
  <2> QED
    BY <1>10, <2>1, <2>2 DEF EscalationTypeOK, DmManagers
<1>11. CASE UNCHANGED escalationVars
  BY <1>11 DEF EscalationTypeOK, escalationVars
<1> QED
  BY <1>1, <1>2, <1>3, <1>4, <1>5, <1>6, <1>7, <1>8, <1>9, <1>10, <1>11 DEF EscalationNext, Check

\* Every reachable state is well typed.
THEOREM EscalationTypeCorrect == EscalationSpec => []EscalationTypeOK
<1>1. EscalationInit => EscalationTypeOK
  BY EscalationTypeInit
<1>2. EscalationTypeOK /\ [EscalationNext]_escalationVars => EscalationTypeOK'
  BY EscalationTypeNext
<1> QED
  BY <1>1, <1>2, PTL DEF EscalationSpec

-----------------------------------------------------------------------------
(* Reminders are due.                                                      *)

\* c was on the list in tick t.
WasWaiting(c, t) == created[c] # Never /\ <<c, t>> \in waited

\* The reminder of this tier and customer was due at time t.
WasDue(p, tier, t) ==
    \E c \in CallIds : Caller[c] = p /\ WasWaiting(c, t) /\ created[c] + Threshold[tier] =< t

\* The history of the list: a call that is on it is there in this tick, and
\* one that was on it and left was called back since.
ListInv ==
    /\ \A c \in needsCallback : created[c] # Never /\ <<c, now>> \in waited
    /\ \A c \in CallIds, t \in Time :
          <<c, t>> \in waited => t =< now /\ (c \in needsCallback \/ resolved[c] >= t)

LEMMA ListInit == EscalationInit => ListInv
  BY DEF EscalationInit, ListInv

LEMMA ListNext == EscalationTypeOK /\ ListInv /\ [EscalationNext]_escalationVars => ListInv'
<1> SUFFICES ASSUME EscalationTypeOK, ListInv, [EscalationNext]_escalationVars PROVE ListInv'
  OBVIOUS
<1>1. ASSUME UNCHANGED <<now, callRows>> PROVE ListInv'
  BY <1>1 DEF ListInv
<1>2. CASE Tick
  <2>1. /\ now \in Nat /\ now' = now + 1 /\ UNCHANGED <<created, needsCallback, resolved>>
        /\ waited' = waited \union {<<c, now'>> : c \in needsCallback}
    BY <1>2 DEF Tick, EscalationTypeOK
  <2>2. \A c \in needsCallback : created[c] # Never /\ <<c, now'>> \in waited'
    BY <2>1 DEF ListInv
  <2>3. ASSUME NEW c \in CallIds, NEW t \in Time, <<c, t>> \in waited'
        PROVE  t =< now' /\ (c \in needsCallback \/ resolved[c] >= t)
    <3>1. CASE <<c, t>> \in waited
      BY <2>1, <3>1 DEF ListInv
    <3>2. CASE <<c, t>> \notin waited
      <4>1. t = now' /\ c \in needsCallback
        BY <2>1, <2>3, <3>2
      <4> QED
        BY <2>1, <4>1
    <3> QED
      BY <3>1, <3>2
  <2> QED
    BY <2>1, <2>2, <2>3 DEF ListInv
<1>3. ASSUME NEW d \in CallIds, Ring(d) PROVE ListInv'
  <2>1. /\ created[d] = Never /\ created' = [created EXCEPT ![d] = now]
        /\ UNCHANGED <<now, needsCallback, resolved, waited>>
    BY <1>3 DEF Ring
  <2>2. \A c \in needsCallback : created'[c] # Never
    BY <2>1 DEF ListInv, EscalationTypeOK
  <2> QED
    BY <2>1, <2>2 DEF ListInv
<1>4. ASSUME NEW d \in CallIds, Miss(d) PROVE ListInv'
  <2>1. /\ created' = [created EXCEPT ![d] = IF @ = Never THEN now ELSE @]
        /\ needsCallback' = needsCallback \union {d}
        /\ waited' = waited \union {<<d, now>>}
        /\ UNCHANGED <<now, resolved>>
    BY <1>4 DEF Miss
  <2>2. \A c \in CallIds : created'[c] = Never => created[c] = Never /\ c # d
    BY <2>1 DEF EscalationTypeOK
  <2>3. \A c \in needsCallback' : created'[c] # Never /\ <<c, now>> \in waited'
    BY <2>1, <2>2 DEF ListInv, EscalationTypeOK
  <2>4. \A c \in CallIds, t \in Time :
            <<c, t>> \in waited' => t =< now /\ (c \in needsCallback' \/ resolved[c] >= t)
    BY <2>1 DEF ListInv, EscalationTypeOK
  <2> QED
    BY <2>1, <2>3, <2>4 DEF ListInv
<1>5. ASSUME NEW p \in Customers, CallBack(p) PROVE ListInv'
  <2>1. /\ needsCallback' = needsCallback \ CallsOf(p)
        /\ resolved' = [c \in CallIds |-> IF c \in CallsOf(p) THEN now ELSE resolved[c]]
        /\ UNCHANGED <<now, created, waited>>
    BY <1>5 DEF CallBack
  <2>2. \A c \in CallIds : /\ c \in CallsOf(p) => resolved'[c] = now
                           /\ c \notin CallsOf(p) => resolved'[c] = resolved[c]
    BY <2>1
  <2>3. \A c \in CallIds, t \in Time :
            <<c, t>> \in waited => t =< now /\ (c \in needsCallback' \/ resolved'[c] >= t)
    BY <2>1, <2>2 DEF ListInv, EscalationTypeOK
  <2> QED
    BY <2>1, <2>3 DEF ListInv
<1>6. ASSUME NEW w \in Workers, Check(w) PROVE ListInv'
  BY <1>1, <1>6 DEF Check, StartCheck, EndCheck, LookAt, AbortCheck, SendMessage, Mark, MarkCalls,
                    DmManagers, GiveUpCustomer, Restart
<1>7. CASE UNCHANGED escalationVars
  BY <1>1, <1>7 DEF escalationVars
<1> QED
  BY <1>2, <1>3, <1>4, <1>5, <1>6, <1>7 DEF EscalationNext

\* Nothing that happens to the calls later changes what was waiting before.
CallsChange ==
    \/ UNCHANGED <<created, waited>>
    \/ UNCHANGED created /\ waited \subseteq waited'
    \/ \E d \in CallIds : Ring(d) \/ Miss(d)

LEMMA WaitingIsStable ==
    ASSUME EscalationTypeOK, NEW c \in CallIds, NEW t \in Time, WasWaiting(c, t), CallsChange
    PROVE  WasWaiting(c, t)' /\ created'[c] = created[c]
  BY DEF EscalationTypeOK, WasWaiting, CallsChange, Ring, Miss

LEMMA DueIsStable ==
    ASSUME EscalationTypeOK, NEW p, NEW tier \in Tiers, NEW t \in Time, WasDue(p, tier, t), CallsChange
    PROVE  WasDue(p, tier, t)'
<1>1. PICK c \in CallIds : Caller[c] = p /\ WasWaiting(c, t) /\ created[c] + Threshold[tier] =< t
  BY DEF WasDue
<1>2. WasWaiting(c, t)' /\ created'[c] = created[c]
  BY <1>1, WaitingIsStable
<1> QED
  BY <1>1, <1>2 DEF WasDue

\* What is known of one process and of the log.
WorkerDue(w) ==
    worker[w].pc # "idle" =>
        /\ \A c \in worker[w].groups : WasWaiting(c, worker[w].began)
        /\ worker[w].pc = "send" => WasDue(worker[w].customer, worker[w].tier, worker[w].began)

LogDue == \A m \in log : WasDue(m.customer, m.tier, m.began)

LEMMA DueInit == EscalationInit => (\A w \in Workers : WorkerDue(w)) /\ LogDue
  BY DEF EscalationInit, WorkerDue, LogDue, Idle

LEMMA DueNext ==
    EscalationTypeOK /\ ListInv /\ (\A w \in Workers : WorkerDue(w)) /\ LogDue
        /\ [EscalationNext]_escalationVars
        => (\A w \in Workers : WorkerDue(w))' /\ LogDue'
<1> SUFFICES ASSUME EscalationTypeOK, ListInv, \A w \in Workers : WorkerDue(w), LogDue,
                    [EscalationNext]_escalationVars
             PROVE  (\A w \in Workers : WorkerDue(w))' /\ LogDue'
  OBVIOUS
<1>1. ASSUME CallsChange, UNCHANGED <<worker, log>>
      PROVE  (\A w \in Workers : WorkerDue(w))' /\ LogDue'
  <2>1. ASSUME NEW w \in Workers PROVE WorkerDue(w)'
    <3> SUFFICES ASSUME worker[w].pc # "idle"
                 PROVE  /\ \A c \in worker[w].groups : WasWaiting(c, worker[w].began)'
                        /\ worker[w].pc = "send" =>
                              WasDue(worker[w].customer, worker[w].tier, worker[w].began)'
      BY <1>1 DEF WorkerDue, WasDue, WasWaiting
    <3>1. worker[w].began \in Time /\ worker[w].groups \subseteq CallIds
      BY DEF EscalationTypeOK, Checks, Idle
    <3>2. worker[w].pc = "send" => worker[w].tier \in Tiers
      BY CheckTypes
    <3>3. \A c \in worker[w].groups : WasWaiting(c, worker[w].began)
      BY DEF WorkerDue
    <3>4. \A c \in worker[w].groups : WasWaiting(c, worker[w].began)'
      BY <1>1, <3>1, <3>3, WaitingIsStable
    <3>5. worker[w].pc = "send" => WasDue(worker[w].customer, worker[w].tier, worker[w].began)'
      BY <1>1, <3>1, <3>2, <3>3, DueIsStable DEF WorkerDue
    <3> QED
      BY <3>4, <3>5
  <2>2. ASSUME NEW m \in log PROVE WasDue(m.customer, m.tier, m.began)'
    <3>1. m.began \in Time /\ m.tier \in Tiers
      BY DEF EscalationTypeOK, Messages
    <3>2. WasDue(m.customer, m.tier, m.began)
      BY DEF LogDue
    <3> QED
      BY <1>1, <3>1, <3>2, DueIsStable
  <2> QED
    BY <1>1, <2>1, <2>2 DEF LogDue, WasDue, WasWaiting
<1>2. CASE Tick
  BY <1>1, <1>2 DEF Tick, CallsChange
<1>3. ASSUME NEW c \in CallIds, Ring(c) \/ Miss(c) PROVE (\A w \in Workers : WorkerDue(w))' /\ LogDue'
  <2>1. UNCHANGED <<worker, log>>
    BY <1>3 DEF Ring, Miss
  <2> QED
    BY <1>1, <1>3, <2>1 DEF CallsChange
<1>4. ASSUME NEW p \in Customers, CallBack(p) PROVE (\A w \in Workers : WorkerDue(w))' /\ LogDue'
  BY <1>1, <1>4 DEF CallBack, CallsChange
\* A step of one process that reads the database at most.
<1>5. ASSUME NEW w \in Workers, UNCHANGED <<now, callRows>>,
             \A v \in Workers \ {w} : worker'[v] = worker[v],
             WorkerDue(w)', LogDue'
      PROVE  (\A v \in Workers : WorkerDue(v))' /\ LogDue'
  <2>1. ASSUME NEW v \in Workers, v # w PROVE WorkerDue(v)'
    BY <1>5, <2>1 DEF WorkerDue, WasDue, WasWaiting
  <2> QED
    BY <1>5, <2>1
<1>6. ASSUME UNCHANGED <<now, callRows, log>> PROVE LogDue'
  BY <1>6 DEF LogDue, WasDue, WasWaiting
<1>7. ASSUME NEW w \in Workers, StartCheck(w) PROVE (\A v \in Workers : WorkerDue(v))' /\ LogDue'
  <2>1. worker' = [worker EXCEPT ![w] = [pc |-> "next", began |-> now, groups |-> MissedCalls]]
    BY <1>7 DEF StartCheck
  <2>2. /\ worker'[w].pc = "next" /\ worker'[w].began = now /\ worker'[w].groups = MissedCalls
        /\ \A v \in Workers \ {w} : worker'[v] = worker[v]
    BY <2>1 DEF EscalationTypeOK
  <2>3. \A c \in MissedCalls : WasWaiting(c, now)
    BY DEF MissedCalls, WasWaiting, ListInv
  <2>4. WorkerDue(w)'
    BY <1>7, <2>2, <2>3 DEF StartCheck, WorkerDue, WasWaiting
  <2> QED
    BY <1>5, <1>6, <1>7, <2>2, <2>4 DEF StartCheck
<1>8. ASSUME NEW w \in Workers, EndCheck(w) \/ AbortCheck(w) \/ Restart(w)
      PROVE  (\A v \in Workers : WorkerDue(v))' /\ LogDue'
  <2>1. worker'[w] = Idle /\ \A v \in Workers \ {w} : worker'[v] = worker[v]
    BY <1>8 DEF EscalationTypeOK, EndCheck, AbortCheck, Restart
  <2>2. WorkerDue(w)'
    BY <2>1 DEF WorkerDue, Idle
  <2> QED
    BY <1>5, <1>6, <1>8, <2>1, <2>2 DEF EndCheck, AbortCheck, Restart
<1>9. ASSUME NEW w \in Workers, LookAt(w) PROVE (\A v \in Workers : WorkerDue(v))' /\ LogDue'
  <2>1. worker[w] \in [pc: {"next"}, began: Time, groups: SUBSET CallIds]
    BY <1>9, CheckTypes DEF LookAt
  <2>2. PICK p \in {Caller[c] : c \in worker[w].groups} : Looks(w, p)
    BY <1>9 DEF LookAt, Looks
  <2> DEFINE tier == TierOf(w, p)
  <2>3. \A v \in Workers \ {w} : worker'[v] = worker[v]
    BY <2>2 DEF EscalationTypeOK, Looks
  <2>4. \A c \in worker[w].groups : WasWaiting(c, worker[w].began)
    BY <2>1 DEF WorkerDue
  <2>5. CASE Due(p, tier)
    <3>1. tier \in Tiers /\ Reached(w, p, tier)
      BY <2>5 DEF Due, TierOf
    <3>2. PICK c \in Group(w, p) : worker[w].began - created[c] >= Threshold[tier]
      BY <3>1 DEF Reached
    <3>3. c \in CallIds /\ Caller[c] = p /\ WasWaiting(c, worker[w].began)
      BY <2>1, <2>4 DEF Group
    <3>4. created[c] + Threshold[tier] =< worker[w].began
      BY <2>1, <3>1, <3>2, <3>3 DEF EscalationTypeOK
    <3>5. WasDue(p, tier, worker[w].began)
      BY <3>3, <3>4 DEF WasDue
    <3>6. /\ worker'[w].pc = "send" /\ worker'[w].began = worker[w].began
          /\ worker'[w].groups \subseteq worker[w].groups
          /\ worker'[w].customer = p /\ worker'[w].tier = tier
      BY <2>2, <2>5 DEF EscalationTypeOK, Looks, Rest
    <3> HIDE DEF tier
    <3>7. WorkerDue(w)'
      BY <1>9, <2>4, <3>5, <3>6 DEF LookAt, WorkerDue, WasDue, WasWaiting
    <3> QED
      BY <1>5, <1>6, <1>9, <2>3, <3>7 DEF LookAt
  <2>6. CASE ~Due(p, tier)
    <3>1. /\ worker'[w].pc = "next" /\ worker'[w].began = worker[w].began
          /\ worker'[w].groups \subseteq worker[w].groups
      BY <2>2, <2>6 DEF EscalationTypeOK, Looks, Rest
    <3>2. WorkerDue(w)'
      BY <1>9, <2>4, <3>1 DEF LookAt, WorkerDue, WasWaiting
    <3> QED
      BY <1>5, <1>6, <1>9, <2>3, <3>2 DEF LookAt
  <2> QED
    BY <2>5, <2>6
<1>10. ASSUME NEW w \in Workers, SendMessage(w) PROVE (\A v \in Workers : WorkerDue(v))' /\ LogDue'
  <2>1. worker[w].pc = "send"
    BY <1>10 DEF SendMessage
  <2>2. /\ worker'[w].pc = "mark" /\ worker'[w].began = worker[w].began
        /\ worker'[w].groups = worker[w].groups
        /\ \A v \in Workers \ {w} : worker'[v] = worker[v]
    BY <1>10 DEF EscalationTypeOK, SendMessage
  <2>3. /\ \A c \in worker[w].groups : WasWaiting(c, worker[w].began)
        /\ WasDue(worker[w].customer, worker[w].tier, worker[w].began)
    BY <2>1 DEF WorkerDue
  <2>4. WorkerDue(w)'
    BY <1>10, <2>2, <2>3 DEF SendMessage, WorkerDue, WasWaiting
  <2>5. LogDue'
    BY <1>10, <2>3 DEF SendMessage, LogDue, Message, WasDue, WasWaiting
  <2> QED
    BY <1>5, <1>10, <2>2, <2>4, <2>5 DEF SendMessage
<1>11. ASSUME NEW w \in Workers, Mark(w) \/ MarkCalls(w) \/ DmManagers(w) \/ GiveUpCustomer(w)
       PROVE  (\A v \in Workers : WorkerDue(v))' /\ LogDue'
  <2>1. /\ worker[w].pc # "idle" /\ worker'[w].pc # "send"
        /\ worker'[w].began = worker[w].began /\ worker'[w].groups = worker[w].groups
        /\ \A v \in Workers \ {w} : worker'[v] = worker[v]
    <3>1. CASE Mark(w)
      BY <3>1, CheckTypes DEF EscalationTypeOK, Mark
    <3>2. CASE MarkCalls(w)
      BY <3>2, CheckTypes DEF EscalationTypeOK, MarkCalls
    <3>3. CASE DmManagers(w) \/ GiveUpCustomer(w)
      BY <3>3, CheckTypes DEF EscalationTypeOK, DmManagers, GiveUpCustomer
    <3> QED
      BY <1>11, <3>1, <3>2, <3>3
  <2>2. UNCHANGED <<now, callRows, log>>
    BY <1>11 DEF Mark, MarkCalls, DmManagers, GiveUpCustomer
  <2>3. WorkerDue(w)'
    BY <2>1, <2>2 DEF WorkerDue, WasWaiting
  <2> QED
    BY <1>5, <1>6, <2>1, <2>2, <2>3
<1>12. CASE UNCHANGED escalationVars
  BY <1>1, <1>12 DEF escalationVars, CallsChange
<1> QED
  BY <1>2, <1>3, <1>4, <1>7, <1>8, <1>9, <1>10, <1>11, <1>12 DEF EscalationNext, Check

\* Every reminder was due when its check began, whatever fails, however many
\* processes check at a time and however often calls are called back and
\* reported as missed again (missed_call_escalation.py:64-98).
THEOREM RemindersAreDue == EscalationSpec => []AlarmsAreDue
<1>1. LogDue => AlarmsAreDue
  BY DEF LogDue, AlarmsAreDue, WasDue, WasWaiting
<1>2. EscalationTypeOK /\ [EscalationNext]_escalationVars => EscalationTypeOK'
  BY EscalationTypeNext
<1> QED
  BY <1>1, <1>2, EscalationTypeInit, ListInit, ListNext, DueInit, DueNext, PTL DEF EscalationSpec

-----------------------------------------------------------------------------
(* Reminders become more urgent.                                           *)

Expired(m) == now >= m.at + KeyTTL

\* The key of m's customer says at least what m said, for as long as m's own
\* key would have lived.
KeySays(m) == key[m.customer].tier >= m.tier /\ key[m.customer].expires >= m.at + KeyTTL

\* m has no say any more.
Gone(m) == m \in lost \/ Expired(m)

MarkedInv == \A m \in marked : m.at =< now /\ (Gone(m) \/ KeySays(m))

\* What a process saw when it looked is less urgent than what it is about to
\* send, or has just sent.
SawLess(w) ==
    /\ worker[w].pc = "send" =>
         \A m \in worker[w].seen : m.customer = worker[w].customer => Gone(m) \/ m.tier < worker[w].tier
    /\ worker[w].pc = "mark" =>
         /\ worker[w].message.at =< now
         /\ \A m \in worker[w].seen : m.customer = worker[w].message.customer =>
                                          Gone(m) \/ m.tier < worker[w].message.tier

RiseInv == MarkedInv /\ \A w \in Workers : SawLess(w)

LEMMA RiseInit == EscalationInit => RiseInv
  BY DEF EscalationInit, RiseInv, MarkedInv, SawLess, Idle

\* What is gone stays gone.
LEMMA GoneIsStable ==
    ASSUME EscalationTypeOK, NEW m \in Messages, Gone(m), now =< now', now' \in Time, lost \subseteq lost'
    PROVE  Gone(m)'
<1>1. m.at \in Nat /\ now \in Nat /\ now' \in Nat
  BY DEF EscalationTypeOK, Messages
<1>2. CASE m \in lost
  BY <1>2 DEF Gone
<1>3. CASE Expired(m)
  <2>1. now' >= m.at + KeyTTL
    BY <1>1, <1>3 DEF Expired
  <2> QED
    BY <2>1 DEF Gone, Expired
<1> QED
  BY <1>2, <1>3 DEF Gone

LEMMA SawLessIsStable ==
    ASSUME EscalationTypeOK, NEW w \in Workers, SawLess(w), worker'[w] = worker[w],
           now =< now', now' \in Time, lost \subseteq lost'
    PROVE  SawLess(w)'
<1>1. CASE worker[w].pc = "send"
  <2>1. worker[w].seen \subseteq Messages
    BY <1>1, CheckTypes
  <2>2. \A m \in worker[w].seen : Gone(m) => Gone(m)'
    BY <2>1, GoneIsStable
  <2> QED
    BY <1>1, <2>2 DEF SawLess
<1>2. CASE worker[w].pc = "mark"
  <2>1. worker[w].seen \subseteq Messages /\ worker[w].message \in Messages
    BY <1>2, CheckTypes
  <2>2. \A m \in worker[w].seen : Gone(m) => Gone(m)'
    BY <2>1, GoneIsStable
  <2>3. worker[w].message.at =< now'
    BY <1>2, <2>1 DEF SawLess, EscalationTypeOK, Messages
  <2> QED
    BY <1>2, <2>2, <2>3 DEF SawLess
<1> QED
  BY <1>1, <1>2 DEF SawLess

LEMMA RiseNext == EscalationTypeOK /\ RiseInv /\ [EscalationNext]_escalationVars => RiseInv'
<1> SUFFICES ASSUME EscalationTypeOK, RiseInv, [EscalationNext]_escalationVars PROVE RiseInv'
  OBVIOUS
<1>0. /\ now \in Time /\ marked \subseteq Messages /\ lost \subseteq Messages
      /\ key \in [Customers -> [tier: 0 .. 3, expires: Nat]]
  BY DEF EscalationTypeOK
<1>1. \A m \in Messages : m.at \in Time /\ m.tier \in Tiers /\ m.customer \in Customers
  BY DEF Messages
\* A step that writes no key leaves the messages as they were.
<1>2. ASSUME UNCHANGED <<key, marked, lost>>, now =< now', now' \in Time PROVE MarkedInv'
  <2>1. ASSUME NEW m \in marked PROVE m.at =< now' /\ (Gone(m)' \/ KeySays(m)')
    <3>1. m.at \in Time /\ m.at =< now /\ (Gone(m) \/ KeySays(m))
      BY <1>0, <1>1 DEF RiseInv, MarkedInv
    <3>2. Gone(m) => Gone(m)'
      BY <1>0, <1>2, GoneIsStable
    <3>3. KeySays(m) => KeySays(m)'
      BY <1>2 DEF KeySays
    <3> QED
      BY <1>0, <1>2, <3>1, <3>2, <3>3
  <2> QED
    BY <1>2, <2>1 DEF MarkedInv
\* A step of one process, after which it says nothing wrong.
<1>3. ASSUME NEW w \in Workers, \A v \in Workers \ {w} : worker'[v] = worker[v],
             now' = now, lost \subseteq lost', MarkedInv', SawLess(w)'
      PROVE  RiseInv'
  <2>1. \A v \in Workers \ {w} : SawLess(v)'
    BY <1>0, <1>3, SawLessIsStable DEF RiseInv
  <2> QED
    BY <1>3, <2>1 DEF RiseInv
<1>4. ASSUME UNCHANGED <<key, worker, marked, lost>>, now =< now', now' \in Time PROVE RiseInv'
  BY <1>2, <1>4, SawLessIsStable DEF RiseInv
<1>5. CASE Tick
  BY <1>0, <1>4, <1>5 DEF Tick
<1>6. ASSUME NEW c \in CallIds, Ring(c) \/ Miss(c) PROVE RiseInv'
  BY <1>0, <1>4, <1>6 DEF Ring, Miss
<1>7. ASSUME NEW p \in Customers, CallBack(p) PROVE RiseInv'
  BY <1>0, <1>4, <1>7 DEF CallBack
\* A step of a process that neither looks, nor sends, nor marks.
<1>8. ASSUME NEW w \in Workers, UNCHANGED <<now, key, marked, lost>>,
             \A v \in Workers \ {w} : worker'[v] = worker[v], worker'[w].pc \notin {"send", "mark"}
      PROVE  RiseInv'
  <2>1. SawLess(w)'
    BY <1>8 DEF SawLess
  <2>2. MarkedInv'
    BY <1>0, <1>2, <1>8
  <2> QED
    BY <1>3, <1>8, <2>1, <2>2
<1>9. ASSUME NEW w \in Workers, StartCheck(w) \/ EndCheck(w) \/ AbortCheck(w) \/ Restart(w)
      PROVE  RiseInv'
  <2>1. worker'[w].pc \in {"next", "idle"} /\ \A v \in Workers \ {w} : worker'[v] = worker[v]
    BY <1>9 DEF EscalationTypeOK, StartCheck, EndCheck, AbortCheck, Restart, Idle
  <2>2. UNCHANGED <<now, key, marked, lost>>
    BY <1>9 DEF StartCheck, EndCheck, AbortCheck, Restart
  <2> QED
    BY <1>8, <2>1, <2>2
<1>10. ASSUME NEW w \in Workers, LookAt(w) PROVE RiseInv'
  <2>1. worker[w].pc = "next" /\ worker[w].groups \subseteq CallIds
    BY <1>10, CheckTypes DEF LookAt
  <2>2. PICK p \in {Caller[c] : c \in worker[w].groups} : Looks(w, p)
    BY <1>10 DEF LookAt, Looks
  <2>3. /\ \A v \in Workers \ {w} : worker'[v] = worker[v]
        /\ UNCHANGED <<now, key, marked, lost>>
    BY <1>10, <2>2 DEF LookAt, Looks, EscalationTypeOK
  <2> DEFINE tier == TierOf(w, p)
  <2>4. CASE Due(p, tier)
    <3>1. /\ worker'[w].pc = "send" /\ worker'[w].customer = p /\ worker'[w].tier = tier
          /\ worker'[w].seen = marked
      BY <2>2, <2>4 DEF EscalationTypeOK, Looks
    <3>2. tier \in Tiers /\ SentTier(p) < tier
      BY <2>4 DEF Due, TierOf
    <3> HIDE DEF tier
    <3>3. ASSUME NEW m \in marked, m.customer = p, ~Gone(m) PROVE m.tier < tier
      <4>1. KeySays(m) /\ ~Expired(m)
        BY <3>3 DEF RiseInv, MarkedInv, Gone
      <4>2. now < key[p].expires /\ key[p].tier >= m.tier
        BY <1>0, <1>1, <3>3, <4>1 DEF KeySays, Expired
      <4> QED
        BY <1>0, <1>1, <3>2, <3>3, <4>2 DEF SentTier
    <3>4. SawLess(w)'
      BY <2>3, <3>1, <3>3 DEF SawLess, Gone, Expired
    <3>5. MarkedInv'
      BY <1>0, <1>2, <2>3
    <3> QED
      BY <1>3, <2>3, <3>4, <3>5
  <2>5. CASE ~Due(p, tier)
    <3>1. worker'[w].pc = "next"
      BY <2>2, <2>5 DEF EscalationTypeOK, Looks, Rest
    <3> QED
      BY <1>8, <2>3, <3>1
  <2> QED
    BY <2>4, <2>5
<1>11. ASSUME NEW w \in Workers, SendMessage(w) PROVE RiseInv'
  <2>1. worker[w] \in [pc: {"send"}, began: Time, groups: SUBSET CallIds,
                       customer: Customers, tier: Tiers, seen: SUBSET Messages]
    BY <1>11, CheckTypes DEF SendMessage
  <2>2. /\ worker'[w].pc = "mark" /\ worker'[w].message = Message(w) /\ worker'[w].seen = worker[w].seen
        /\ \A v \in Workers \ {w} : worker'[v] = worker[v]
    BY <1>11 DEF EscalationTypeOK, SendMessage
  <2>3. /\ Message(w).customer = worker[w].customer
        /\ Message(w).tier = worker[w].tier /\ Message(w).at = now
    BY DEF Message
  <2>4. UNCHANGED <<now, key, marked, lost>>
    BY <1>11 DEF SendMessage
  <2>5. \A m \in worker[w].seen : m.customer = worker[w].customer => Gone(m) \/ m.tier < worker[w].tier
    BY <2>1 DEF RiseInv, SawLess
  <2>6. now =< now
    BY <1>0
  <2>7. SawLess(w)'
    BY <2>2, <2>3, <2>4, <2>5, <2>6 DEF SawLess, Gone, Expired
  <2>8. MarkedInv'
    BY <1>0, <1>2, <2>4
  <2> QED
    BY <1>3, <2>2, <2>4, <2>7, <2>8
<1>12. ASSUME NEW w \in Workers, Mark(w) PROVE RiseInv'
  <2>1. PICK new \in Messages : new = worker[w].message
    BY <1>12, CheckTypes DEF Mark
  <2>2. /\ worker'[w].pc = "markcalls" /\ \A v \in Workers \ {w} : worker'[v] = worker[v]
    BY <1>12 DEF EscalationTypeOK, Mark
  <2>3. /\ UNCHANGED now /\ marked' = marked \union {new}
        /\ key' = [key EXCEPT ![new.customer] = [tier |-> new.tier, expires |-> now + KeyTTL]]
        /\ lost' = lost \union {n \in marked : n.customer = new.customer /\ n.tier > new.tier}
    BY <1>12, <2>1 DEF Mark
  <2>4. new.at =< now
    BY <1>12, <2>1 DEF Mark, RiseInv, SawLess
  <2>5. ASSUME NEW m \in marked' PROVE m.at =< now /\ (Gone(m)' \/ KeySays(m)')
    <3>0. m \in Messages /\ m.at =< now
      BY <1>0, <2>3, <2>4 DEF RiseInv, MarkedInv
    <3>1. CASE m.customer = new.customer
      <4>1. m \in lost' \/ m.tier =< new.tier
        BY <1>1, <2>3, <3>0, <3>1
      <4>2. key'[m.customer] = [tier |-> new.tier, expires |-> now + KeyTTL]
        BY <1>0, <1>1, <2>3, <3>1
      <4>3. m.tier =< new.tier => KeySays(m)'
        BY <1>0, <1>1, <3>0, <4>2 DEF KeySays
      <4> QED
        BY <3>0, <4>1, <4>3 DEF Gone
    <3>2. CASE m.customer # new.customer
      <4>1. Gone(m) \/ KeySays(m)
        BY <2>3, <3>2 DEF RiseInv, MarkedInv
      <4>2. key'[m.customer] = key[m.customer]
        BY <1>0, <1>1, <2>3, <3>0, <3>2
      <4>3. KeySays(m) => KeySays(m)'
        BY <4>2 DEF KeySays
      <4>4. Gone(m) => Gone(m)'
        BY <2>3 DEF Gone, Expired
      <4> QED
        BY <3>0, <4>1, <4>3, <4>4
    <3> QED
      BY <3>1, <3>2
  <2>6. MarkedInv' /\ SawLess(w)'
    BY <2>2, <2>3, <2>5 DEF MarkedInv, SawLess
  <2>7. lost \subseteq lost'
    BY <2>3
  <2> QED
    BY <1>3, <2>2, <2>3, <2>6, <2>7
<1>13. ASSUME NEW w \in Workers, MarkCalls(w) \/ DmManagers(w) \/ GiveUpCustomer(w) PROVE RiseInv'
  <2>1. worker'[w].pc \notin {"send", "mark"} /\ \A v \in Workers \ {w} : worker'[v] = worker[v]
    <3>1. CASE MarkCalls(w)
      BY <3>1, CheckTypes DEF EscalationTypeOK, MarkCalls
    <3>2. CASE DmManagers(w) \/ GiveUpCustomer(w)
      BY <3>2 DEF EscalationTypeOK, DmManagers, GiveUpCustomer
    <3> QED
      BY <1>13, <3>1, <3>2
  <2>2. UNCHANGED <<now, key, marked, lost>>
    BY <1>13 DEF MarkCalls, DmManagers, GiveUpCustomer
  <2> QED
    BY <1>8, <2>1, <2>2
<1>14. CASE UNCHANGED escalationVars
  BY <1>0, <1>4, <1>14 DEF escalationVars
<1> QED
  BY <1>5, <1>6, <1>7, <1>9, <1>10, <1>11, <1>12, <1>13, <1>14 DEF EscalationNext, Check

\* Within the life of a key the reminders of a customer only become more
\* urgent, for any number of processes, however slow they are, however often
\* they are started again, and whatever fails, except for what overlapping
\* checks do not see of each other (missed_call_escalation.py:101-105,
\* :165-167).
THEOREM RemindersRise == EscalationSpec => TiersRise
<1>1. EscalationTypeOK /\ RiseInv => MoreUrgent
  <2> SUFFICES ASSUME EscalationTypeOK, RiseInv, NEW w \in Workers, worker[w].pc = "send",
                      NEW m \in worker[w].seen \ lost,
                      m.customer = worker[w].customer, now < m.at + KeyTTL
               PROVE  m.tier < worker[w].tier
    BY DEF MoreUrgent
  <2>1. m \in Messages
    BY CheckTypes
  <2>2. now \in Nat /\ m.at \in Nat
    BY <2>1 DEF EscalationTypeOK, Messages
  <2>3. ~Gone(m)
    BY <2>2 DEF Gone, Expired
  <2> QED
    BY <2>3 DEF RiseInv, SawLess
<1>2. EscalationTypeOK /\ RiseInv /\ [EscalationNext]_escalationVars => [LostUnseen]_escalationVars
  <2> SUFFICES ASSUME EscalationTypeOK, RiseInv, EscalationNext, NEW w \in Workers,
                      worker[w].pc = "mark", worker'[w].pc = "markcalls",
                      NEW m \in lost' \ lost, m \in worker[w].seen
               PROVE  now >= m.at + KeyTTL
    BY DEF LostUnseen
  <2>1. PICK v \in Workers : Mark(v)
    BY DEF EscalationNext, Tick, Ring, Miss, CallBack, Check, StartCheck, EndCheck, LookAt,
           AbortCheck, SendMessage, MarkCalls, DmManagers, GiveUpCustomer, Restart
  <2>2. v = w
    BY <2>1 DEF Mark, EscalationTypeOK
  <2>3. PICK new \in Messages : new = worker[w].message
    BY CheckTypes
  <2>4. m \in marked /\ m.customer = new.customer /\ m.tier > new.tier
    BY <2>1, <2>2, <2>3 DEF Mark
  <2>5. Gone(m) \/ m.tier < new.tier
    BY <2>3, <2>4 DEF RiseInv, SawLess
  <2>6. m.tier \in Nat /\ new.tier \in Nat
    BY <2>3, <2>4 DEF EscalationTypeOK, Messages
  <2> QED
    BY <2>4, <2>5, <2>6 DEF Gone, Expired
<1>3. EscalationTypeOK /\ [EscalationNext]_escalationVars => EscalationTypeOK'
  BY EscalationTypeNext
<1>4. EscalationTypeOK /\ RiseInv /\ [EscalationNext]_escalationVars
          => [MoreUrgent /\ LostUnseen]_escalationVars
  BY <1>1, <1>2
<1> QED
  BY <1>3, <1>4, EscalationTypeInit, RiseInit, RiseNext, PTL DEF EscalationSpec, TiersRise

-----------------------------------------------------------------------------
(* While nothing fails, customers are reminded in time.                    *)

\* A reminder of the customer of c since s says at least tier t.
Answered(c, t, s) ==
    \E m \in log : m.customer = Caller[c] /\ m.tier >= t /\ m.at >= s

\* A check of this tick must see to it that c has a reminder of tier t.
Ripe(c, t, s) ==
    /\ s < now /\ OnListSince(c, s) /\ FirstAlarm(c, s)
    /\ created[c] + Threshold[t] =< now /\ now =< created[c] + Cutoff

\* Checks end in the tick they began in; so do their reminders,
ChecksAreShort ==
    \A w \in Workers :
        /\ worker[w].pc # "idle" => worker[w].began = now
        /\ worker[w].pc \in {"mark", "markcalls", "dm"} =>
              worker[w].message \in log /\ worker[w].message.at = now

\* from which a key has its tier and its life.
KeysAreSent ==
    \A p \in Customers : key[p].tier > 0 =>
        \E m \in log :
            /\ m.customer = p /\ m.tier = key[p].tier
            /\ key[p].expires = m.at + KeyTTL

\* What a check has yet to look at, or is about to send.
Underway(w, c, t) ==
    \/ c \in worker[w].groups
    \/ worker[w].pc = "send" /\ worker[w].customer = Caller[c] /\ worker[w].tier >= t

ChecksSee ==
    \A w \in Workers, c \in CallIds, t \in Tiers, s \in Time :
        Ripe(c, t, s) =>
            /\ w \in checked => Answered(c, t, s)
            /\ worker[w].pc # "idle" => Answered(c, t, s) \/ Underway(w, c, t)

\* A process that wrote the key of tier 3 is about to tell the managers.
Telling(w, p) ==
    /\ worker[w].pc \in {"markcalls", "dm"}
    /\ worker[w].message.customer = p /\ worker[w].message.tier = 3

KeysAreTold ==
    \A p \in Customers : key[p].tier = 3 =>
        (\E m \in told : m.customer = p) \/ \E w \in Workers : Telling(w, p)

TimeInv ==
    faults = 0 => ChecksAreShort /\ KeysAreSent /\ ChecksSee /\ TiersInTime /\ KeysAreTold

TimeParts == ChecksAreShort /\ KeysAreSent /\ ChecksSee /\ TiersInTime /\ KeysAreTold

LEMMA TimeInit == EscalationInit => TimeInv
  BY DEF EscalationInit, TimeInv, ChecksAreShort, KeysAreSent, ChecksSee, TiersInTime, KeysAreTold, Idle,
         Ripe, OnListSince

\* The check of one process goes on, and writes no key.
LEMMA CheckGoesOn ==
    ASSUME EscalationTypeOK, TimeParts, faults = 0, NEW w \in Workers,
           UNCHANGED <<now, callRows, key>>, log \subseteq log', told \subseteq told',
           \A v \in Workers \ {w} : worker'[v] = worker[v], checked' \subseteq checked \union {w},
           worker'[w].pc # "idle" => worker'[w].began = now,
           worker'[w].pc \in {"mark", "markcalls", "dm"} =>
              worker'[w].message \in log' /\ worker'[w].message.at = now,
           \A c \in CallIds, t \in Tiers, s \in Time : Ripe(c, t, s) =>
              /\ w \in checked' => Answered(c, t, s)'
              /\ worker'[w].pc # "idle" => Answered(c, t, s)' \/ Underway(w, c, t)',
           \A p \in Customers : Telling(w, p) => Telling(w, p)' \/ \E m \in told' : m.customer = p
    PROVE  TimeParts'
<1>1. \A c \in CallIds, s \in Time :
          OnListSince(c, s)' = OnListSince(c, s) /\ (FirstAlarm(c, s)' => FirstAlarm(c, s))
  BY DEF OnListSince, FirstAlarm
<1>2. \A c \in CallIds, t \in Tiers, s \in Time : Answered(c, t, s) => Answered(c, t, s)'
  BY DEF Answered
<1>3. \A c \in CallIds, t \in Tiers, s \in Time : Ripe(c, t, s)' => Ripe(c, t, s)
  BY <1>1 DEF Ripe
<1>4. ChecksAreShort'
  BY DEF TimeParts, ChecksAreShort
<1>5. KeysAreSent'
  BY DEF TimeParts, KeysAreSent
<1>6. ChecksSee'
  <2> SUFFICES ASSUME NEW v \in Workers, NEW c \in CallIds, NEW t \in Tiers, NEW s \in Time, Ripe(c, t, s)'
               PROVE  /\ v \in checked' => Answered(c, t, s)'
                      /\ worker'[v].pc # "idle" => Answered(c, t, s)' \/ Underway(v, c, t)'
    BY DEF ChecksSee
  <2>1. Ripe(c, t, s)
    BY <1>3
  <2>2. CASE v = w
    BY <2>1, <2>2
  <2>3. CASE v # w
    <3>1. worker'[v] = worker[v] /\ (v \in checked' => v \in checked)
      BY <2>3
    <3>2. /\ v \in checked => Answered(c, t, s)
          /\ worker[v].pc # "idle" => Answered(c, t, s) \/ Underway(v, c, t)
      BY <2>1 DEF TimeParts, ChecksSee
    <3> QED
      BY <1>2, <3>1, <3>2 DEF Underway
  <2> QED
    BY <2>2, <2>3
<1>7. TiersInTime'
  BY <1>1, <1>2 DEF TimeParts, TiersInTime, Answered
<1>8. KeysAreTold'
  <2> SUFFICES ASSUME NEW p \in Customers, key[p].tier = 3
               PROVE  (\E m \in told' : m.customer = p) \/ \E v \in Workers : Telling(v, p)'
    BY DEF KeysAreTold
  <2>1. CASE \E m \in told : m.customer = p
    BY <2>1
  <2>2. ASSUME NEW v \in Workers, Telling(v, p)
        PROVE  (\E m \in told' : m.customer = p) \/ \E u \in Workers : Telling(u, p)'
    <3>1. CASE v = w
      BY <2>2, <3>1
    <3>2. CASE v # w
      BY <2>2, <3>2 DEF Telling
    <3> QED
      BY <3>1, <3>2
  <2> QED
    BY <2>1, <2>2 DEF TimeParts, KeysAreTold
<1> QED
  BY <1>4, <1>5, <1>6, <1>7, <1>8 DEF TimeParts

LEMMA StartInTime ==
    ASSUME EscalationTypeOK, TimeParts, faults = 0, NEW w \in Workers, StartCheck(w)
    PROVE  TimeParts'
<1>1. /\ worker[w] = Idle /\ worker'[w] = [pc |-> "next", began |-> now, groups |-> MissedCalls]
      /\ \A v \in Workers \ {w} : worker'[v] = worker[v]
      /\ UNCHANGED <<now, callRows, key, checked, log, told>>
  BY DEF StartCheck, EscalationTypeOK
<1>2. \A c \in CallIds, t \in Tiers, s \in Time : Ripe(c, t, s) => c \in MissedCalls
  BY DEF Ripe, MissedCalls, EscalationTypeOK, OnListSince
<1>3. \A c \in CallIds, t \in Tiers, s \in Time : Answered(c, t, s)' = Answered(c, t, s)
  BY <1>1 DEF Answered
<1>4. \A c \in CallIds, t \in Tiers, s \in Time : Ripe(c, t, s) /\ w \in checked => Answered(c, t, s)
  BY DEF TimeParts, ChecksSee
<1>5. \A p \in Customers : ~Telling(w, p)
  BY <1>1 DEF Telling, Idle
<1>6. \A c \in CallIds, t \in Tiers, s \in Time : Ripe(c, t, s) => Underway(w, c, t)'
  BY <1>1, <1>2 DEF Underway
<1> QED
  BY <1>1, <1>3, <1>4, <1>5, <1>6, CheckGoesOn

LEMMA EndInTime ==
    ASSUME EscalationTypeOK, TimeParts, faults = 0, NEW w \in Workers, EndCheck(w)
    PROVE  TimeParts'
<1>1. /\ worker[w].pc = "next" /\ worker[w].groups = {} /\ worker'[w].pc = "idle"
      /\ \A v \in Workers \ {w} : worker'[v] = worker[v]
      /\ checked' = checked \union {w}
      /\ UNCHANGED <<now, callRows, key, log, told>>
  BY DEF EndCheck, EscalationTypeOK, Idle
<1>2. \A c \in CallIds, t \in Tiers, s \in Time : Answered(c, t, s)' = Answered(c, t, s)
  BY <1>1 DEF Answered
<1>3. \A c \in CallIds, t \in Tiers, s \in Time : Ripe(c, t, s) => Answered(c, t, s)
  BY <1>1 DEF TimeParts, ChecksSee, Underway
<1>4. \A p \in Customers : ~Telling(w, p)
  BY <1>1 DEF Telling
<1> QED
  BY <1>1, <1>2, <1>3, <1>4, CheckGoesOn

\* A key that lives was written for a reminder since c is on the list.
LEMMA KeyAnswers ==
    ASSUME EscalationTypeOK, TimeParts, NEW c \in CallIds, NEW t \in Tiers, NEW s \in Time,
           NEW p, p = Caller[c], Ripe(c, t, s), SentTier(p) >= t
    PROVE  Answered(c, t, s)
<1>1. p \in Customers /\ key[p].expires \in Nat /\ key[p].tier \in 0 .. 3 /\ now \in Nat
  BY DEF Customers, EscalationTypeOK
<1>2. now < key[p].expires /\ key[p].tier >= t
  BY <1>1 DEF SentTier
<1>3. PICK m \in log : m.customer = p /\ m.tier = key[p].tier /\ key[p].expires = m.at + KeyTTL
  BY <1>1, <1>2 DEF TimeParts, KeysAreSent
<1>4. m.at \in Int
  BY DEF EscalationTypeOK, Messages
<1>5. m.at >= s
  BY <1>1, <1>2, <1>3, <1>4 DEF Ripe, FirstAlarm
<1> QED
  BY <1>2, <1>3, <1>5 DEF Answered

LEMMA LookInTime ==
    ASSUME EscalationTypeOK, TimeParts, faults = 0, NEW w \in Workers, LookAt(w)
    PROVE  TimeParts'
<1>1. worker[w] \in [pc: {"next"}, began: Time, groups: SUBSET CallIds] /\ worker[w].began = now
  BY CheckTypes DEF LookAt, TimeParts, ChecksAreShort
<1>2. PICK p \in {Caller[c] : c \in worker[w].groups} : Looks(w, p)
  BY DEF LookAt, Looks
<1>3. /\ \A v \in Workers \ {w} : worker'[v] = worker[v]
      /\ UNCHANGED <<now, callRows, key, checked, log, told>>
  BY <1>2 DEF LookAt, Looks, EscalationTypeOK
<1>4. PICK tier \in 0 .. 3 : tier = TierOf(w, p)
  BY DEF TierOf
<1>5. worker'[w] = IF Due(p, tier)
          THEN [pc |-> "send", began |-> worker[w].began, groups |-> Rest(w, p).groups,
                customer |-> p, tier |-> tier, seen |-> marked]
          ELSE Rest(w, p)
  BY <1>2, <1>4 DEF Looks, EscalationTypeOK
<1>6. Rest(w, p) = [pc |-> "next", began |-> now, groups |-> worker[w].groups \ Group(w, p)]
  BY <1>1 DEF Rest
<1>7. \A c \in CallIds, t \in Tiers, s \in Time : Answered(c, t, s)' = Answered(c, t, s)
  BY <1>3 DEF Answered
<1>8. \A c \in CallIds, t \in Tiers, s \in Time : Ripe(c, t, s) /\ w \in checked => Answered(c, t, s)
  BY DEF TimeParts, ChecksSee
<1>9. \A q \in Customers : ~Telling(w, q)
  BY <1>1 DEF Telling
<1>10. ASSUME NEW c \in CallIds, NEW t \in Tiers, NEW s \in Time, Ripe(c, t, s)
       PROVE  Answered(c, t, s) \/ Underway(w, c, t)'
  <2>1. Answered(c, t, s) \/ c \in worker[w].groups
    BY <1>1, <1>10 DEF TimeParts, ChecksSee, Underway
  <2>2. CASE c \in worker[w].groups /\ Caller[c] # p
    <3>1. c \in worker'[w].groups
      BY <1>5, <1>6, <2>2 DEF Group
    <3> QED
      BY <3>1 DEF Underway
  <2>3. CASE c \in worker[w].groups /\ Caller[c] = p
    <3>1. created[c] \in Int /\ now \in Int /\ created[c] + Threshold[t] =< now
      BY <1>10 DEF EscalationTypeOK, Ripe
    <3>2. c \in Group(w, p) /\ worker[w].began - created[c] >= Threshold[t]
      BY <1>1, <2>3, <3>1 DEF Group
    <3>3. Reached(w, p, t)
      BY <3>2 DEF Reached
    <3>4. tier >= t
      BY <1>4, <3>3 DEF TierOf
    <3>5. CASE Due(p, tier)
      <4>1. worker'[w].pc = "send" /\ worker'[w].customer = p /\ worker'[w].tier = tier
        BY <1>5, <3>5
      <4> QED
        BY <2>3, <3>4, <4>1 DEF Underway
    <3>6. CASE ~Due(p, tier)
      <4>1. SentTier(p) \in 0 .. 3
        BY <2>3 DEF SentTier, EscalationTypeOK
      <4>2. SentTier(p) >= t
        BY <3>4, <3>6, <4>1 DEF Due
      <4> QED
        BY <1>10, <2>3, <4>2, KeyAnswers
    <3> QED
      BY <3>5, <3>6
  <2> QED
    BY <2>1, <2>2, <2>3
<1>11. worker'[w].pc \in {"next", "send"} /\ worker'[w].began = now
  BY <1>1, <1>5, <1>6
<1> QED
  BY <1>3, <1>7, <1>8, <1>9, <1>10, <1>11, CheckGoesOn

LEMMA SendInTime ==
    ASSUME EscalationTypeOK, TimeParts, faults = 0, NEW w \in Workers, SendMessage(w)
    PROVE  TimeParts'
<1>1. worker[w] \in [pc: {"send"}, began: Time, groups: SUBSET CallIds,
                     customer: Customers, tier: Tiers, seen: SUBSET Messages]
      /\ worker[w].began = now
  BY CheckTypes DEF SendMessage, TimeParts, ChecksAreShort
<1>2. PICK new : new = Message(w)
  OBVIOUS
<1>3. new.customer = worker[w].customer /\ new.tier = worker[w].tier /\ new.at = now
  BY <1>2 DEF Message
<1>4. /\ worker'[w] = [pc |-> "mark", began |-> worker[w].began, groups |-> worker[w].groups,
                       message |-> new, seen |-> worker[w].seen]
      /\ \A v \in Workers \ {w} : worker'[v] = worker[v]
      /\ log' = log \union {new}
      /\ UNCHANGED <<now, callRows, key, checked, told>>
  BY <1>2 DEF SendMessage, EscalationTypeOK
<1>5. \A c \in CallIds, t \in Tiers, s \in Time : Answered(c, t, s) => Answered(c, t, s)'
  BY <1>4 DEF Answered
<1>6. \A c \in CallIds, t \in Tiers, s \in Time : Ripe(c, t, s) /\ w \in checked => Answered(c, t, s)
  BY DEF TimeParts, ChecksSee
<1>7. \A q \in Customers : ~Telling(w, q)
  BY <1>1 DEF Telling
<1>8. ASSUME NEW c \in CallIds, NEW t \in Tiers, NEW s \in Time, Ripe(c, t, s)
      PROVE  Answered(c, t, s)' \/ Underway(w, c, t)'
  <2>1. Answered(c, t, s) \/ Underway(w, c, t)
    BY <1>1, <1>8 DEF TimeParts, ChecksSee
  <2>2. CASE c \in worker[w].groups
    BY <1>4, <2>2 DEF Underway
  <2>3. CASE worker[w].customer = Caller[c] /\ worker[w].tier >= t
    <3>1. now >= s
      BY <1>8 DEF Ripe, EscalationTypeOK
    <3> QED
      BY <1>3, <1>4, <2>3, <3>1 DEF Answered
  <2> QED
    BY <1>5, <2>1, <2>2, <2>3 DEF Underway
<1> QED
  BY <1>1, <1>3, <1>4, <1>5, <1>6, <1>7, <1>8, CheckGoesOn

\* The check leaves a customer, or goes on with the keys of the calls.
LEMMA LeaveInTime ==
    ASSUME EscalationTypeOK, TimeParts, faults = 0, NEW w \in Workers, MarkCalls(w) \/ DmManagers(w)
    PROVE  TimeParts'
<1>1. worker[w] \in [pc: {"markcalls", "dm"}, began: Time, groups: SUBSET CallIds,
                     message: Messages]
  BY CheckTypes DEF MarkCalls, DmManagers
<1>2. PICK m \in Messages : m = worker[w].message
  BY <1>1
<1>3. worker[w].began = now /\ m \in log /\ m.at = now
  BY <1>1, <1>2 DEF TimeParts, ChecksAreShort
<1>4. /\ \A v \in Workers \ {w} : worker'[v] = worker[v]
      /\ UNCHANGED <<now, callRows, key, checked, log>> /\ told \subseteq told'
  BY DEF MarkCalls, DmManagers, EscalationTypeOK
<1>5. \/ /\ m.tier = 3 /\ worker[w].pc = "markcalls" /\ worker'[w].pc = "dm"
         /\ worker'[w].message = m
      \/ worker'[w].pc = "next" /\ (m.tier = 3 => m \in told')
  <2>1. CASE MarkCalls(w)
    <3>1. worker'[w] = IF m.tier = 3 THEN [worker[w] EXCEPT !.pc = "dm"]
                       ELSE [pc |-> "next", began |-> worker[w].began, groups |-> worker[w].groups]
      BY <1>2, <2>1 DEF MarkCalls, EscalationTypeOK
    <3>2. worker[w].pc = "markcalls"
      BY <2>1 DEF MarkCalls
    <3> QED
      BY <1>1, <1>2, <3>1, <3>2
  <2>2. CASE DmManagers(w)
    BY <1>2, <2>2 DEF DmManagers, EscalationTypeOK
  <2> QED
    BY <2>1, <2>2
<1>6. worker'[w].began = worker[w].began /\ worker'[w].groups = worker[w].groups
  BY <1>1 DEF MarkCalls, DmManagers, EscalationTypeOK
<1>7. \A c \in CallIds, t \in Tiers, s \in Time : Answered(c, t, s)' = Answered(c, t, s)
  BY <1>4 DEF Answered
<1>8. \A c \in CallIds, t \in Tiers, s \in Time : Ripe(c, t, s) /\ w \in checked => Answered(c, t, s)
  BY DEF TimeParts, ChecksSee
<1>9. \A c \in CallIds, t \in Tiers, s \in Time : Ripe(c, t, s) => Answered(c, t, s) \/ Underway(w, c, t)'
  <2>1. \A c \in CallIds, t \in Tiers, s \in Time : Ripe(c, t, s) => Answered(c, t, s) \/ c \in worker[w].groups
    BY <1>1 DEF TimeParts, ChecksSee, Underway
  <2> QED
    BY <1>6, <2>1 DEF Underway
<1>10. \A p \in Customers : Telling(w, p) => Telling(w, p)' \/ \E n \in told' : n.customer = p
  BY <1>2, <1>5 DEF Telling
<1> QED
  BY <1>2, <1>3, <1>4, <1>5, <1>6, <1>7, <1>8, <1>9, <1>10, CheckGoesOn

LEMMA MarkInTime ==
    ASSUME EscalationTypeOK, TimeParts, faults = 0, NEW w \in Workers, Mark(w)
    PROVE  TimeParts'
<1>1. worker[w] \in [pc: {"mark"}, began: Time, groups: SUBSET CallIds, message: Messages,
                     seen: SUBSET Messages]
  BY CheckTypes DEF Mark
<1>2. PICK new \in Messages : new = worker[w].message
  BY <1>1
<1>3. worker[w].began = now /\ new \in log /\ new.at = now
  BY <1>1, <1>2 DEF TimeParts, ChecksAreShort
<1>4. /\ new.customer \in Customers /\ UNCHANGED <<now, callRows, checked, log, told>>
      /\ key' = [key EXCEPT ![new.customer] = [tier |-> new.tier, expires |-> now + KeyTTL]]
      /\ \A v \in Workers \ {w} : worker'[v] = worker[v]
      /\ worker'[w] = [pc |-> "markcalls", began |-> worker[w].began, groups |-> worker[w].groups,
                       message |-> new]
  BY <1>2 DEF Mark, Messages, EscalationTypeOK
<1>5. /\ worker'[w].pc = "markcalls" /\ worker'[w].began = worker[w].began
      /\ worker'[w].groups = worker[w].groups /\ worker'[w].message = new
  BY <1>1, <1>2, <1>4
<1>6. /\ key'[new.customer].tier = new.tier /\ key'[new.customer].expires = new.at + KeyTTL
      /\ \A p \in Customers : p # new.customer => key'[p] = key[p]
  BY <1>3, <1>4 DEF EscalationTypeOK
<1>7. ChecksAreShort'
  BY <1>3, <1>4, <1>5 DEF TimeParts, ChecksAreShort
<1>8. KeysAreSent'
  BY <1>3, <1>4, <1>6 DEF TimeParts, KeysAreSent
<1>9. ChecksSee'
  <2>1. \A c \in CallIds, t \in Tiers, s \in Time : Ripe(c, t, s)' = Ripe(c, t, s) /\ Answered(c, t, s)' = Answered(c, t, s)
    BY <1>4 DEF Ripe, OnListSince, FirstAlarm, Answered
  <2>2. \A v \in Workers, c \in CallIds, t \in Tiers, s \in Time :
            /\ Underway(v, c, t) => Underway(v, c, t)'
            /\ worker'[v].pc # "idle" => worker[v].pc # "idle"
    BY <1>1, <1>4, <1>5 DEF Underway
  <2> QED
    BY <1>4, <2>1, <2>2 DEF TimeParts, ChecksSee
<1>10. TiersInTime'
  BY <1>4 DEF TimeParts, TiersInTime, OnListSince, FirstAlarm
<1>11. KeysAreTold'
  <2> SUFFICES ASSUME NEW p \in Customers, key'[p].tier = 3
               PROVE  (\E m \in told : m.customer = p) \/ \E v \in Workers : Telling(v, p)'
    BY <1>4 DEF KeysAreTold
  <2>1. CASE p = new.customer
    BY <1>5, <1>6, <2>1 DEF Telling
  <2>2. CASE p # new.customer
    <3>1. (\E m \in told : m.customer = p) \/ \E v \in Workers : Telling(v, p)
      BY <1>6, <2>2 DEF TimeParts, KeysAreTold
    <3>2. \A v \in Workers : Telling(v, p) => Telling(v, p)'
      BY <1>1, <1>4 DEF Telling
    <3> QED
      BY <3>1, <3>2
  <2> QED
    BY <2>1, <2>2
<1> QED
  BY <1>7, <1>8, <1>9, <1>10, <1>11 DEF TimeParts

\* Time passes once every check is over.
LEMMA TickInTime ==
    ASSUME EscalationTypeOK, TimeParts, faults = 0, Workers # {}, Prompt, Tick
    PROVE  TimeParts'
<1>1. /\ now \in Nat /\ now' = now + 1 /\ checked' = {} /\ checked = Workers
      /\ UNCHANGED <<created, needsCallback, resolved, key, worker, log, told, faults>>
      /\ waited' = waited \union {<<c, now + 1>> : c \in needsCallback}
      /\ \A w \in Workers : worker[w].pc = "idle"
  BY DEF Tick, Prompt, EscalationTypeOK, Idle
<1>2. ChecksAreShort' /\ ChecksSee'
  BY <1>1 DEF ChecksAreShort, ChecksSee
<1>3. KeysAreSent'
  BY <1>1 DEF TimeParts, KeysAreSent
<1>4. KeysAreTold'
  BY <1>1 DEF TimeParts, KeysAreTold, Telling
<1>5. TiersInTime'
  <2> SUFFICES ASSUME NEW c \in CallIds, NEW t \in Tiers, NEW s \in Time,
                      OnListSince(c, s)', FirstAlarm(c, s)', now' > s + 1,
                      now' > created[c] + Threshold[t], now' =< created[c] + Cutoff
               PROVE  Answered(c, t, s)
    BY <1>1 DEF TiersInTime, Answered
  <2>1. created[c] \in Int
    BY DEF EscalationTypeOK
  <2>2. s < now /\ created[c] + Threshold[t] =< now /\ now =< created[c] + Cutoff
    BY <1>1, <2>1
  <2>3. OnListSince(c, s) /\ FirstAlarm(c, s)
    BY <1>1, <2>2 DEF OnListSince, FirstAlarm
  <2>4. Ripe(c, t, s)
    BY <2>2, <2>3 DEF Ripe
  <2> QED
    BY <1>1, <2>4 DEF TimeParts, ChecksSee
<1> QED
  BY <1>2, <1>3, <1>4, <1>5 DEF TimeParts

\* A call that comes onto the list was not on it all the time before, and one
\* that is called back needs no reminder.
LEMMA ListGrowsNow ==
    ASSUME EscalationTypeOK, ListInv, NEW c \in CallIds, NEW s \in Time, s < now, OnListSince(c, s)',
           \/ \E d \in CallIds : Ring(d) \/ Miss(d)
           \/ \E p \in Customers : CallBack(p)
           \/ UNCHANGED escalationVars
    PROVE  OnListSince(c, s) /\ created[c] # Never /\ created'[c] = created[c]
<1>1. CASE \E d \in CallIds : Ring(d) \/ Miss(d)
  <2>1. PICK d \in CallIds : Ring(d) \/ Miss(d)
    BY <1>1
  <2>2. /\ UNCHANGED <<now, resolved>> /\ created' = [created EXCEPT ![d] = IF @ = Never THEN now ELSE @]
        /\ needsCallback' \subseteq needsCallback \union {d}
        /\ waited' \subseteq waited \union {<<d, now>>}
    BY <2>1 DEF Ring, Miss, EscalationTypeOK
  <2>3. <<c, s>> \in waited /\ resolved[c] < s
    BY <2>2 DEF OnListSince, EscalationTypeOK
  <2>4. c \in needsCallback
    BY <2>3 DEF ListInv, EscalationTypeOK
  <2>5. created[c] # Never
    BY <2>4 DEF ListInv
  <2> QED
    BY <2>2, <2>3, <2>4, <2>5 DEF OnListSince, EscalationTypeOK
<1>2. CASE \E p \in Customers : CallBack(p)
  <2>1. PICK p \in Customers : CallBack(p)
    BY <1>2
  <2>2. /\ UNCHANGED <<created, waited>> /\ needsCallback' = needsCallback \ CallsOf(p)
        /\ c \notin CallsOf(p) => resolved'[c] = resolved[c]
    BY <2>1 DEF CallBack
  <2>3. c \in needsCallback /\ c \notin CallsOf(p)
    BY <2>2 DEF OnListSince
  <2> QED
    BY <2>2, <2>3 DEF OnListSince, ListInv
<1>3. CASE UNCHANGED escalationVars
  BY <1>3 DEF escalationVars, OnListSince, ListInv
<1> QED
  BY <1>1, <1>2, <1>3

LEMMA CallsInTime ==
    ASSUME EscalationTypeOK, ListInv, TimeParts, faults = 0,
           \/ \E c \in CallIds : Ring(c) \/ Miss(c)
           \/ \E p \in Customers : CallBack(p)
           \/ UNCHANGED escalationVars
    PROVE  TimeParts'
<1>1. UNCHANGED <<now, key, worker, checked, log, told, faults>>
  BY DEF Ring, Miss, CallBack, escalationVars
<1>2. \A c \in CallIds, s \in Time :
          s < now /\ OnListSince(c, s)' => OnListSince(c, s) /\ created'[c] = created[c]
  BY ListGrowsNow
<1>3. \A c \in CallIds, t \in Tiers, s \in Time :
          /\ FirstAlarm(c, s)' = FirstAlarm(c, s)
          /\ Answered(c, t, s)' = Answered(c, t, s)
  BY <1>1 DEF FirstAlarm, Answered
<1>4. ChecksAreShort' /\ KeysAreSent' /\ KeysAreTold'
  BY <1>1 DEF TimeParts, ChecksAreShort, KeysAreSent, KeysAreTold, Telling
<1>5. ChecksSee'
  <2>1. \A c \in CallIds, t \in Tiers, s \in Time : Ripe(c, t, s)' => Ripe(c, t, s)
    BY <1>1, <1>2, <1>3 DEF Ripe
  <2>2. \A w \in Workers, c \in CallIds, t \in Tiers : Underway(w, c, t)' = Underway(w, c, t)
    BY <1>1 DEF Underway
  <2> QED
    BY <1>1, <1>3, <2>1, <2>2 DEF TimeParts, ChecksSee
<1>6. TiersInTime'
  <2> SUFFICES ASSUME NEW c \in CallIds, NEW t \in Tiers, NEW s \in Time,
                      OnListSince(c, s)', FirstAlarm(c, s)', now > s + 1,
                      now > created'[c] + Threshold[t], now =< created'[c] + Cutoff
               PROVE  Answered(c, t, s)'
    BY <1>1 DEF TiersInTime, Answered
  <2>1. s < now
    BY DEF EscalationTypeOK
  <2> QED
    BY <1>2, <1>3, <2>1 DEF TimeParts, TiersInTime, Answered
<1> QED
  BY <1>4, <1>5, <1>6 DEF TimeParts

LEMMA TimeNext ==
    ASSUME Workers # {}
    PROVE  EscalationTypeOK /\ ListInv /\ TimeInv /\ [EscalationNext]_escalationVars => TimeInv'
<1> SUFFICES ASSUME EscalationTypeOK, ListInv, TimeInv, [EscalationNext]_escalationVars, faults' = 0
             PROVE  TimeParts'
  BY DEF TimeInv, TimeParts
<1>1. faults = 0 /\ ~Fault
  <2>1. faults \in Nat /\ faults' = 0
    BY DEF EscalationTypeOK
  <2>2. ASSUME NEW w \in Workers, Check(w) PROVE faults' = faults \/ faults' = faults + 1
    BY <2>2 DEF Fault, Check, StartCheck, EndCheck, LookAt, AbortCheck, SendMessage, Mark,
                MarkCalls, DmManagers, GiveUpCustomer, Restart
  <2>3. faults' = faults \/ faults' = faults + 1
    BY <2>2 DEF Fault, EscalationNext, Tick, Ring, Miss, CallBack, escalationVars
  <2>4. faults = 0
    BY <2>1, <2>3
  <2> QED
    BY <2>1, <2>4 DEF Fault
<1>2. TimeParts
  BY <1>1 DEF TimeInv, TimeParts
<1>3. CASE Tick
  BY <1>1, <1>2, <1>3, TickInTime DEF Tick
<1>4. CASE \/ \E c \in CallIds : Ring(c) \/ Miss(c)
           \/ \E p \in Customers : CallBack(p)
           \/ UNCHANGED escalationVars
  BY <1>1, <1>2, <1>4, CallsInTime
<1>5. ASSUME NEW w \in Workers, Check(w) PROVE TimeParts'
  BY <1>1, <1>2, <1>5, StartInTime, EndInTime, LookInTime, SendInTime, LeaveInTime, MarkInTime
     DEF Check, AbortCheck, GiveUpCustomer, Restart
<1> QED
  BY <1>3, <1>4, <1>5 DEF EscalationNext

\* While nothing fails and checks are prompt, however many processes check at
\* a time, a call that comes onto the list as the first of its customer, also
\* one that was called back before, is escalated to each tier within one tick
\* of its threshold, and managers are told of whoever reached the last
\* (missed_call_escalation.py:8, :91, :179-185).
THEOREM CustomersAreRemindedInTime ==
    ASSUME Workers # {}
    PROVE  EscalationSpec => []EscalatedInTime
<1>1. EscalationTypeOK /\ TimeInv => EscalatedInTime
  <2> SUFFICES ASSUME EscalationTypeOK, TimeInv, faults = 0 PROVE EscalatedInTime
    BY DEF EscalatedInTime, TiersInTime, ManagersTold
  <2>1. TiersInTime
    BY DEF TimeInv
  <2>2. ASSUME NEW p \in Customers, SentTier(p) = 3, \A w \in Workers : worker[w] = Idle
        PROVE  \E m \in told : m.customer = p
    <3>1. key[p].tier = 3
      BY <2>2 DEF SentTier
    <3>2. \A w \in Workers : ~Telling(w, p)
      BY <2>2 DEF Telling, Idle
    <3> QED
      BY <3>1, <3>2 DEF TimeInv, KeysAreTold
  <2> QED
    BY <2>1, <2>2 DEF EscalatedInTime, ManagersTold
<1>2. EscalationTypeOK /\ [EscalationNext]_escalationVars => EscalationTypeOK'
  BY EscalationTypeNext
<1> QED
  BY <1>1, <1>2, EscalationTypeInit, ListInit, ListNext, TimeInit, TimeNext, PTL DEF EscalationSpec

=============================================================================
