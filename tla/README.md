# S1P backend: a TLA+ model of its concurrent core

S1P is a CRM for call centres: a FastAPI service with a PostgreSQL database, Redis, a Telegram
bot and an IP telephony provider (Sipuni). It runs as several uvicorn processes (`src/Dockerfile:67`),
each of them an event loop on which requests, background tasks and schedulers interleave at every
`await`. Nothing in the code locks rows on purpose; what keeps it correct are single SQL statements,
unique indexes, the object mapper's habit of writing only changed columns, and order. Those are
what a unit test, which runs one request at a time, does not exercise, and what is modelled here.

Contents: 1 inventory, 2 how the code is modelled, 3 modules, 4 runs and bounds, 5 findings,
6 proofs, 7 what is only model-checked, 8 what is not modelled, 9 plan.

## 1. Inventory

| Component (code under `src/source/`) | State it keeps | Operations | Hard behaviour | What makes it correct |
|---|---|---|---|---|
| Telephony webhooks (`api/v1/routers/company/webhooks.py`, `utils/services/telephony/sipuni_provider.py`) | rows of `call_events` | `handle_webhook`: parse, auto-resolve callbacks, find, insert, refetch, update, schedule notifications | webhooks repeated, reordered and served at once; rollback after a lost insert; errors answered with 200 | the row forgets nothing, moves only forward, a missed call stays on the list until called back, only answered calls are billed |
| Call endpoints (`company/calls/sipuni.py`) | the same rows, `operator` | place a call, `_upsert_call_event` | the first webhook races with the endpoint; death between call and row | a placed call is recorded and attributed |
| Orphan cleanup (`utils/tasks/orphan_call_cleanup.py`) | the same rows | one UPDATE each two minutes | late webhooks | gives up only silent calls, and all of them |
| Missed-call escalation (`utils/tasks/missed_call_escalation.py`) | Redis keys per customer and per call, Telegram messages | `check_missed_calls`, `_dm_managers` | works on rows read at the start; four processes that share a key; calls missed again; failures between message and key | reminders are due, rise, come in time, reach the managers |
| Contracts (`owner/contracts.py`, `utils/contract_enforcement.py`) | rows of `contracts` | create, update, renew, cancel; the access check | read then write; stale rows; two statements of the check | one active contract; a cancellation stands; nobody refused without reason |
| Invitations and registration (`company/users.py`, `owner/companies.py`, `auth/telegram_auth.py`, `company/telegram_webhook.py`) | `invite_tokens`, `telegram_auth_challenges`, `users` | invite, revoke, challenge, connect, poll, register, delete user, expiry | check then act over four tables | users distinct, an invite used once, a revocation effective |
| Leads and deals (`company/leads.py`, `company/deals.py`, `db/mixins/object_manager.py`) | rows of `leads`, `deals` | create, update, convert, win, lose, delete (soft, hard) | stale objects; two commits in one request | deletions stand, events report facts, an error means nothing happened |
| Outbound webhooks (`utils/services/webhook.py`, `company/outbound_webhooks.py`) | endpoints, deliveries, tasks | `fire_webhook_event`, `_process_delivery`, switch, delete | record and task in different sessions | an event of a committed change is delivered |
| Login (`auth/telegram_auth.py`, `company/telegram_webhook.py`, `owner/auth.py`, `utils/services/lockout.py`) | challenges with code, attempts and expiry; Redis limits, counters and locks | open the link, send the code, wait, verify; password login, first password | two openings of one link; attempts and failures counted by overlapping requests; code stored before it is sent | a code logs in the user it was sent to, once; failures lock the account; the page is told the truth |
| Access (`db/mixins/auth_manager.py`, `utils/managers/token_manager.py`, `utils/permissions.py`, `company/users.py`, `company/permission_groups.py`, `company/api_keys.py`, `owner/companies.py`, `auth/telegram_miniapp.py`) | `users`, `permission_groups`, `api_keys`, `companies`, tokens | the gate of every request; update, activate, exclude, delete users; groups; keys; companies, impersonation | rows loaded before an exclusion and saved after it; a group deleted in two statements, and invites that name it; count then insert | the excluded stay out, a group's members leave it with its deletion, keys stay bounded |
| Contacts, tasks, notes, lists (`company/contacts.py`, `tasks.py`, `notes.py`, `leads.py`, `deals.py`, `calls_enhanced.py`, `public/*.py`) | their tables | create, bulk create, update, delete, the bot's buttons; pages and cursors | look then insert; rows come and go between two pages | one contact per email; a reader to the end has seen what stood all the while |
| Custom fields (`company/custom_fields.py`) | `custom_field_definitions` | create, update, delete, reorder | a transaction of many updates, refused or deadlocked half way | a reorder happens as a whole or not at all |
| Analytics and cache (`company/analytics.py`, `owner/analytics.py`, `analytics_service.py`, `cache_service.py`) | cached reports with a lifetime | six reports, clearing of a company and of the owner | counted statement by statement while rows arrive; keys that leave out what the report depends on | a report is of the companies, person and period asked for, and not older than its lifetime; a cleared one is gone |
| Telegram configuration (`company/telegram.py`, `pyrogram_service.py`) | one row of `telegram_configs` per company | setup in the background, manual setup, update, delete | filters merged into a stale row; a setup that dies | filters are the last asked for; a setup underway ends |
| Telegram notifications (`telegram_service.py`) | grouping slots in Redis, messages, private messages | notice of a call, a missed call, a lead, a deal; recording | read slot, edit, store; keys that name a message but no chat; answers that come too late | counts are right, a call is announced once |
| Daily digest (`utils/tasks/telegram_digest.py`) | a lock per day in Redis, the pinned message | one pass a day over all companies | four processes, Redis down, one session for all companies | one digest a day, one pinned, nobody forgotten |
| HTTP pool, providers, setup wizard, email, avatars, wording, schemas, startup | none of their own to speak of | I/O | - | - |

How they interact. The provider calls the webhook handler; the handler commits the row and only
then spawns tasks for Telegram and for outbound webhooks. The call endpoints and the orphan cleanup
write the same rows without knowing of the handler. The escalation reads what the handler left
(`needs_callback`, `callback_at`) and keeps its own memory in Redis. Every authenticated request
passes the contract check. Invitations are made by the owner's and the company's routers, connected
by the bot, and used by the registration. Leads and deals send events through the session of
their request. The login and the registration share the challenge and the bot; what they issue, a token,
is what the gate admits. The configuration's row is written by its requests, read by every notice and
read and written by the digest. Reports count the rows that the records' requests make.

`PROJECT.json` lists every component with its status and every hazard with its line and the
properties that watch it.

## 2. How the code is modelled

* **A step is one SQL statement, one commit, one Redis or Telegram call.** Between two of them every
  other actor may move. PostgreSQL runs at READ COMMITTED (the driver's default; nothing in the code
  sets another level): a statement sees what was committed before it. Statements that cannot be told
  apart from their neighbours (two reads of things nobody changes) are one step.
* **What the handler read is kept in its record** (`seen` in CallEvents, `loaded` and `set` in
  Contracts and Crm): the later write uses that copy, not the current row. The object mapper writes
  the columns whose value differs from the loaded one; the models write just these.
* **Uncommitted changes** are visible where they matter: the auto-resolve holds row locks from its
  UPDATE to the commit or rollback (`resolves`), the delivery record of an event lives in its
  request's transaction (`delivery = "flushed"`).
* **External parties** (provider, Telegram, Redis, clock) take every step they may take: the provider
  repeats and reorders webhooks, Telegram and Redis fail, processes die.
* **Data** is abstracted to what decides something: a call has a customer, not a phone number; a
  timestamp is present or absent, or a tick; an amount does not occur.
* **History variables** (`scheduled` in CallEvents; `log`, `told`, `waited`, `marked` and `lost` in Escalation; `overlapped`
  and `reactivated` in Contracts; `staged`, `told`, `wrote` and `rerouted` in Crm; `late` in Access; `met`, `strays` and
  `faulty` in Notifications; those commented so in the other modules) record what happened so that
  properties can speak of it. No guard reads them.

## 3. Modules

**CallEvents** is the life of `call_events`. `line` and `network` are Sipuni; `calls` the table;
`handler` the requests in progress, with the event, the row they read and the rows they locked;
`request` the endpoint that placed a call; `stale` the rows older than five minutes. `Receive` and
`ReceiveAnswered` are the parsing and the auto-resolve up to the SELECT; `Lookup`, `Insert`,
`InsertConflict`, `Refetch`, `SkipDuplicate` and `Update` are the rest of `handle_webhook` and
`_update_existing_call` in order; `HandlerError` is its `except Exception`; `MakeCall` and `Upsert*` are
the endpoints; `CleanupOrphanCalls` the task; `Crash` the process. CHANUNAVAIL stands for
CONGESTION, NOANSWER for BUSY and CANCEL: the code treats them alike.

**CallRecord** is the abstract promise of one row: absent, ringing, over, and never back. CallEvents
implements it (`RecordSpec`), for the calls that only webhooks report: a call placed through the API
starts without a state, and for those the promise is not true (section 5).

**Escalation** has a clock. A webhook reports that a call was missed (`Miss`): with the call's first webhook or
after it (`Ring`), and again when the call has been called back, for a repeated hang-up writes `needs_callback` anew and
leaves `callback_at` and `created_at` as they were. A process's check reads the waiting calls (`StartCheck`), takes the
customers one by one, skips those whose key says so, sends the message, writes the key, tells the
managers. Any number of processes do so with the same keys. `Fault` counts what failed or was late. Keys expire by
comparison with `now`.

**Contracts** is one company's contracts, with requests that load a row, assign and save. `overlapped`
and `reactivated` say which histories a property excludes.

**Registration** is the tables `invite_tokens`, `telegram_auth_challenges` and `users`; a request is a
sequence of reads and one commit, at which the two unique indexes of `users` and the number of rows an
UPDATE or DELETE matched decide.

**Crm** is leads and deals through the object mapper: `Save` commits the changed columns, `Refresh` reads
the row back, `Fire`, `Flush` and `Close` are `fire_webhook_event` and the end of the session, `Deliver` is the
delivery task. Leads and deals share the table of the model; `lead_id` links them.

**Login** has two logins that share `lockout.py`. A one-time code: `CreateChallenge`, the bot's
`SendStart` to the message, the page's poll (`ChallengeStatus`), and the verification, whose read of the row,
check of the lock, count of attempts, success or failure are steps of their own. A password: the same
without a challenge. Redis keys are values with the time they expire at; `Count`, the lifetime, the lock and the
reset are separate calls, between which a request may break off.

**Access** is what happens to a token afterwards. `SendRequest`, `ReadGroup` and `CheckContract` are the gate, in the
order of `AuthenticationManagerMixin.current`; `Load` and `Save` are an update of a user with the columns that it
changes; `Nullify` and `DeleteGroup` are the two statements of the one transaction that deletes a group. `Register` gives a new
user the group of his invite, which the deletion of the group does not touch. The owner's operations on the
company, which run on another router, are atomic and surround the requests.

**TelegramConfig**, **Notifications** and **Digest** are composed by **Telegram**: they meet in the row of the company. A
setup is a request that marks the row and a background task (`making`, `made`, `failed`, ...) that outlives it.
A notice reads the row, then the slot of its phone, edits or sends, stores the slot, and writes to members. Messages are
numbered by their chat; a slot holds a number and no chat, and `EditPost` edits the message of that number in the chat that the
company has now. What Telegram did and answered too late is a branch of each call. The
digest's pass works on rows it loaded at its start, in one session for all companies.

**Records** is one table for contacts, tasks, notes, calls, leads and deals: a row has a kind, a company, a place in its
list, an owner and an email. `Requests` are the handlers, `ReadLists` the readers: a page and a count at a time, or by
cursor. **Reports** extends it with the six reports: a request walks through the plan of its report, one
statement at a time, each figure being the set of rows counted; then stores it under `Key`. Which kinds are counted of a company
(`Counted`) and of all companies (`CountedOfAll`), and in which order, are constants. **Fields** is the definitions of
one kind of record with the row locks of a reorder. **Workspace** composes the three.

The `MC*` modules give the constants values. The `*Proofs` modules hold the theorems: CallProofs those of CallEvents, CallRecord and
Escalation, TelegramProofs and WorkspaceProofs those of the modules that Telegram and Workspace compose.

## 4. Runs and bounds

| Run | Instance | Shows |
|---|---|---|
| `calls_inbound` | one inbound call, two handlers, all kinds of hang-ups, transfers, any order, any repetition, crashes | `MissedIsTracked`, `OneOutcome`, `HangupKept`; CallRecord is implemented |
| `calls_callback` | an inbound and an outbound call of one customer, placed by the API or not, two handlers | `CallbackWasMade`, `MadeCallOwned`, `OrphanMeansSilent` |
| `calls_live` | an inbound call that was missed and whose hang-up is repeated, an outbound call to its customer, two handlers, fairness | `HandlersFinish`, `CallsSettle` |
| `escalation` | two calls of one customer, two processes, two reports of a missed call, 4 ticks, thresholds 0, 1, 2, cutoff 3, key life 4, one fault | `AlarmsAreDue`, `TiersRise`, `EscalatedInTime` |
| `contracts` | two contracts, five requests of any kind | `OneActive`, `RefusedForAReason`, `CancelStands` |
| `registration` | two invites, challenges, accounts and phones, three requests, one seat | `DistinctUsers`, `UsedOnceAlone`, `RevocationHolds` |
| `crm` | a lead, a deal, four requests of any kind, an endpoint | `EventsReportFacts`, `ErrorsNeedRemovals`, `DeletionStands` |
| `login` | one challenge, two users, two openings and two verifications, or an owner and three passwords | `LoginIsTheirs`, `ChallengeSpent`, `FailuresLock`, `CodesAreSent` |
| `access` | a user, the owner's shadow user, one group, invites with and without it, two keys of which one may be active, three requests | `ExcludedStaysOut`, `GroupsInUse`, `KeysBounded` |
| `telegram` | two companies, two groups, two requests; three notices of one phone, beside a setup that moves them to another chat; three message numbers a chat; two days of two processes' digests | `FiltersKept`, `CreatingIsUnderway`, `DigestOnce`, `OnePinned`, `NoneForgotten`, `CountsTrue`, `AnnouncedOnce` |
| `workspace` | three rows, three requests and a reader; three report requests that count calls, and of all companies deals as well, while both arrive, two days; two fields, four requests | `EmailsUnique`, `WalkComplete`, `AnswersTheQuestion`, `ClearedIsFresh`, `ReorderWhole` |
| `find_lost_events` | the smallest instance of Crm | the finding of section 5 |

Why these bounds are enough to be interesting. *Two* handlers are what a race needs: each hazard of the
webhook handler is one request overtaken by another one, and the overtaking one may be repeated
without limit because the network keeps every webhook when `Redelivers`. One inbound and one
outbound call of one customer are what the auto-resolve relates. The durations of `MCEscalation` keep the
order of the real ones (5, 15 and 30 minutes, two hours, three hours), with one tick between
neighbours, so that every combination of tier, cutoff and key occurs, the end of a key's life in the last tick. Two reports are two calls
missed by one customer, or one that is missed, called back and missed again. `Tick` past a process that has not run
its check is a fault: one fault is a late check, or a failure between the two processes' turns at the key. Five requests on two
contracts contain create-cancel-create-renew beside an access check. Three requests allow two
registrations beside an invitation or a revocation. Four requests on a deal contain a creation, two
overlapping changes and a deletion. In `login`, two openings and two verifications are what each race needs, and three passwords exceed the threshold of two;
codes and passwords share no state, so that a run looks at one kind at a time (`CodesOrPasswords`). In `access`, three requests
allow an exclusion and an activation beside an update that loaded the row before both, or an assignment between the
two statements of a group's deletion beside another change.

Requests and handlers are symmetric where a run checks no liveness property and numbers do not order
them.

`telegram` and `workspace` look at one part at a time, as far as the parts meet in little. `OnePartAtATime` leaves beside the
messages, or the digests, one request on the row they read; two requests are alone. Two notices run beside a setup with every
failure and in every order; a third, which is what it takes to lose a message of the new chat to a number of the old one, runs
beside a setup when nothing fails and the tasks follow each other. `MCSpec` of MCWorkspace
numbers the requests and sends them in turn (`InTurn`), which loses nothing as any of them may be any request, and lets records
and readers, reports beside arriving rows, and fields run apart; `Bounds` limits the rows that stand beside several
requests. Durations keep their order there, too: a period is a day or more, the short lifetime is over within the tick, the medium one after the next,
and a day has two ticks, so that a report is counted across midnight and given again after it.

No run checks deadlock (`CHECK_DEADLOCK FALSE`): each of the systems may really stop, when the provider
sends nothing, the clock has reached `MaxTime`, or every request was answered. Requests that wait for each other are
excluded by `HandlersFinish` instead.

Bounds named in the modules: `MaxTime` and `MaxFaults` (Escalation), `MaxTime`, `MaxInFlight` and `MaxRequests` (Login),
`MaxTime` (Reports), `MaxRows` (TelegramConfig), `MaxDay` (Digest), and the sets of calls, handlers, requests and rows. `MaxSeats`,
`MaxKeys`, `MaxFields`, `MaxAttempts` and `Threshold` are parameters of the code rather than bounds.

**Fairness.** Only `calls_live` uses it: `Fairness` of CallEvents, from a state in which a call was missed and recorded by
its hang-up while a repetition of that is on its way (`MCMissedSpec`; a state that `Spec` reaches with `Redelivers`). The end of the outbound call then locks the row
of the missed one, and the handler of the repeated hang-up waits for it. A webhook that waits with its first statement
(`ReceiveAnswered`) holds no lock. A webhook is otherwise delivered once there:
if the provider repeated the end of outbound calls for ever, the row might be locked whenever the waiting handler's turn
came, and weak fairness would not give it the lock; PostgreSQL's queue would. Weak fairness of a handler's
own steps: the event loop resumes every coroutine whose statement was answered, and PostgreSQL
grants a row lock when its holder ends. Weak fairness of the endpoint's steps, likewise, and of the
cleanup, whose scheduler wakes up every two minutes (it is started at the end of a successful
registration of the bot, `src/main.py:305`; the property assumes that it was). Nothing forces the provider
to go on, the network to deliver, or a process to crash.

## 5. Findings

`find_lost_events` checks `EventDelivered`: `fire_webhook_event` flushes the delivery record into the session of
the request, nobody commits it, and the task, in a session of its own, finds nothing: no event is
ever posted. The docstring promises that it "dispatches delivery tasks" and the README that events are pushed to
external systems. `NoEventIsPosted` proves it for every instance.

Sentences of the repository that do not hold either and are stated in the modules but not run. To see a counterexample put one as the
only property into a copy of the module's cfg; `CallbackResolvedByCall` wants `FairSpec`, one handler and no symmetry in
`MCCallEventsCallback.cfg`, `OutboundIsPrivate` an outbound missed call in `MCThings`. They are not runs of their own because the
runs go to what the system does keep.

* `CallbackResolvedByCall` (CallEvents, under `FairSpec`). The auto-resolve runs before the INSERT in one
  transaction; when the endpoint that placed the call (or another webhook of it) inserts first, `session.rollback()`
  (`webhooks.py:327-333`) undoes it, and the update path does not run it again; a statement that fails does the same. The customer was
  called back and stays on the list.
* `EveryCallEscalated` (Escalation). The key of a customer lives three hours and nothing clears it
  when the customer is called back: the next missed call, or the same one missed again, is not escalated up to the stored tier.
* `NeverRepeated` (Escalation, with two processes). "So we don't spam the same notification repeatedly"
  (`missed_call_escalation.py:31-32`): two processes that both look at the key before either writes it send the same reminder, and the
  slower one may put a less urgent tier in the place of a more urgent one. `TiersRise` is what holds of any number of processes.
* `DeletedGroupsAreEmpty` (Access). "Nullifies permission_group_id on affected users before deleting" (`permission_groups.py:197`):
  users only. An invite made with the group, or an assignment that found it before, gives a user a deleted group, whose
  permissions still count. `GroupsInUse` is what holds of the members that the deletion could see.
* `OneAtATime` (Contracts). Renewing a cancelled contract gives a company two active ones, after
  which `get_active_contract` raises and every user of the company is answered 500.
* `InviteOnce` (Registration). Two registrations with different phones read the same invite unused.
* `DashboardCleared` (Reports). Clearing a company's cache leaves its dashboards, whose keys hold the id of a user.
* `OutboundIsPrivate` (Notifications). An unanswered outbound call whose operator is not known is told in private to
  every member who wants that.

* CallEvents: `UpsertNeverConflicts` (the endpoint's insert races with the first webhook and answers 409),
  `RingingNeverReturns` (a call placed through the API has no state when event 1 and the hang-up read it),
  `OnlyMissedNeedCallback` (an answered call keeps the flag of a missed transfer leg),
  `AnswerEventKeepsState`.
* Contracts: `RenewalsActivate` (a renewal beside a cancellation writes no status, since ACTIVE is what
  it had loaded).
* Registration: `OneActiveInvite` (overlapping invitations, and `invite_admin`, which does not look), `SeatsLimited`
  (open invites are not counted).
* Crm: a lead converted twice makes two deals; nothing in the repository forbids it.

## 6. Proofs

All theorems hold for every value of the constants that satisfies the module's `ASSUME`, unless said
otherwise. Each module has one lemma per action; where an invariant is long, a first lemma says what a step that
touches only so much preserves, and the actions' lemmas are about what they touch. TLC checked every inductive invariant
on the instances of section 4 before it was proved.

* **CallProofs**, calls. `TypeCorrect`, then `Invariance`: the inductive invariant `Inv` relates what
  was announced (`scheduled`) to the row (`ScheduledAreHeard` and its companions) and, which is why it
  is stronger than the properties, what a request in progress has read to the row: a handler or an
  endpoint about to update found a row, and rows are never deleted; a handler that will keep the
  terminal state it read speaks of a row that a webhook reached (`UpdatesFindRow`); only an answered call
  to their customer holds callbacks (`ResolvesAreOwn`); all hang-ups of one call that were ever sent say
  the same (`OneEnd`). Without these a stale write could undo each of the properties. They follow from it: `MissedTracked`, `CallbacksWereMade`, `OrphansAreSilent`, `HangupsAreKept`,
  `MadeCallsAreOwned`, `OutcomeIsUnique`. `Implements` shows that each step is a step of CallRecord or
  changes no state of a reported row; it needs besides that a reported row is never without a state.
* **CallProofs**, escalation. `RemindersAreDue` for any number of processes, failures and repeated reports (a message in progress is
  about a call that was on the list when its check began, `waited`). `RemindersRise` for any number of processes: the key of a customer holds a
  tier at least that of every message marked and not lost, as long as the message's key would live, so that a process that finds a
  lower tier has seen none of them; and a key is lowered only by a process that looked before it was written.
  `CustomersAreRemindedInTime` for any number of processes and of earlier keys: a check that is
  under way will come to the customer with a list that has his call, and a key that keeps it silent holds at least the tier
  that a call as old as his has reached, and was written after the call came onto the list. It assumes that there is a process (`Workers # {}`).
* **ContractsProofs.** `CancellationsStand` needs `SavesExist` only: a stale save writes the status it
  changed or none. `OneActiveContract` carries what a lone request knows: nobody else is in
  flight (`Alone`), no contract gave access since it looked (`StillFree`), the row it loaded is the
  current one (`SavesAlone`). `RefusalsHaveAReason`: until the owner cancels or updates a contract, every contract gives
  access, and who is about to look for another contract has one.
* **RegistrationProofs.** `UsersAreDistinct` from the unique indexes, whatever was read before;
  `RevocationsHold` from the row count of the invite's update in the same transaction.
  `InvitesAreUsedOnceAlone` and `UsedInvitesStay` are what the
  marks on invites and challenges are good for by themselves: without overlap, whatever a request has read is
  still so when it writes, and an invite that made a user is used or gone. With overlap `InviteOnce` fails (section 5).
* **CrmProofs.** The base invariant `TypeOK` with `ConvertsLeads`; `DeletionsStand` adds `LoadedLive` (a request
  works on a row that was not deleted when it loaded it, so that it never has `deleted_at` to write);
  `EventsAreFacts` adds `RowsStaged` and `RequestsKnow` (what a request read back was a stage of the
  deal); `NoEventIsPosted` adds `NeverCommitted`. `ErrorsFollowRemovals` (`ErrorInv`) adds
  that a request that has not come to its first write has written nothing (`NotYetWritten`), and that the rows it works on were there
  and so can only have been removed (`RowsThere`).
* **LoginProofs.** `TypeCorrect` says of every stage of a request what it has. `CodesReachTheirUser`: a code in a row was sent, or
  the one update that stored it is about to send it and no other can be told. `LoginsAreTheirs`: the code that a verification
  read, and the one in the row, were sent to the user beside it. `ChallengesAreSpent` counts: the attempts of the row, of the request under way and
  those that were judged add up, whatever codes the bot stores meanwhile. `LockedInTime` bounds the failures that bear by the
  counter in Redis, the counters read and not yet compared, and the lock, through every order in which keys lapse.
* **AccessProofs.** `TypeCorrect` is of `Base`: types, and that the rows requests work on exist, those a
  group's deletion has updated being locked. `TheExcludedStayOut` follows from `Exclusions`: what a
  request will write that differs from what it loaded is among the effects it told (`EffectsTold`); where
  no activation met the exclusion, the exclusion is alone in letting its user in or out and what it found
  already set is still set, so that skipping unchanged columns loses nothing (`ExclusionsAlone`); after it
  nobody is about to let him in (`NobodyLetsIn`). `MembersLeaveGroups` follows from `Membership`: while a deletion is between
  its two statements, whoever is in the group was taken out by the first (`MembersAreHit`) or came in too late for it to see
  (`late`), by an assignment or by an invite; the second makes that `GroupsInUse`. `TheKeysAreBounded` follows from `Room`: at most one request is about
  to insert and the room it counted is still there; it needs the set of keys to be finite.
* **TelegramProofs.** Three inductive invariants, one for each part. Of the configuration: a row that says `creating` has the
  one task that was started for it, or a process died (`SetupsEnd`), and what a request that loaded the row will
  merge is what was last asked for, or the row changed since (`FiltersAreTheirs`). Of the digests: who holds the lock of a day
  is the only pass of it that sends (`DigestsAreSentOnce`); a company that wanted one is behind the pass with a digest or ahead of it
  (`NobodyIsForgotten`); what is pinned is the message the row names or the one the pass has in its hands (`OneDigestIsPinned`). Of the notices (`CountsAreTrue`,
  `NewsAreToldOnce`): a chat gives out each number once, so that a place is one message for ever. A slot that lives, and what a task at work has in
  its hands, shows the calls that its message stands for, as long as the message is not one of `strays`; a task
  has put its news nowhere or in one message, according to its stage (`Own`); and an edit takes from another message only what it
  marks a stray. That a destroyed group never comes back is why a place stays what it was.
* **WorkspaceProofs.** `ReordersAreWhole` from the locks: until a reorder commits, the rows it has placed are its own, and nobody
  reads them; two that met are marked so. `EmailsAreUnique`: a request about to write an email looked for it and found
  nobody, and since then nobody but another claimant, which `raced` tells of, can have written it. `ClearedStaysCleared`: who a stored report is of
  can be told from its key (`FreshKeys`), so that what a clearing is to remove and has not removed is where it will look
  (`ClearingHolds`). It assumes that the owner's id is no company's; ids are random UUIDs. `ReadersSeeAll`: a reader with a cursor
  has seen what is not below it, in descending order, whatever is written between his requests (`AboveCursor`); a reader of pages
  has seen the first pages of the one order there is, as long as nothing of the kind was written (`PagesTurned`). Both need that
  no step changes the kind or the company of a row, and that calls are never changed (`RowsMove`). `ReportsAnswer`: of the
  statements done so far, each has counted the rows of a period that was taken while the report was counted (`FiguresTrue`), of
  those that are still as they were when it began, and the calls counted are still there (`CallsStand`), so that a later figure
  of a longer period, whose statement comes later in every plan (`PlansHold`), has them too; this survives that rows come and go
  and days pass between two statements (`CountedStands`). What is stored answers a question with its key, and two questions with one key
  are counted alike (`KeysTell`).

## 7. Only model-checked

Liveness (`HandlersFinish`, `CallsSettle`) is out of the prover's reach, as is anything with ENABLED.
Every invariant and action property of a listed run is proved, `EventDelivered` excepted, which is refuted. `BilledWasAnswered` (CallEvents) is
stated in its module and holds in its instances; no listed run checks it.

## 8. Not modelled

The components marked `not_modelled` in `PROJECT.json`: I/O with external services, wording, schemas and migrations, because
they keep no state to go wrong. Inside modelled components: amounts, probabilities, tags and texts, and with them the
rates and rankings of reports; validation of custom values against definitions, search and filters of lists; the bot's commands; creation of endpoints, companies' names; Binotel,
whose webhooks go through the same handler; retries of an outbound delivery, which cannot be reached as
long as the finding of section 5 stands; creations through the public API. Time in CallEvents is one bit per row (older than the
threshold or not); billing is whether, not how long. Permissions are one bit. Passwords, hashes and signatures are perfect.

## 9. Plan

Done, in the order of what matters most to the system: CallEvents and CallRecord, Escalation, Contracts,
Registration, Crm, with proofs; then Login, Access, TelegramConfig, Notifications, Digest, Records, Reports and
Fields, with runs; then proofs of all of these, which now state every invariant that a run checks.

Next, models: validation of custom values as pure operators; HTTP
retries.
