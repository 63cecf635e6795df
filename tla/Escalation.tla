----------------------------- MODULE Escalation -----------------------------
(***************************************************************************)
(* The reminders of missed calls. Every server process runs a scheduler    *)
(* (missed_call_escalation.py) that reads the calls waiting for a callback *)
(* from the database, groups them by customer, and sends the reminder of   *)
(* the oldest call's tier to Telegram unless a Redis key, which expires,   *)
(* says that this tier was already sent to this customer. The key is       *)
(* written after the message, and the managers are told after the key.     *)
(*                                                                         *)
(* The company's bot is configured and enabled throughout. Time advances   *)
(* in ticks, and all durations are numbers of ticks.                       *)
(***************************************************************************)
EXTENDS Integers, FiniteSets

CONSTANTS
    CallIds,    \* inbound calls that may be missed
    Caller,     \* Caller[c]: the company and the number that called
    Workers,    \* server processes (WORKERS, 4 by default)
    Threshold,  \* <<TIER1_MINUTES, TIER2_MINUTES, TIER3_MINUTES>>
    Cutoff,     \* the age after which a call is not escalated: two hours
    KeyTTL,     \* the life of a Redis key: three hours
    MaxTime,    \* bound on the clock
    MaxMisses,  \* bound on the webhooks that report a missed call
    MaxFaults   \* bound on failures and late checks

Tiers == 1 .. 3

ASSUME EscalationAssumption ==
    /\ Threshold \in [Tiers -> Nat]
    /\ Threshold[1] =< Threshold[2] /\ Threshold[2] =< Threshold[3]
    /\ Cutoff \in Nat /\ KeyTTL \in Nat
    /\ MaxTime \in Nat /\ MaxMisses \in Nat /\ MaxFaults \in Nat

Customers == {Caller[c] : c \in CallIds}

Never == -1

VARIABLES
    now,            \* the clock
    created,        \* created[c]: when the row of c was made (created_at)
    needsCallback,  \* the calls on the callback list (needs_callback)
    resolved,       \* resolved[c]: when c was last called back (callback_at)
    key,            \* key[p]: the tier stored for customer p and its expiry
    worker,         \* worker[w]: the check process w is running
    checked,        \* the processes that ran a check since the last tick
    log,            \* the messages sent to the calls topic
    told,           \* the messages that managers received, too
    misses,         \* the webhooks that put a call on the list
    faults,         \* how often something has failed or was late
    waited,         \* history: <<c, t>> when c was on the list in tick t
    marked,         \* history: the messages whose key was written
    lost            \* history: those whose key a less urgent one replaced

callRows == <<created, needsCallback, resolved, misses, waited>>

escalationVars == <<now, callRows, key, worker, checked, log, told, faults, marked, lost>>

Time == 0 .. MaxTime

\* `began` is when the check read the database, `groups` are the calls it
\* has yet to look at, `message` is the reminder it is about.
Messages == [customer : Customers, tier : Tiers, at : Time, began : Time]

Idle == [pc |-> "idle"]

\* The tier stored for p, 0 when the key is missing or has expired.
SentTier(p) == IF now < key[p].expires THEN key[p].tier ELSE 0

EscalationInit ==
    /\ now = 0
    /\ created = [c \in CallIds |-> Never]
    /\ needsCallback = {}
    /\ resolved = [c \in CallIds |-> Never]
    /\ key = [p \in Customers |-> [tier |-> 0, expires |-> 0]]
    /\ worker = [w \in Workers |-> Idle]
    /\ checked = {}
    /\ log = {}
    /\ told = {}
    /\ misses = 0
    /\ faults = 0
    /\ waited = {}
    /\ marked = {}
    /\ lost = {}

-----------------------------------------------------------------------------
(* The calls and the clock.                                                *)

\* Telegram or Redis fails, a process dies, or a check is late.
Fault == faults < MaxFaults /\ faults' = faults + 1

\* Every process has run a check since the last tick.
Prompt == checked = Workers /\ \A w \in Workers : worker[w] = Idle

Tick ==
    /\ now < MaxTime
    /\ now' = now + 1
    /\ checked' = {}
    /\ waited' = waited \union {<<c, now + 1>> : c \in needsCallback}
    /\ IF Prompt THEN UNCHANGED faults ELSE Fault
    /\ UNCHANGED <<created, needsCallback, resolved, misses, key, worker, log, told, marked, lost>>

\* The first webhook of a call makes its row.
Ring(c) ==
    /\ created[c] = Never
    /\ created' = [created EXCEPT ![c] = now]
    /\ UNCHANGED <<now, needsCallback, resolved, misses, waited, key, worker, checked, log, told,
                   faults, marked, lost>>

\* A webhook reports that c was missed: the row is made, or updated. It may
\* come late, or again when c has been called back; callback_at is kept.
Miss(c) ==
    /\ misses < MaxMisses
    /\ misses' = misses + 1
    /\ created' = [created EXCEPT ![c] = IF @ = Never THEN now ELSE @]
    /\ needsCallback' = needsCallback \union {c}
    /\ waited' = waited \union {<<c, now>>}
    /\ UNCHANGED <<now, resolved, key, worker, checked, log, told, faults, marked, lost>>

CallsOf(p) == {c \in needsCallback : Caller[c] = p}

\* The webhook of an answered outbound call resolves all calls of its
\* customer (handle_webhook). Nothing clears the Redis key.
CallBack(p) ==
    /\ CallsOf(p) # {}
    /\ needsCallback' = needsCallback \ CallsOf(p)
    /\ resolved' = [c \in CallIds |-> IF c \in CallsOf(p) THEN now ELSE resolved[c]]
    /\ UNCHANGED <<now, created, misses, waited, key, worker, checked, log, told, faults, marked, lost>>

-----------------------------------------------------------------------------
(* check_missed_calls.                                                     *)

\* Mutant: calls already called back are read, too.
MissedCallsAll == {c \in CallIds : created[c] # Never /\ created[c] >= now - Cutoff}

MissedCalls == {c \in needsCallback : created[c] >= now - Cutoff}

StartCheck(w) ==
    /\ worker[w] = Idle
    /\ worker' = [worker EXCEPT ![w] = [pc |-> "next", began |-> now, groups |-> MissedCalls]]
    /\ UNCHANGED <<now, callRows, key, checked, log, told, faults, marked, lost>>

EndCheck(w) ==
    /\ worker[w].pc = "next"
    /\ worker[w].groups = {}
    /\ worker' = [worker EXCEPT ![w] = Idle]
    /\ checked' = checked \union {w}
    /\ UNCHANGED <<now, callRows, key, log, told, faults, marked, lost>>

Group(w, p) == {c \in worker[w].groups : Caller[c] = p}

\* Mutant: the newest call of the group determines the tier.
ReachedByNewest(w, p, t) == \A c \in Group(w, p) : worker[w].began - created[c] >= Threshold[t]

\* The oldest call of the group has the age of tier t.
Reached(w, p, t) == \E c \in Group(w, p) : worker[w].began - created[c] >= Threshold[t]

TierOf(w, p) ==
    IF Reached(w, p, 3) THEN 3
    ELSE IF Reached(w, p, 2) THEN 2
    ELSE IF Reached(w, p, 1) THEN 1
    ELSE 0

Rest(w, p) == [pc |-> "next", began |-> worker[w].began,
               groups |-> worker[w].groups \ Group(w, p)]

\* Mutant: a tier is due when it is the stored one.
DueAgain(p, tier) == tier > 0 /\ SentTier(p) =< tier

Due(p, tier) == tier > 0 /\ SentTier(p) < tier

\* The next customer: GET the key, and leave the customer or turn to it.
\* `seen` is history: the messages whose keys were written by then.
LookAt(w) ==
    /\ worker[w].pc = "next"
    /\ \E p \in {Caller[c] : c \in worker[w].groups} :
         LET tier == TierOf(w, p) IN
         worker' = [worker EXCEPT ![w] =
             IF Due(p, tier)
               THEN [pc |-> "send", began |-> @.began, groups |-> Rest(w, p).groups,
                     customer |-> p, tier |-> tier, seen |-> marked]
               ELSE Rest(w, p)]
    /\ UNCHANGED <<now, callRows, key, checked, log, told, faults, marked, lost>>

\* The GET fails: the check is over.
AbortCheck(w) ==
    /\ worker[w].pc = "next" /\ worker[w].groups # {}
    /\ Fault
    /\ worker' = [worker EXCEPT ![w] = Idle]
    /\ checked' = checked \union {w}
    /\ UNCHANGED <<now, callRows, key, log, told, marked, lost>>

Message(w) == [customer |-> worker[w].customer, tier |-> worker[w].tier,
               at |-> now, began |-> worker[w].began]

SendMessage(w) ==
    /\ worker[w].pc = "send"
    /\ log' = log \union {Message(w)}
    /\ worker' = [worker EXCEPT ![w] =
           [pc |-> "mark", began |-> @.began, groups |-> @.groups, message |-> Message(w),
            seen |-> @.seen]]
    /\ UNCHANGED <<now, callRows, key, checked, told, faults, marked, lost>>

Mark(w) ==
    /\ worker[w].pc = "mark"
    /\ LET m == worker[w].message IN
       /\ key' = [key EXCEPT ![m.customer] = [tier |-> m.tier, expires |-> now + KeyTTL]]
       /\ marked' = marked \union {m}
       /\ lost' = lost \union {n \in marked : n.customer = m.customer /\ n.tier > m.tier}
    /\ worker' = [worker EXCEPT ![w] =
           [pc |-> "markcalls", began |-> @.began, groups |-> @.groups, message |-> @.message]]
    /\ UNCHANGED <<now, callRows, checked, log, told, faults>>

\* The keys of the single calls; nothing reads them.
MarkCalls(w) ==
    /\ worker[w].pc = "markcalls"
    /\ worker' = [worker EXCEPT ![w] =
           IF @.message.tier = 3 THEN [@ EXCEPT !.pc = "dm"]
                                 ELSE [pc |-> "next", began |-> @.began, groups |-> @.groups]]
    /\ UNCHANGED <<now, callRows, key, checked, log, told, faults, marked, lost>>

\* _dm_managers: a failing message to one of them is only logged.
DmManagers(w) ==
    /\ worker[w].pc = "dm"
    /\ told' = told \union {worker[w].message}
    /\ worker' = [worker EXCEPT ![w] =
           [pc |-> "next", began |-> @.began, groups |-> @.groups]]
    /\ UNCHANGED <<now, callRows, key, checked, log, faults, marked, lost>>

\* An exception of Telegram or Redis ends the work on this customer.
GiveUpCustomer(w) ==
    /\ worker[w].pc \in {"send", "mark", "markcalls"}
    /\ Fault
    /\ worker' = [worker EXCEPT ![w] =
           [pc |-> "next", began |-> @.began, groups |-> @.groups]]
    /\ UNCHANGED <<now, callRows, key, checked, log, told, marked, lost>>

\* The process dies and is started again.
Restart(w) ==
    /\ worker[w] # Idle
    /\ Fault
    /\ worker' = [worker EXCEPT ![w] = Idle]
    /\ checked' = checked \union {w}
    /\ UNCHANGED <<now, callRows, key, log, told, marked, lost>>

-----------------------------------------------------------------------------
Check(w) ==
    \/ StartCheck(w) \/ EndCheck(w) \/ LookAt(w) \/ AbortCheck(w) \/ SendMessage(w)
    \/ Mark(w) \/ MarkCalls(w) \/ DmManagers(w) \/ GiveUpCustomer(w) \/ Restart(w)

EscalationNext ==
    \/ Tick
    \/ \E c \in CallIds : Ring(c) \/ Miss(c)
    \/ \E p \in Customers : CallBack(p)
    \/ \E w \in Workers : Check(w)

EscalationSpec == EscalationInit /\ [][EscalationNext]_escalationVars

-----------------------------------------------------------------------------
(* What must hold.                                                         *)

Checks ==
    {Idle}
    \union [pc: {"next"}, began: Time, groups: SUBSET CallIds]
    \union [pc: {"send"}, began: Time, groups: SUBSET CallIds, customer: Customers, tier: Tiers,
            seen: SUBSET Messages]
    \union [pc: {"mark"}, began: Time, groups: SUBSET CallIds, message: Messages,
            seen: SUBSET Messages]
    \union [pc: {"markcalls", "dm"}, began: Time, groups: SUBSET CallIds, message: Messages]

EscalationTypeOK ==
    /\ now \in Time
    /\ created \in [CallIds -> Time \union {Never}]
    /\ needsCallback \subseteq CallIds
    /\ resolved \in [CallIds -> Time \union {Never}]
    /\ key \in [Customers -> [tier: 0 .. 3, expires: Nat]]
    /\ worker \in [Workers -> Checks]
    /\ checked \subseteq Workers
    /\ log \subseteq Messages
    /\ told \subseteq Messages
    /\ misses \in 0 .. MaxMisses
    /\ faults \in 0 .. MaxFaults
    /\ waited \subseteq CallIds \X Time
    /\ marked \subseteq Messages
    /\ lost \subseteq Messages

\* The reminder that w sends is more urgent than each of its customer whose key
\* was written when w looked, would still live and was not replaced by that of
\* a less urgent one.
MoreUrgent ==
    \A w \in Workers :
        worker[w].pc = "send" /\ worker'[w].pc = "mark" =>
            \A m \in worker[w].seen \ lost :
                m.customer = worker[w].customer /\ now < m.at + KeyTTL
                    => m.tier < worker[w].tier

\* Only what overlaps is lost: a key is replaced by a less urgent tier only by
\* a process that had looked before it was written.
LostUnseen ==
    \A w \in Workers :
        worker[w].pc = "mark" /\ worker'[w].pc = "markcalls" =>
            \A m \in (lost' \ lost) \intersect worker[w].seen : now >= m.at + KeyTTL

\* However many processes check at once, however slow they are and however
\* often they are started again or Telegram and Redis fail: within the life of
\* a key the reminders of a customer only become more urgent, except for what
\* a process could not see -- a key written after it looked, or replaced by a
\* process that had looked before it was written
\* (missed_call_escalation.py:31-32, :102-105, :166).
TiersRise == [][MoreUrgent /\ LostUnseen]_escalationVars

\* A reminder is about a call that was old enough and on the list when the
\* check began: work done on a stale read is at most one check old, also when
\* the call was called back and reported as missed again.
AlarmsAreDue ==
    \A m \in log : \E c \in CallIds :
        /\ Caller[c] = m.customer
        /\ created[c] # Never /\ created[c] + Threshold[m.tier] =< m.began
        /\ <<c, m.began>> \in waited

\* c is on the list, and never left it since some moment of tick s.
OnListSince(c, s) == c \in needsCallback /\ <<c, s>> \in waited /\ resolved[c] < s

\* The customer of c got no reminder within the life of a key before s.
FirstAlarm(c, s) ==
    \A m \in log : m.customer = Caller[c] /\ m.at < s => m.at + KeyTTL =< s

TiersInTime ==
    \A c \in CallIds, t \in Tiers, s \in Time :
        /\ faults = 0
        /\ OnListSince(c, s) /\ FirstAlarm(c, s)
        /\ now > s + 1 /\ now > created[c] + Threshold[t] /\ now =< created[c] + Cutoff
        => \E m \in log : m.customer = Caller[c] /\ m.tier >= t /\ m.at >= s

ManagersTold ==
    \A p \in Customers :
        /\ faults = 0
        /\ SentTier(p) = 3
        /\ \A w \in Workers : worker[w] = Idle
        => \E m \in told : m.customer = p

\* While checks are prompt and nothing has failed, a call that comes onto the
\* list, for the first time or again, as the first of its customer is escalated
\* to each tier within one tick of its threshold, or of the first whole tick it
\* waited; and once the checks are over the managers have been told of each
\* customer whose key says that tier 3 is done
\* (missed_call_escalation.py:8, :91, :179-185).
EscalatedInTime == TiersInTime /\ ManagersTold

-----------------------------------------------------------------------------
(* What the module says of itself and the code does not do.                *)

\* "Checks for calls with needs_callback=true and escalates based on age"
\* (missed_call_escalation.py:5): also a call that follows another one.
EveryCallEscalated ==
    \A c \in CallIds, s \in Time :
        /\ faults = 0
        /\ OnListSince(c, s)
        /\ now > s + 1 /\ now > created[c] + Threshold[3] /\ now =< created[c] + Cutoff
        => \E m \in log : m.customer = Caller[c] /\ m.at >= s

\* "so we don't spam the same notification repeatedly"
\* (missed_call_escalation.py:32): also not two processes at once.
NeverRepeated ==
    [][\A w \in Workers :
          worker[w].pc = "send" /\ worker'[w].pc = "mark" =>
              \A m \in marked :
                  m.customer = worker[w].customer /\ now < m.at + KeyTTL
                      => m.tier < worker[w].tier]_escalationVars

=============================================================================
