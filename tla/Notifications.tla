---------------------------- MODULE Notifications ----------------------------
(***************************************************************************)
(* Messages about calls, leads and deals (utils/services/                  *)
(* telegram_service.py). Each is a background task that reads the row of   *)
(* the company, then edits the last message about the phone if Redis names *)
(* one, or sends one, and at last writes to members who want that. Errors  *)
(* are logged and never raised. Texts and buttons are left out but for the *)
(* count of an edited message.                                             *)
(***************************************************************************)
EXTENDS TelegramConfig, Sequences

CONSTANTS
    Notices,        \* tasks, each for one thing to tell
    Things,         \* what there may be to tell
    Ids,            \* numbers of messages, which each chat counts by itself
    Phones,
    Users

ASSUME NotifyAssumption ==
    /\ Ids \subseteq Nat
    /\ Things \subseteq [company : Companies, event : Events, phone : Phones \cup {None},
                         user : Users \cup {None}, inbound : BOOLEAN]

CallEvents == {"call_completed", "call_missed"}

VARIABLES
    notice,     \* notice[n]: what it is about and how far it is
    posts,      \* posts[<<chat, id>>]: the news that a message of a chat tells
    slot,       \* slot[k]: what Redis says of a key, the chat left out, or None
    telegramId, \* telegramId[n]: the message that the row of a call names
    person,     \* person[u]: whether he is excluded, and what he wants
    told,       \* private messages: pairs of user and notice
    met,        \* history: keys of which two tasks were at work at once
    strays,     \* history: messages edited in the place of one of another chat
    faulty      \* history: notices whose task met an error or died

notifyVars == <<notice, posts, slot, telegramId, person, told, met, strays, faulty>>

Keys == Companies \X Phones \X CallEvents

NotifyInit ==
    /\ notice = [n \in Notices |-> [pc |-> "none"]]
    /\ posts = <<>>
    /\ slot = [k \in Keys |-> None]
    /\ telegramId = [n \in Notices |-> None]
    /\ person = [u \in Users |-> [active |-> TRUE, wants |-> TRUE, quiet |-> FALSE]]
    /\ told = {}
    /\ met = {}
    /\ strays = {}
    /\ faulty = {}

-----------------------------------------------------------------------------

Now(n, pc) == notice[n].pc = pc

Step(n, pc) == notice' = [notice EXCEPT ![n].pc = pc]

AtWork(n) == notice[n].pc \notin {"none", "told"}

KeyOf(n) == <<notice[n].company, notice[n].phone, notice[n].event>>

\* Only calls with a phone are grouped.
Grouped(n) == notice[n].event \in CallEvents /\ notice[n].phone # None

Fault(n) == faulty' = faulty \cup {n}

\* A call ended, or a lead or a deal changed (modules CallEvents and Crm).
\* Whoever is responsible for it is not always known.
Arrive(n) ==
    /\ Now(n, "none")
    /\ \E t \in Things :
            notice' = [notice EXCEPT ![n] =
                [pc |-> "config", company |-> t.company, event |-> t.event,
                 phone |-> t.phone, user |-> t.user, inbound |-> t.inbound,
                 chat |-> None, seen |-> None]]
    /\ UNCHANGED <<posts, slot, telegramId, person, told, met, strays, faulty>>

\* is_event_enabled and effective_chat_id of the row as it is now.
ReadConfig(n) ==
    /\ Now(n, "config")
    /\ LET row == config[notice[n].company] IN
        IF row # None /\ row.enabled /\ notice[n].event \in row.on
        THEN notice' = [notice EXCEPT ![n].chat = ChatOf(row),
                ![n].pc = IF notice[n].event = "call_completed" THEN "recording"
                          ELSE "announcing"]
        ELSE Step(n, "told")
    /\ UNCHANGED <<posts, slot, telegramId, person, told, met, strays, faulty>>

\* The message of a chat tells this from now on.
Write(place, post) ==
    posts' = [p \in DOMAIN posts \cup {place} |-> IF p = place THEN post ELSE posts[p]]

\* A message of the task's own, with the next number that the chat gives out.
Post(n, place, text) ==
    /\ There(place[1])
    /\ \A p \in DOMAIN posts : p[1] = place[1] => p[2] < place[2]
    /\ Write(place, [about |-> {n}, count |-> 1, text |-> text])

Sent(n, pc, place) ==
    notice' = [notice EXCEPT ![n].pc = pc, ![n].seen = [post |-> place, count |-> 1]]

\* An answered call may have a recording, sent in place of a text. There is
\* none, or fetching or sending it fails: then the text is, also when only the
\* answer to the recording was late.
SendRecording(n) ==
    /\ Now(n, "recording")
    /\ \/ Step(n, "announcing") /\ UNCHANGED <<posts, faulty>>
       \/ /\ notice[n].chat # None
          /\ \E id \in Ids :
                LET place == <<notice[n].chat, id>> IN
                /\ Post(n, place, FALSE)
                /\ \/ Sent(n, "private", place) /\ UNCHANGED faulty
                   \/ Step(n, "announcing") /\ Fault(n)
    /\ UNCHANGED <<slot, telegramId, person, told, met, strays>>

\* _send without a chat does nothing.
NoChat(n) ==
    /\ Now(n, "announcing")
    /\ notice[n].chat = None
    /\ Step(n, "private")
    /\ UNCHANGED <<posts, slot, telegramId, person, told, met, strays, faulty>>

\* _check_grouping. Without Redis a message is sent.
LookUp(n) ==
    /\ Now(n, "announcing")
    /\ notice[n].chat # None
    /\ IF ~Grouped(n)
       THEN Step(n, "sending") /\ UNCHANGED <<met, strays, faulty>>
       ELSE /\ met' = IF \E m \in Notices \ {n} :
                            /\ notice[m].pc \in {"editing", "counting"}
                            /\ Grouped(m)
                            /\ KeyOf(m) = KeyOf(n)
                      THEN met \cup {KeyOf(n)} ELSE met
            /\ \/ /\ notice' = [notice EXCEPT ![n].seen = slot[KeyOf(n)],
                        ![n].pc = IF slot[KeyOf(n)] = None THEN "sending" ELSE "editing"]
                  /\ UNCHANGED faulty
               \/ Step(n, "sending") /\ Fault(n)
    /\ UNCHANGED <<posts, slot, telegramId, person, told, strays>>

\* The notices with the key of n that the message told of. Of others it does not
\* tell any more once n has edited it.
OfKey(n, place) ==
    {m \in Notices : place \in DOMAIN posts /\ m \in posts[place].about /\ KeyOf(m) = KeyOf(n)}

\* The message of the number that the key names says one more. It may be too
\* old to edit, or gone, or have no text. The key names no chat: when the
\* company has another one by now, the number is that of another message, which
\* need not be about a call. When the answer comes too late a message is sent too.
EditPost(n) ==
    /\ Now(n, "editing")
    /\ LET meant == notice[n].seen.post
           found == <<notice[n].chat, meant[2]>>
       IN  \/ Step(n, "sending") /\ UNCHANGED <<posts, strays, faulty>>
           \/ /\ There(found[1])
              /\ found \in DOMAIN posts => posts[found].text
              /\ Write(found, [about |-> OfKey(n, found) \cup {n},
                               count |-> notice[n].seen.count + 1, text |-> TRUE])
              /\ strays' = IF found = meant THEN strays ELSE strays \cup {found}
              /\ \/ /\ notice' = [notice EXCEPT ![n].pc = "counting", ![n].seen.post = found]
                    /\ UNCHANGED faulty
                 \/ Step(n, "sending") /\ Fault(n)
    /\ UNCHANGED <<slot, telegramId, person, told, met>>

\* Mutant: the key goes on with the count that was read.
StoreSame(n) ==
    /\ Now(n, "counting")
    /\ \/ /\ slot' = [slot EXCEPT ![KeyOf(n)] = notice[n].seen]
          /\ Step(n, "private")
          /\ UNCHANGED faulty
       \/ Step(n, "sending") /\ Fault(n) /\ UNCHANGED slot
    /\ UNCHANGED <<posts, telegramId, person, told, met, strays>>

\* Mutant: the task goes on as if nothing had been edited.
StoreCountAndSend(n) ==
    /\ Now(n, "counting")
    /\ slot' = [slot EXCEPT ![KeyOf(n)] =
            [notice[n].seen EXCEPT !.count = notice[n].seen.count + 1]]
    /\ Step(n, "sending")
    /\ UNCHANGED <<posts, telegramId, person, told, met, strays, faulty>>

\* When Redis fails now, a message is sent besides the edited one.
StoreCount(n) ==
    /\ Now(n, "counting")
    /\ \/ /\ slot' = [slot EXCEPT ![KeyOf(n)] =
                [notice[n].seen EXCEPT !.count = notice[n].seen.count + 1]]
          /\ Step(n, "private")
          /\ UNCHANGED faulty
       \/ Step(n, "sending") /\ Fault(n) /\ UNCHANGED slot
    /\ UNCHANGED <<posts, telegramId, person, told, met, strays>>

\* When Telegram refuses the message, or its answer is late, the task ends.
SendPost(n) ==
    /\ Now(n, "sending")
    /\ \/ \E id \in Ids :
            LET place == <<notice[n].chat, id>> IN
            /\ Post(n, place, TRUE)
            /\ \/ Sent(n, "storing", place) /\ UNCHANGED faulty
               \/ Step(n, "told") /\ Fault(n)
       \/ Step(n, "told") /\ Fault(n) /\ UNCHANGED posts
    /\ UNCHANGED <<slot, telegramId, person, told, met, strays>>

\* _store_grouping; nobody minds when it fails.
StorePost(n) ==
    /\ Now(n, "storing")
    /\ Step(n, "naming")
    /\ \/ /\ Grouped(n)
          /\ slot' = [slot EXCEPT ![KeyOf(n)] = notice[n].seen]
       \/ UNCHANGED slot
    /\ UNCHANGED <<posts, telegramId, person, told, met, strays, faulty>>

\* The row of a missed inbound call names the message of its own, to which the
\* escalation replies (module Escalation).
NamePost(n) ==
    /\ Now(n, "naming")
    /\ Step(n, "private")
    /\ telegramId' =
        IF notice[n].event = "call_missed" /\ notice[n].inbound
        THEN [telegramId EXCEPT ![n] = notice[n].seen.post]
        ELSE telegramId
    /\ UNCHANGED <<posts, slot, person, told, met, strays, faulty>>

\* To whom a private message goes: those who want such, to one of them alone
\* when somebody is responsible, but for an inbound call that all have missed.
\* A new lead is told to nobody in private.
Addressees(n) ==
    LET scoped == ~(notice[n].event = "call_missed" /\ notice[n].inbound)
    IN  {u \in Users :
            /\ notice[n].event # "new_lead"
            /\ person[u].active
            /\ person[u].wants
            /\ scoped /\ notice[n].user # None => u = notice[n].user
            /\ ~person[u].quiet}

\* Each message may fail on its own.
TellPrivately(n) ==
    /\ Now(n, "private")
    /\ Step(n, "told")
    /\ \E reached \in SUBSET Addressees(n) :
            told' = told \cup {<<u, n>> : u \in reached}
    /\ UNCHANGED <<posts, slot, telegramId, person, met, strays, faulty>>

\* A key of Redis lapses half an hour after the last call.
Lapse(k) ==
    /\ slot[k] # None
    /\ slot' = [slot EXCEPT ![k] = None]
    /\ UNCHANGED <<notice, posts, telegramId, person, told, met, strays, faulty>>

\* The process of a task dies.
Perish(n) ==
    /\ AtWork(n)
    /\ Step(n, "told")
    /\ Fault(n)
    /\ UNCHANGED <<posts, slot, telegramId, person, told, met, strays>>

\* Users are excluded, choose what they want, and sleep.
ChangePerson(u) ==
    /\ \E f \in {"active", "wants", "quiet"} :
            person' = [person EXCEPT ![u][f] = ~@]
    /\ UNCHANGED <<notice, posts, slot, telegramId, told, met, strays, faulty>>

NoticeStep(n) ==
    \/ Arrive(n) \/ ReadConfig(n) \/ SendRecording(n) \/ NoChat(n) \/ LookUp(n)
    \/ EditPost(n) \/ StoreCount(n) \/ SendPost(n) \/ StorePost(n) \/ NamePost(n)
    \/ TellPrivately(n) \/ Perish(n)

NotifyNext ==
    /\ \/ \E n \in Notices : NoticeStep(n)
       \/ \E k \in Keys : Lapse(k)
       \/ \E u \in Users : ChangePerson(u)
    /\ UNCHANGED configVars

-----------------------------------------------------------------------------
(* Properties.                                                              *)

\* The count that a message shows is the number of calls it stands for, unless
\* two of its phone were told at once, a task of it failed half way, or it was
\* edited in the place of a message of another chat (telegram_service.py:180,
\* 193).
CountsTrue ==
    \A p \in DOMAIN posts \ strays : \A n \in posts[p].about :
        /\ Grouped(n)
        /\ KeyOf(n) \notin met
        /\ \A m \in faulty : Grouped(m) => KeyOf(m) # KeyOf(n)
        => posts[p].count = Cardinality(posts[p].about)

\* What a company wants to hear of is in one message of its chat, of its own or
\* of the phone's, when the task is over, unless the task met an error; and
\* there it stays, unless it is edited in the place of a message of another
\* chat (telegram_service.py:193, 207, 255).
AnnouncedOnce ==
    \A n \in Notices \ faulty : Now(n, "told") /\ notice[n].chat # None =>
        LET own == notice[n].seen.post
            telling == {p \in DOMAIN posts : n \in posts[p].about}
        IN  /\ own[1] = notice[n].chat
            /\ telling = {own} \/ (telling = {} /\ own \in strays)

\* Stated, not kept: "outbound unanswered -> operator only"
\* (telegram_service.py:598); a call whose operator is not known is told to all.
OutboundIsPrivate ==
    \A u \in Users, n \in Notices :
        <<u, n>> \in told /\ notice[n].event = "call_missed" /\ ~notice[n].inbound
            => u = notice[n].user

=============================================================================
