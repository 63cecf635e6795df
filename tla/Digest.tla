------------------------------- MODULE Digest -------------------------------
(***************************************************************************)
(* The daily digest (utils/tasks/telegram_digest.py): every server process *)
(* runs the scheduler, wakes at the same time of day and tries a lock in   *)
(* Redis; the one that gets it sends each company its digest, takes the    *)
(* pin off the last one and pins the new one. What a digest says is in     *)
(* module Reports.                                                         *)
(***************************************************************************)
EXTENDS TelegramConfig

CONSTANTS Procs, MaxDay     \* server processes; bounds the days

VARIABLES
    day,        \* the number of the day
    locked,     \* today's lock in Redis is taken
    proc,       \* proc[p]: how far the scheduler of the process is
    digests,    \* the digests in the chats
    pinned,     \* those that are pinned
    unlocked,   \* history: days on which Redis failed
    expected,   \* history: companies that wanted a digest when today's pass began
    excused,    \* history: companies whose digest of today met an error
    loose       \* history: companies whose pinned digest was lost sight of

digestVars == <<day, locked, proc, digests, pinned, unlocked, expected, excused, loose>>

Waiting == [pc |-> "waiting", rows |-> None, todo |-> {}, now |-> None]

DigestInit ==
    /\ day = 0
    /\ locked = FALSE
    /\ proc = [p \in Procs |-> Waiting]
    /\ digests = {}
    /\ pinned = {}
    /\ unlocked = {}
    /\ expected = {}
    /\ excused = {}
    /\ loose = {}

-----------------------------------------------------------------------------

Is(p, pc) == proc[p].pc = pc

\* The hour comes for every process that runs. The passes of the day before
\* ended long ago and its lock lapsed after an hour.
NextDay ==
    /\ day < MaxDay
    /\ \A p \in Procs : proc[p].pc \in {"waiting", "over"}
    /\ day' = day + 1
    /\ locked' = FALSE
    /\ proc' = [p \in Procs |-> [Waiting EXCEPT !.pc = "due"]]
    /\ expected' = {}
    /\ excused' = {}
    /\ UNCHANGED <<digests, pinned, unlocked, loose>>

\* Mutant: SET without NX always succeeds.
LockAlways(p) ==
    /\ Is(p, "due")
    /\ locked' = TRUE
    /\ proc' = [proc EXCEPT ![p].pc = "reading"]
    /\ UNCHANGED <<day, digests, pinned, unlocked, expected, excused, loose>>

\* SET NX: the first process gets the lock.
Lock(p) ==
    /\ Is(p, "due")
    /\ locked' = TRUE
    /\ proc' = [proc EXCEPT ![p].pc = IF locked THEN "over" ELSE "reading"]
    /\ UNCHANGED <<day, digests, pinned, unlocked, expected, excused, loose>>

\* Without Redis every process runs.
LockFails(p) ==
    /\ Is(p, "due")
    /\ proc' = [proc EXCEPT ![p].pc = "reading"]
    /\ unlocked' = unlocked \cup {day}
    /\ UNCHANGED <<day, locked, digests, pinned, expected, excused, loose>>

Wanted(row) == row # None /\ row.enabled /\ row.digest

\* The rows of all companies that want a digest are loaded at once. When that
\* fails there is no pass in this process today.
ReadConfigs(p) ==
    /\ Is(p, "reading")
    /\ LET todo == {c \in Companies : Wanted(config[c])}
       IN  \/ /\ proc' = [proc EXCEPT ![p].pc = "sending", ![p].rows = config,
                                      ![p].todo = todo]
              /\ expected' = expected \cup todo
           \/ /\ proc' = [proc EXCEPT ![p].pc = "over"]
              /\ UNCHANGED expected
    /\ UNCHANGED <<day, locked, digests, pinned, unlocked, excused, loose>>

Drop(p, c) == proc' = [proc EXCEPT ![p].todo = @ \ {c}]

Chat(p, c) == ChatOf(proc[p].rows[c])

\* The digest of today as one message of the chat.
Today(p, c) ==
    [company |-> c, row |-> proc[p].rows[c].id, chat |-> Chat(p, c), day |-> day,
     by |-> p]

\* The figures of the company are read and its digest sent.
SendDigest(p) ==
    /\ Is(p, "sending")
    /\ \E c \in proc[p].todo :
        /\ Chat(p, c) # None
        /\ There(Chat(p, c))
        /\ digests' = digests \cup {Today(p, c)}
        /\ proc' = [proc EXCEPT ![p].pc = "pinning", ![p].now = c,
                                ![p].todo = @ \ {c}]
    /\ UNCHANGED <<day, locked, pinned, unlocked, expected, excused, loose>>

\* Mutant: the first company that Telegram refuses ends the pass.
SkipAll(p) ==
    /\ Is(p, "sending")
    /\ \E c \in proc[p].todo :
        /\ proc' = [proc EXCEPT ![p].todo = {}]
        /\ excused' = excused \cup {c}
    /\ UNCHANGED <<day, locked, digests, pinned, unlocked, expected, loose>>

\* Telegram refuses the message, or there is no chat: on to the next company.
SkipDigest(p) ==
    /\ Is(p, "sending")
    /\ \E c \in proc[p].todo :
        /\ Drop(p, c)
        /\ excused' = excused \cup {c}
    /\ UNCHANGED <<day, locked, digests, pinned, unlocked, expected, loose>>

\* A statement fails. Nobody rolls the session back, so all that follow fail.
QueryFails(p) ==
    /\ Is(p, "sending")
    /\ proc[p].todo # {}
    /\ proc' = [proc EXCEPT ![p].todo = {}]
    /\ excused' = excused \cup proc[p].todo
    /\ UNCHANGED <<day, locked, digests, pinned, unlocked, expected, loose>>

\* The digest that the row named when it was loaded is unpinned and the new
\* one pinned; each may fail and nobody minds.
Pin(p) ==
    /\ Is(p, "pinning")
    /\ LET c == proc[p].now
           last == {d \in pinned : d = proc[p].rows[c].pin}
           here == {d \in last : d.chat = Chat(p, c)}
       IN  \E off \in {here, {}}, on \in {{Today(p, c)}, {}} :
            /\ pinned' = (pinned \ off) \cup on
            /\ loose' = IF off = last THEN loose ELSE loose \cup {c}
    /\ proc' = [proc EXCEPT ![p].pc = "committing"]
    /\ UNCHANGED <<day, locked, digests, unlocked, expected, excused>>

\* Mutant: the row is committed before the message is there.
CommitOld(p) ==
    /\ Is(p, "committing")
    /\ proc' = [proc EXCEPT ![p].pc = "sending"]
    /\ UNCHANGED <<config, day, locked, digests, pinned, unlocked, expected, excused, loose>>

\* The row remembers the digest; another row in its place breaks the session.
CommitPin(p) ==
    /\ Is(p, "committing")
    /\ LET c == proc[p].now
           there == config[c] # None /\ config[c].id = proc[p].rows[c].id
       IN  /\ config' = [config EXCEPT ![c] = IF there
                            THEN [@ EXCEPT !.pin = Today(p, c)] ELSE @]
           /\ loose' = IF there THEN loose ELSE loose \cup {c}
           /\ proc' = [proc EXCEPT ![p].pc = "sending",
                            ![p].todo = IF there THEN @ ELSE {}]
           /\ excused' = IF there THEN excused ELSE excused \cup proc[p].todo
    /\ UNCHANGED <<day, locked, digests, pinned, unlocked, expected>>

EndPass(p) ==
    /\ Is(p, "sending")
    /\ proc[p].todo = {}
    /\ proc' = [proc EXCEPT ![p].pc = "over"]
    /\ UNCHANGED <<day, locked, digests, pinned, unlocked, expected, excused, loose>>

\* A process dies and starts again after the hour: it waits for tomorrow.
Restart(p) ==
    /\ proc[p].pc \notin {"waiting", "over"}
    /\ proc' = [proc EXCEPT ![p].pc = "over"]
    /\ excused' = excused \cup proc[p].todo
    /\ loose' = IF Is(p, "committing")
                THEN loose \cup {proc[p].now} ELSE loose
    /\ UNCHANGED <<day, locked, digests, pinned, unlocked, expected>>

DigestStep(p) ==
    \/ Lock(p) \/ LockFails(p) \/ ReadConfigs(p) \/ SendDigest(p) \/ SkipDigest(p)
    \/ QueryFails(p) \/ Pin(p) \/ EndPass(p) \/ Restart(p)

DigestNext ==
    \/ (NextDay \/ \E p \in Procs : DigestStep(p)) /\ UNCHANGED configVars
    \/ /\ \E p \in Procs : CommitPin(p)
       /\ UNCHANGED <<inserted, fate, request, asked, raced, died>>

-----------------------------------------------------------------------------
(* Properties.                                                              *)

\* A company gets one digest a day however many processes there are, unless
\* Redis failed that day (telegram_digest.py:5, 157).
DigestOnce ==
    \A d, e \in digests :
        d.company = e.company /\ d.day = e.day /\ d.day \notin unlocked => d = e

\* One digest is pinned in a chat at a time, unless Redis failed once, one
\* could not be unpinned, or the row did not learn of one
\* (telegram_digest.py:111).
OnePinned ==
    unlocked = {} =>
        \A d, e \in pinned :
            /\ d.company \notin loose
            /\ d.row = e.row
            /\ d.chat = e.chat
            => d = e

\* Whoever wanted a digest when the pass began gets it, or its turn is still to
\* come, unless its own digest failed or a statement or the process did before
\* (telegram_digest.py:126).
NoneForgotten ==
    \A c \in expected \ excused :
        \/ \E d \in digests : d.company = c /\ d.day = day
        \/ \E p \in Procs : proc[p].pc # "over" /\ c \in proc[p].todo

=============================================================================
