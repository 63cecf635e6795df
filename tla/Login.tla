-------------------------------- MODULE Login --------------------------------
(***************************************************************************)
(* Logging in. A user opens a challenge in the bot, which sends a one-time *)
(* code, and enters the code in the browser (auth/telegram_auth.py,        *)
(* company/telegram_webhook.py). An owner logs in with a password          *)
(* (owner/auth.py). Both count failures in Redis, in a window of time that *)
(* the first failure opens, and lock the account for a while when there    *)
(* were too many (services/lockout.py). Requests are modelled statement by *)
(* statement: nothing is locked between a read and the write it decides.   *)
(***************************************************************************)
EXTENDS Naturals, FiniteSets

CONSTANTS
    Users, Owners,  \* the accounts
    Challenges,     \* ids of login challenges
    Starts,         \* updates of the bot, each sent at most once; the code
                    \* that the update r makes up is called r
    Verifications, Passwords,   \* requests with a code or with a password
    MaxInFlight,    \* bound of the requests at work at once
    MaxRequests,    \* bound of the requests that are sent
    MaxAttempts,    \* wrong codes per challenge (3)
    Threshold,      \* failures that lock an account (5)
    LinkTTL, CodeTTL, RateTTL, Window, LockTTL,   \* lifetimes
    MaxTime,        \* bound of the clock
    None

Accounts == Users \cup Owners

Requests == Starts \cup Verifications \cup Passwords

Never == MaxTime + Window + 1    \* when a Redis key without a lifetime expires

Rows == [user : Users \cup {None}, code : Starts \cup {None},
         expires_at : Nat, attempts : Nat, used : BOOLEAN]

ASSUME LoginAssumption ==
    /\ {MaxAttempts, Threshold, RateTTL, Window} \subseteq Nat \ {0}
    /\ {LinkTTL, CodeTTL, LockTTL, MaxTime} \subseteq Nat
    /\ {MaxInFlight, MaxRequests} \subseteq Nat
    /\ Users \cap Owners = {}
    /\ Starts \cap Verifications = {}
    /\ (Starts \cup Verifications) \cap Passwords = {}
    /\ None \notin Accounts \cup Requests \cup Challenges \cup Rows

VARIABLES
    now,          \* the clock
    account,      \* account[a]: "active", "new" (an owner with the password
                  \* that was mailed), "inactive" or "deleted"
    challenge,    \* the rows of the table, None before they are inserted
    failures,     \* Redis: the counter of failures of an account
    locked,       \* Redis: until when the account is locked
    rate,         \* Redis: until when the user is sent no other code
    request,      \* request[r]: how far it is
    sent,         \* history: the codes that were sent, each with its user
    logins,       \* history: who logged in, with which code
    failed,       \* history: the failures of an account since the last lock
                  \* or success, as pairs of request and time
    tries,        \* history: the wrong codes entered for a challenge
    overlapped,   \* history: pairs of a kind of request and a challenge that
                  \* was in two such requests at once
    broke         \* history: a request was broken off

redis == <<failures, locked, rate>>
history == <<sent, logins, failed, tries, overlapped>>
vars == <<now, account, challenge, redis, request, history, broke>>

Kinds == {"start", "verify", "password"}

InFlightStates ==
    [pc : {"limit", "check", "store", "rate", "send", "compare", "use",
           "clear", "incr", "expire", "lock", "reset"},
     op : Kinds, challenge : Challenges \cup {None}, account : Accounts,
     seen : Rows \cup {None}, right : BOOLEAN, first : BOOLEAN, at : Nat]

RequestStates ==
    [pc : {"unsent"}]
        \cup InFlightStates
        \cup [pc : {"answered"},
              answer : {"token", "temporary", "none"}]

TypeOK ==
    /\ now \in 0..MaxTime
    /\ account \in [Accounts -> {"active", "new", "inactive", "deleted"}]
    /\ challenge \in [Challenges -> Rows \cup {None}]
    /\ failures \in [Accounts -> [count : Nat, expires : Nat]]
    /\ locked \in [Accounts -> Nat]
    /\ rate \in [Users -> Nat]
    /\ request \in [Requests -> RequestStates]
    /\ sent \subseteq Starts \X Users
    /\ logins \subseteq
         [by : Verifications, challenge : Challenges, user : Users, code : Starts]
    /\ failed \in [Accounts -> SUBSET (Requests \X (0..MaxTime))]
    /\ tries \in [Challenges -> Nat]
    /\ overlapped \subseteq Kinds \X Challenges
    /\ broke \in BOOLEAN

NoFailures == [count |-> 0, expires |-> 0]

Init ==
    /\ now = 0
    /\ account \in [Accounts -> {"active", "new"}]
    /\ \A u \in Users : account[u] = "active"
    /\ challenge = [c \in Challenges |-> None]
    /\ failures = [a \in Accounts |-> NoFailures]
    /\ locked = [a \in Accounts |-> 0]
    /\ rate = [u \in Users |-> 0]
    /\ request = [r \in Requests |-> [pc |-> "unsent"]]
    /\ sent = {}
    /\ logins = {}
    /\ failed = [a \in Accounts |-> {}]
    /\ tries = [c \in Challenges |-> 0]
    /\ overlapped = {}
    /\ broke = FALSE

-----------------------------------------------------------------------------

InFlight(r) == request[r].pc \notin {"unsent", "answered"}

At(r, pc) == request[r].pc = pc

Goto(r, pc) == request' = [request EXCEPT ![r].pc = pc]

Answer(r, a) ==
    request' = [request EXCEPT ![r] = [pc |-> "answered", answer |-> a]]

Locked(a) == locked[a] > now

\* Request r begins, with the row of challenge c as it is now; `at` is the
\* time that the bot's handler keeps.
Begin(r, pc, op, c, a, right, at) ==
    /\ Cardinality({q \in Requests : InFlight(q)}) < MaxInFlight
    /\ Cardinality({q \in Requests : ~At(q, "unsent")}) < MaxRequests
    /\ request' = [request EXCEPT ![r] =
                     [pc |-> pc, op |-> op, challenge |-> c, account |-> a,
                      seen |-> IF c = None THEN None ELSE challenge[c],
                      right |-> right, first |-> FALSE, at |-> at]]

Working(op, c) == {r \in Requests : /\ InFlight(r)
                                    /\ request[r].op = op
                                    /\ request[r].challenge = c}

NoteOverlap(op, c) ==
    overlapped' =
        overlapped \cup (IF Working(op, c) = {} THEN {} ELSE {<<op, c>>})

-----------------------------------------------------------------------------
(* The challenge and the code that the bot sends.                           *)

CreateChallenge(c) ==
    /\ challenge[c] = None
    /\ challenge' = [challenge EXCEPT ![c] =
                       [user |-> None, code |-> None, attempts |-> 0,
                        expires_at |-> now + LinkTTL, used |-> FALSE]]
    /\ UNCHANGED <<now, account, redis, request, history, broke>>

\* The user u opens the link of the challenge c in the bot.
SendStart(r, c, u) ==
    /\ At(r, "unsent")
    /\ challenge[c] # None
    /\ IF ~challenge[c].used /\ challenge[c].expires_at >= now
            /\ account[u] = "active"
         THEN Begin(r, "limit", "start", c, u, FALSE, now)
                /\ NoteOverlap("start", c)
         ELSE Answer(r, "none") /\ UNCHANGED overlapped
    /\ UNCHANGED <<now, account, challenge, redis, sent, logins, failed,
                   tries, broke>>

CheckRate(r) ==
    /\ At(r, "limit")
    /\ IF rate[request[r].account] > now THEN Answer(r, "none")
                                         ELSE Goto(r, "check")
    /\ UNCHANGED <<now, account, challenge, redis, history, broke>>

\* Mutant: the first user to open the link stays the user of the challenge.
StoreCodeFirst(r) ==
    LET req == request[r] IN
    /\ At(r, "store")
    /\ challenge' = [challenge EXCEPT
         ![req.challenge].user = IF @ # None THEN @ ELSE req.account,
         ![req.challenge].code = r,
         ![req.challenge].expires_at = req.at + CodeTTL]
    /\ Goto(r, "rate")
    /\ UNCHANGED <<now, account, redis, history, broke>>

\* An older code of the challenge is replaced, whoever it was for. Columns
\* that have the value that was read are not written: the attempts, the use
\* and, when the same user opens the link again, the user.
StoreCode(r) ==
    LET req == request[r] IN
    /\ At(r, "store")
    /\ challenge' = [challenge EXCEPT
         ![req.challenge].user = IF req.seen.user = req.account THEN @
                                                            ELSE req.account,
         ![req.challenge].code = r,
         ![req.challenge].expires_at = req.at + CodeTTL]
    /\ Goto(r, "rate")
    /\ UNCHANGED <<now, account, redis, history, broke>>

\* Mutant: the limit is only set when none is, and no code is sent otherwise.
SetRateOnce(r) ==
    LET u == request[r].account IN
    /\ At(r, "rate")
    /\ rate' = [rate EXCEPT ![u] = IF @ > now THEN @ ELSE now + RateTTL]
    /\ IF rate[u] > now THEN Answer(r, "none") ELSE Goto(r, "send")
    /\ UNCHANGED <<now, account, challenge, failures, locked, history, broke>>

SetRate(r) ==
    /\ At(r, "rate")
    /\ rate' = [rate EXCEPT ![request[r].account] = now + RateTTL]
    /\ Goto(r, "send")
    /\ UNCHANGED <<now, account, challenge, failures, locked, history, broke>>

SendCode(r) ==
    /\ At(r, "send")
    /\ sent' = sent \cup {<<r, request[r].account>>}
    /\ Answer(r, "none")
    /\ UNCHANGED <<now, account, challenge, redis, logins, failed, tries,
                   overlapped, broke>>

-----------------------------------------------------------------------------
(* The verification of a code.                                              *)

\* What the page learns when it polls the challenge.
ChallengeStatus(c) ==
    IF challenge[c].used THEN "used"
    ELSE IF challenge[c].expires_at < now THEN "expired"
    ELSE IF challenge[c].code # None THEN "otp_sent" ELSE "pending"

\* Mutant: a challenge without a code is compared, too.
VerifiableUnsent(row) ==
    row.expires_at >= now /\ ~row.used /\ row.attempts < MaxAttempts

\* Mutant: the use of the challenge is not looked at.
VerifiableTwice(row) ==
    row.expires_at >= now /\ row.code # None /\ row.attempts < MaxAttempts

Verifiable(row) ==
    /\ row.expires_at >= now
    /\ ~row.used
    /\ row.code # None
    /\ row.attempts < MaxAttempts

\* Somebody enters a code that was sent to him, or a wrong one. What the
\* request works on from here is the row as it is now.
SendVerify(r, c, entered) ==
    /\ At(r, "unsent")
    /\ challenge[c] # None
    /\ IF Verifiable(challenge[c])
         THEN /\ Begin(r, "check", "verify", c, challenge[c].user,
                       entered = challenge[c].code, 0)
              /\ NoteOverlap("verify", c)
         ELSE Answer(r, "none") /\ UNCHANGED overlapped
    /\ UNCHANGED <<now, account, challenge, redis, sent, logins, failed,
                   tries, broke>>

\* The lock is looked at by all three kinds of requests.
CheckLock(r) ==
    /\ At(r, "check")
    /\ IF Locked(request[r].account)
         THEN Answer(r, "none")
         ELSE Goto(r, IF request[r].op = "start" THEN "store" ELSE "compare")
    /\ UNCHANGED <<now, account, challenge, redis, history, broke>>

\* An attempt is added to those of the row that was read, and committed.
WrongCode(r) ==
    LET c == request[r].challenge IN
    /\ At(r, "compare")
    /\ request[r].op = "verify"
    /\ ~request[r].right
    /\ challenge' =
         [challenge EXCEPT ![c].attempts = request[r].seen.attempts + 1]
    /\ tries' = [tries EXCEPT ![c] = @ + 1]
    /\ Goto(r, "incr")
    /\ UNCHANGED <<now, account, redis, sent, logins, failed, overlapped, broke>>

RightCode(r) ==
    /\ At(r, "compare")
    /\ request[r].op = "verify"
    /\ request[r].right
    /\ IF account[request[r].account] = "active" THEN Goto(r, "use")
                                                 ELSE Answer(r, "none")
    /\ UNCHANGED <<now, account, challenge, redis, history, broke>>

UseChallenge(r) ==
    /\ At(r, "use")
    /\ challenge' = [challenge EXCEPT ![request[r].challenge].used = TRUE]
    /\ Goto(r, "clear")
    /\ UNCHANGED <<now, account, redis, history, broke>>

-----------------------------------------------------------------------------
(* The owner's password.                                                    *)

SendPassword(r, o, right) ==
    /\ At(r, "unsent")
    /\ Begin(r, "check", "password", None, o, right, 0)
    /\ UNCHANGED <<now, account, challenge, redis, history, broke>>

\* An owner who does not exist fails like one with another password.
ComparePassword(r) ==
    /\ At(r, "compare")
    /\ request[r].op = "password"
    /\ IF ~request[r].right \/ account[request[r].account] = "deleted"
         THEN Goto(r, "incr")
         ELSE IF account[request[r].account] = "inactive"
           THEN Answer(r, "none")
           ELSE request' = [request EXCEPT ![r].pc = "clear",
                  ![r].first = account[request[r].account] = "new"]
    /\ UNCHANGED <<now, account, challenge, redis, history, broke>>

\* With the token of a first login, or of a mail that resets the password;
\* reset_password does the same for an owner who is logged in.
SetPassword(o) ==
    /\ account[o] = "new"
    /\ account' = [account EXCEPT ![o] = "active"]
    /\ UNCHANGED <<now, challenge, redis, request, history, broke>>

-----------------------------------------------------------------------------
(* Success and failure, in Redis.                                           *)

\* The failures of the account are cleared and it is logged in.
Succeed(r) ==
    LET a == request[r].account IN
    /\ At(r, "clear")
    /\ failures' = [failures EXCEPT ![a] = NoFailures]
    /\ failed' = [failed EXCEPT ![a] = {}]
    /\ logins' = IF request[r].op = "verify"
                   THEN logins \cup
                          {[by |-> r, challenge |-> request[r].challenge,
                            user |-> a, code |-> request[r].seen.code]}
                   ELSE logins
    /\ Answer(r, IF request[r].first THEN "temporary" ELSE "token")
    /\ UNCHANGED <<now, account, challenge, locked, rate, sent, tries,
                   overlapped, broke>>

\* Mutant: the counter is set to one, and never incremented.
CountAnew(a) == [failures[a] EXCEPT !.count = 1, !.expires = Never]

\* A counter that expired starts again, without a lifetime of its own.
Count(a) ==
    IF failures[a].expires > now
      THEN [failures[a] EXCEPT !.count = @ + 1]
      ELSE [count |-> 1, expires |-> Never]

\* What follows when n failures are counted.
CompareCount(r, n) == IF n >= Threshold THEN Goto(r, "lock")
                                        ELSE Answer(r, "none")

Increment(r) ==
    LET a == request[r].account IN
    /\ At(r, "incr")
    /\ failures' = [failures EXCEPT ![a] = Count(a)]
    /\ failed' = [failed EXCEPT ![a] = @ \cup {<<r, now>>}]
    /\ IF Count(a).count = 1 THEN Goto(r, "expire")
                             ELSE CompareCount(r, Count(a).count)
    /\ UNCHANGED <<now, account, challenge, locked, rate, sent, logins, tries,
                   overlapped, broke>>

\* The first failure gives the counter its lifetime, if it still exists.
SetLifetime(r) ==
    LET a == request[r].account IN
    /\ At(r, "expire")
    /\ failures' = IF failures[a].expires > now
                     THEN [failures EXCEPT ![a].expires = now + Window]
                     ELSE failures
    /\ CompareCount(r, 1)
    /\ UNCHANGED <<now, account, challenge, locked, rate, history, broke>>

Lock(r) ==
    LET a == request[r].account IN
    /\ At(r, "lock")
    /\ locked' = [locked EXCEPT ![a] = now + LockTTL]
    /\ Goto(r, "reset")
    /\ UNCHANGED <<now, account, challenge, failures, rate, history, broke>>

ResetCount(r) ==
    LET a == request[r].account IN
    /\ At(r, "reset")
    /\ failures' = [failures EXCEPT ![a] = NoFailures]
    /\ failed' = [failed EXCEPT ![a] = {}]
    /\ Answer(r, "none")
    /\ UNCHANGED <<now, account, challenge, locked, rate, sent, logins, tries,
                   overlapped, broke>>

-----------------------------------------------------------------------------
(* The surroundings.                                                        *)

\* A call of Redis or of Telegram fails, or the process dies: the request
\* ends where it is, with what it has committed. Once is the bound.
BreakOff(r) ==
    /\ ~broke
    /\ InFlight(r)
    /\ Answer(r, "none")
    /\ broke' = TRUE
    /\ UNCHANGED <<now, account, challenge, redis, history>>

\* An administrator deactivates or deletes an account. The login of a user
\* ends alike in both cases. One exclusion is the bound.
Exclude(a, status) ==
    /\ \A b \in Accounts : account[b] \in {"active", "new"}
    /\ account[a] = "active"
    /\ status = "deleted" => a \in Owners
    /\ account' = [account EXCEPT ![a] = status]
    /\ UNCHANGED <<now, challenge, redis, request, history, broke>>

Tick ==
    /\ now < MaxTime
    /\ now' = now + 1
    /\ UNCHANGED <<account, challenge, redis, request, history, broke>>

Step(r) ==
    \/ CheckRate(r) \/ StoreCode(r) \/ SetRate(r) \/ SendCode(r)
    \/ CheckLock(r) \/ WrongCode(r) \/ RightCode(r) \/ UseChallenge(r)
    \/ ComparePassword(r)
    \/ Succeed(r) \/ Increment(r) \/ SetLifetime(r)
    \/ Lock(r) \/ ResetCount(r)
    \/ BreakOff(r)

Next ==
    \/ \E c \in Challenges : CreateChallenge(c)
    \/ \E r \in Starts, c \in Challenges, u \in Users : SendStart(r, c, u)
    \/ \E r \in Verifications, c \in Challenges :
         \E code \in {s[1] : s \in sent} \cup {None} : SendVerify(r, c, code)
    \/ \E r \in Passwords, o \in Owners, right \in BOOLEAN :
         SendPassword(r, o, right)
    \/ \E r \in Requests : Step(r)
    \/ \E o \in Owners : SetPassword(o)
    \/ \E a \in Accounts, status \in {"inactive", "deleted"} :
         Exclude(a, status)
    \/ Tick

Spec == Init /\ [][Next]_vars

-----------------------------------------------------------------------------

\* Whoever logs in with a code is the user whom the bot sent this code, also
\* when the link was opened by several users in turn, or again by the same;
\* only two openings at once may mix the user of one with the code of the
\* other, because unchanged columns are not written.
LoginIsTheirs ==
    \A l \in logins :
        <<"start", l.challenge>> \notin overlapped => <<l.code, l.user>> \in sent

\* Verifications of a challenge one after the other log in at most once and
\* try at most MaxAttempts wrong codes, however many codes the bot sent for
\* it; the row is read before the lock is looked at and written afterwards.
ChallengeSpent ==
    \A c \in Challenges : <<"verify", c>> \notin overlapped =>
        /\ Cardinality({l \in logins : l.challenge = c}) <= 1
        /\ tries[c] <= MaxAttempts

Quiet(a) == \A r \in Requests : InFlight(r) => request[r].account # a

\* Failures lock the account in time: as windows of failures follow each
\* other and each bears fewer than Threshold, no span of a window's length
\* has more than two of them bear without a lock. A request that is broken
\* off between the counter and its lifetime or its lock is the exception.
FailuresLock ==
    \A a \in Accounts : Quiet(a) /\ ~broke =>
        Cardinality({f \in failed[a] : f[2] + Window > now})
            <= 2 * (Threshold - 1)

\* When the page learns that the code was sent and no update of the bot is
\* at work on the challenge, the code that the challenge waits for was sent.
CodesAreSent ==
    \A c \in Challenges :
        /\ challenge[c] # None
        /\ ChallengeStatus(c) = "otp_sent"
        /\ Working("start", c) = {}
        /\ ~broke
        => \E u \in Users : <<challenge[c].code, u>> \in sent

=============================================================================
