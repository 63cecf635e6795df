---------------------------- MODULE Registration ----------------------------
(***************************************************************************)
(* How people become users of one company: an owner or an admin creates an *)
(* invite, the person connects a Telegram account to a registration        *)
(* challenge, and telegram_register makes the user, all in the database.   *)
(*                                                                         *)
(* Every handler reads in several statements and writes in one transaction *)
(* at its end, at READ COMMITTED. What stops two handlers that read the    *)
(* same thing is what the database checks when they write: two unique      *)
(* indexes on users, and the number of rows an UPDATE matched.             *)
(***************************************************************************)
EXTENDS Naturals, FiniteSets

CONSTANTS
    Invites,       \* ids of invite tokens
    Challenges,    \* ids of registration challenges
    Accounts,      \* Telegram accounts
    Phones,        \* phone numbers
    NoPhone,       \* no phone number: neither checked nor unique
    InvitePhones,  \* what invitations may carry: phones, or NoPhone
    FormPhones,    \* what the registration form may carry, likewise
    Requests,      \* requests, each sent at most once
    MaxSeats,      \* the contract's limit for the invited role
    None           \* no account

ASSUME RegistrationAssumption ==
    /\ InvitePhones \cup FormPhones \subseteq Phones \cup {NoPhone}
    /\ NoPhone \notin Phones /\ None \notin Accounts
    /\ MaxSeats \in Nat

VARIABLES
    invite,      \* invite[i]: the invite token
    challenge,   \* challenge[h]: the registration challenge
    user,        \* user[r]: the user that request r made
    request,     \* request[r]: how far request r is
    overlapped   \* history: a request was sent before another was answered

vars == <<invite, challenge, user, request, overlapped>>

NoRow == [state |-> "none"]

InviteRows ==
    {NoRow} \cup [state : {"open", "used", "revoked"},
                  phone : Phones \cup {NoPhone}, expired : BOOLEAN]

ChallengeRows ==
    {NoRow} \cup [state : {"open", "used"},
                  account : Accounts \cup {None}, company : BOOLEAN,
                  expired : BOOLEAN]

\* A deleted user keeps its row, unless the deletion is a hard one.
UserRows ==
    {NoRow} \cup [state : {"user", "deleted"}, account : Accounts,
                  phone : Phones \cup {NoPhone}, invite : Invites]

RequestStates ==
    {[pc |-> "unsent"], [pc |-> "answered"]}
        \cup [pc : {"new_invite"}, phone : Phones \cup {NoPhone}]
        \cup [pc : {"invited"}, phone : Phones \cup {NoPhone}]
        \cup [pc : {"phone_check"}, phone : Phones \cup {NoPhone}]
        \cup [pc : {"delete"}, id : Invites]
        \cup [pc : {"connect"}, id : Challenges, account : Accounts]
        \cup [pc : {"token"}, id : Challenges, account : Accounts]
        \cup [pc : {"account", "phone", "commit"}, id : Challenges,
              account : Accounts, invite : Invites,
              phone : Phones \cup {NoPhone}]

RowsOK ==
    /\ invite \in [Invites -> InviteRows]
    /\ challenge \in [Challenges -> ChallengeRows]
    /\ user \in [Requests -> UserRows]
    /\ request \in [Requests -> RequestStates]

TypeOK == RowsOK /\ overlapped \in BOOLEAN

Init ==
    /\ invite = [i \in Invites |-> NoRow]
    /\ challenge = [h \in Challenges |-> NoRow]
    /\ user = [r \in Requests |-> NoRow]
    /\ request = [r \in Requests |-> [pc |-> "unsent"]]
    /\ overlapped = FALSE

-----------------------------------------------------------------------------

InFlight(r) == request[r].pc \notin {"unsent", "answered"}

Send(r) ==
    /\ request[r].pc = "unsent"
    /\ overlapped' = (overlapped \/ \E q \in Requests : InFlight(q))

Goto(r, state) == request' = [request EXCEPT ![r] = state]

\* The answer itself, a success or an error, plays no further part.
Answer(r) == Goto(r, [pc |-> "answered"])

\* Mutant: used_at is not looked at.
ValidUsed(row) == row.state \in {"open", "used"} /\ ~row.expired

Valid(row) == row.state = "open" /\ ~row.expired

Rows == {u \in Requests : user[u].state # "none"}

Users == {u \in Requests : user[u].state = "user"}

PhoneTaken(p) == p # NoPhone /\ \E u \in Users : user[u].phone = p

AccountTaken(a) == \E u \in Users : user[u].account = a

-----------------------------------------------------------------------------
(* Invitations: create_invite_token of the company's admins looks for a    *)
(* user and then for an active invite with the phone; invite_admin of the  *)
(* owner counts the users of the role and looks for a user.                *)

SendInvite(r) ==
    /\ Send(r)
    /\ \E p \in InvitePhones \ {NoPhone} :
        IF PhoneTaken(p) THEN Answer(r)
        ELSE Goto(r, [pc |-> "invited", phone |-> p])
    /\ UNCHANGED <<invite, challenge, user>>

ActiveInvites(p) == {i \in Invites : Valid(invite[i]) /\ invite[i].phone = p}

Invited(p) == ActiveInvites(p) # {}

\* With two active invites the query raises, with one it is a conflict.
CheckInvited(r) ==
    /\ request[r].pc = "invited"
    /\ LET p == request[r].phone IN
        IF Invited(p) THEN Answer(r)
        ELSE Goto(r, [pc |-> "new_invite", phone |-> p])
    /\ UNCHANGED <<invite, challenge, user, overlapped>>

SendInviteAdmin(r) ==
    /\ Send(r)
    /\ IF Cardinality(Users) >= MaxSeats THEN Answer(r)
       ELSE \E p \in InvitePhones :
                Goto(r, [pc |-> "phone_check", phone |-> p])
    /\ UNCHANGED <<invite, challenge, user>>

CheckInvitedPhone(r) ==
    /\ request[r].pc = "phone_check"
    /\ LET p == request[r].phone IN
        IF PhoneTaken(p) THEN Answer(r)
        ELSE Goto(r, [pc |-> "new_invite", phone |-> p])
    /\ UNCHANGED <<invite, challenge, user, overlapped>>

CreateInvite(r) ==
    /\ request[r].pc = "new_invite"
    /\ \E i \in Invites :
        /\ invite[i] = NoRow
        /\ invite' = [invite EXCEPT ![i] =
                [state |-> "open", phone |-> request[r].phone, expired |-> FALSE]]
    /\ Answer(r)
    /\ UNCHANGED <<challenge, user, overlapped>>

-----------------------------------------------------------------------------
(* revoke_invite_token *)

Revocable(i) == invite[i].state # "used"

SendRevoke(r) ==
    /\ Send(r)
    /\ \E i \in Invites :
        /\ invite[i].state \in {"open", "used"}
        /\ IF Revocable(i) THEN Goto(r, [pc |-> "delete", id |-> i])
           ELSE Answer(r)
    /\ UNCHANGED <<invite, challenge, user>>

DeleteInvite(r) ==
    /\ request[r].pc = "delete"
    /\ invite' = [invite EXCEPT ![request[r].id].state = "revoked"]
    /\ Answer(r)
    /\ UNCHANGED <<challenge, user, overlapped>>

-----------------------------------------------------------------------------
(* Challenges *)

\* `company` is whether the challenge knows its company.
NewChallenge(h, a, known) ==
    challenge' = [challenge EXCEPT ![h] =
        [state |-> "open", account |-> a, company |-> known, expired |-> FALSE]]

\* create_register_challenge: any valid invite will do, and the challenge
\* is good for every other invite as well.
CreateRegisterChallenge(h) ==
    /\ challenge[h] = NoRow
    /\ \E i \in Invites : Valid(invite[i])
    /\ NewChallenge(h, None, TRUE)
    /\ UNCHANGED <<invite, user, request, overlapped>>

\* The bot's command /register: _handle_register.
RegisterCommand(h) ==
    /\ challenge[h] = NoRow
    /\ \E a \in Accounts : NewChallenge(h, a, FALSE)
    /\ UNCHANGED <<invite, user, request, overlapped>>

\* The bot's deep link: _handle_register_start reads the challenge, looks for
\* the account among the users of its company if it has one, asks Telegram
\* for the profile, and then stores the account.
SendStart(r) ==
    /\ Send(r)
    /\ \E h \in Challenges, a \in Accounts :
        /\ challenge[h] # NoRow
        /\ IF /\ Valid(challenge[h])
              /\ challenge[h].company => ~AccountTaken(a)
           THEN Goto(r, [pc |-> "connect", id |-> h, account |-> a])
           ELSE Answer(r)
    /\ UNCHANGED <<invite, challenge, user>>

Connect(r) ==
    /\ request[r].pc = "connect"
    /\ challenge' = [challenge EXCEPT
                        ![request[r].id].account = request[r].account]
    /\ Answer(r)
    /\ UNCHANGED <<invite, user, overlapped>>

-----------------------------------------------------------------------------
(* telegram_register: the challenge, the invite, the account and the phone *)
(* are looked at one after the other, then the user is inserted and invite *)
(* and challenge are marked in one transaction.                            *)

Connected(h) == Valid(challenge[h]) /\ challenge[h].account # None

SendRegister(r) ==
    /\ Send(r)
    /\ \E h \in Challenges :
        /\ challenge[h] # NoRow
        /\ IF Connected(h)
           THEN Goto(r, [pc |-> "token", id |-> h,
                         account |-> challenge[h].account])
           ELSE Answer(r)
    /\ UNCHANGED <<invite, challenge, user>>

ReadInvite(r) ==
    /\ request[r].pc = "token"
    /\ \E i \in Invites, p \in FormPhones :
        IF ~Valid(invite[i]) THEN Answer(r)
        ELSE Goto(r, [pc |-> "account", id |-> request[r].id,
                      account |-> request[r].account, invite |-> i,
                      phone |-> IF p # NoPhone THEN p ELSE invite[i].phone])
    /\ UNCHANGED <<invite, challenge, user, overlapped>>

CheckAccount(r) ==
    /\ request[r].pc = "account"
    /\ IF AccountTaken(request[r].account) THEN Answer(r)
       ELSE Goto(r, [request[r] EXCEPT !.pc = "phone"])
    /\ UNCHANGED <<invite, challenge, user, overlapped>>

CheckPhone(r) ==
    /\ request[r].pc = "phone"
    /\ IF PhoneTaken(request[r].phone) THEN Answer(r)
       ELSE Goto(r, [request[r] EXCEPT !.pc = "commit"])
    /\ UNCHANGED <<invite, challenge, user, overlapped>>

\* Mutant: there is no unique index on the phone.
UniqueAccount(a, p) == \A u \in Rows : user[u].account # a

\* Mutant: there is no unique index on the Telegram account.
UniquePhone(a, p) == \A u \in Rows : p # NoPhone => user[u].phone # p

\* uq_company_telegram_user_id and uq_company_phone_not_empty count deleted
\* users, too.
Unique(a, p) ==
    \A u \in Rows : user[u].account # a /\ (p # NoPhone => user[u].phone # p)

\* Mutant: the UPDATE of an invite is a statement whose result is not read.
AlwaysUpdatable(i) == TRUE

\* The UPDATE of an invite that was deleted matches no row, which the object
\* mapper treats as an error.
Updatable(i) == invite[i].state # "revoked"

Commit(r) ==
    /\ request[r].pc = "commit"
    /\ LET q == request[r] IN
        IF Unique(q.account, q.phone) /\ Updatable(q.invite)
        THEN /\ user' = [user EXCEPT ![r] =
                    [state |-> "user", account |-> q.account,
                     phone |-> q.phone, invite |-> q.invite]]
             /\ invite' = [invite EXCEPT ![q.invite].state = "used"]
             /\ challenge' = [challenge EXCEPT ![q.id].state = "used",
                                               ![q.id].company = TRUE]
        ELSE UNCHANGED <<invite, challenge, user>>
    /\ Answer(r)
    /\ UNCHANGED overlapped

-----------------------------------------------------------------------------

\* delete_user, soft or hard.
DeleteUser(u) ==
    /\ user[u].state = "user"
    /\ \/ user' = [user EXCEPT ![u].state = "deleted"]
       \/ user' = [user EXCEPT ![u] = NoRow]
    /\ UNCHANGED <<invite, challenge, request, overlapped>>

\* The clock passes expires_at.
ExpireInvite(i) ==
    /\ invite[i].state = "open" /\ ~invite[i].expired
    /\ invite' = [invite EXCEPT ![i].expired = TRUE]
    /\ UNCHANGED <<challenge, user, request, overlapped>>

ExpireChallenge(h) ==
    /\ challenge[h].state = "open" /\ ~challenge[h].expired
    /\ challenge' = [challenge EXCEPT ![h].expired = TRUE]
    /\ UNCHANGED <<invite, user, request, overlapped>>

Handle(r) ==
    \/ SendInvite(r) \/ CheckInvited(r)
    \/ SendInviteAdmin(r) \/ CheckInvitedPhone(r) \/ CreateInvite(r)
    \/ SendRevoke(r) \/ DeleteInvite(r)
    \/ SendStart(r) \/ Connect(r)
    \/ SendRegister(r) \/ ReadInvite(r) \/ CheckAccount(r) \/ CheckPhone(r)
    \/ Commit(r)

Next ==
    \/ \E r \in Requests : Handle(r) \/ DeleteUser(r)
    \/ \E h \in Challenges :
        CreateRegisterChallenge(h) \/ RegisterCommand(h) \/ ExpireChallenge(h)
    \/ \E i \in Invites : ExpireInvite(i)

Spec == Init /\ [][Next]_vars

-----------------------------------------------------------------------------
(* Properties *)

\* Two users, deleted or not, never share an account or a phone, although
\* registrations look for them before they insert.
DistinctUsers ==
    \A u, v \in Rows :
        (\/ user[u].account = user[v].account
         \/ user[u].phone = user[v].phone /\ user[u].phone # NoPhone) => u = v

\* An invite makes at most one user (telegram_register answers "This invite
\* token has already been used"). Two registrations may both read it unused;
\* the second insert fails only when both carry the same phone.
InviteOnce ==
    \A u, v \in Rows : user[u].invite = user[v].invite => u = v

\* Requests that do not overlap use an invite once, whatever phones and
\* accounts they carry and whatever is revoked or deleted in between.
UsedOnceAlone == ~overlapped => InviteOnce

\* A user comes from an invite that exists when the user is inserted: a
\* registration that read the invite before it was revoked fails.
MadeFromInvite ==
    \A r \in Requests :
        (user[r] = NoRow /\ user'[r] # NoRow)
            => invite[user'[r].invite].state \in {"open", "used"}

RevocationHolds == [][MadeFromInvite]_vars

\* Unless requests overlap, an invite that made a user is never revoked
\* (revoke_invite_token: "Cannot revoke already-used tokens").
UsedStaysUsed ==
    ~overlapped =>
        \A i \in Invites : invite[i].state = "used" => invite'[i].state = "used"

UsedNotRevoked == [][UsedStaysUsed]_vars

-----------------------------------------------------------------------------
(* What the repository says and the code does not do.                      *)

\* "An active invite already exists for this phone number"
\* (company/users.py:506). With two, every later invitation of this phone is
\* answered with an error; the owner's invite_admin does not look.
OneActiveInvite == \A p \in Phones : Cardinality(ActiveInvites(p)) =< 1

\* "Raise 403 if adding another user of this role would exceed the contract
\* limit" (contract_enforcement.py:64).
SeatsLimited == Cardinality(Users) =< MaxSeats

=============================================================================
