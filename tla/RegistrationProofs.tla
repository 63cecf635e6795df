-------------------------- MODULE RegistrationProofs --------------------------
(***************************************************************************)
(* What is proved of Registration, for all sets of invites, challenges,    *)
(* accounts, phones and requests, and whatever the limits of the contract. *)
(***************************************************************************)
EXTENDS Registration, TLAPS

-----------------------------------------------------------------------------
(* Type correctness *)

LEMMA InitTyped == Init => RowsOK
  BY DEF Init, RowsOK, InviteRows, ChallengeRows, UserRows, RequestStates

LEMMA RequestTyped ==
  ASSUME RowsOK, NEW r \in Requests, NEW state \in RequestStates, Goto(r, state)
  PROVE  request' \in [Requests -> RequestStates]
  BY DEF RowsOK, Goto

LEMMA AnswerTyped ==
  ASSUME RowsOK, NEW r \in Requests, Answer(r)
  PROVE  request' \in [Requests -> RequestStates]
  BY RequestTyped DEF Answer, RequestStates

\* What the steps in the middle of a registration know.
LEMMA RegisterTyped ==
  ASSUME RowsOK, NEW r \in Requests,
         request[r].pc \in {"account", "phone", "commit"}
  PROVE  /\ request[r].id \in Challenges
         /\ request[r].account \in Accounts
         /\ request[r].invite \in Invites
         /\ request[r].phone \in Phones \cup {NoPhone}
         /\ \A pc \in {"account", "phone", "commit"} :
                [request[r] EXCEPT !.pc = pc] \in RequestStates
  <1>1. request[r] \in [pc : {"account", "phone", "commit"}, id : Challenges,
                        account : Accounts, invite : Invites,
                        phone : Phones \cup {NoPhone}]
    BY DEF RowsOK, RequestStates
  <1>2. \A pc \in {"account", "phone", "commit"} :
            [request[r] EXCEPT !.pc = pc]
                \in [pc : {"account", "phone", "commit"}, id : Challenges,
                     account : Accounts, invite : Invites,
                     phone : Phones \cup {NoPhone}]
    BY <1>1
  <1> QED BY <1>1, <1>2 DEF RequestStates

Invitation(r) ==
    \/ SendInvite(r) \/ CheckInvited(r)
    \/ SendInviteAdmin(r) \/ CheckInvitedPhone(r)

LEMMA InvitationTyped ==
  ASSUME RowsOK, NEW r \in Requests, Invitation(r)
  PROVE  request' \in [Requests -> RequestStates]
  <1>1. CASE SendInvite(r)
    <2>1. PICK p \in InvitePhones \ {NoPhone} :
              Answer(r) \/ Goto(r, [pc |-> "invited", phone |-> p])
      BY <1>1 DEF SendInvite
    <2>2. [pc |-> "invited", phone |-> p] \in RequestStates
      BY RegistrationAssumption DEF RequestStates
    <2> QED BY <2>1, <2>2, AnswerTyped, RequestTyped
  <1>2. CASE CheckInvited(r)
    <2>1. request[r].phone \in Phones \cup {NoPhone}
      BY <1>2 DEF CheckInvited, RowsOK, RequestStates
    <2>2. [pc |-> "new_invite", phone |-> request[r].phone] \in RequestStates
      BY <2>1 DEF RequestStates
    <2> QED BY <1>2, <2>2, AnswerTyped, RequestTyped DEF CheckInvited
  <1>3. CASE SendInviteAdmin(r)
    <2>1. CASE Answer(r)
      BY <2>1, AnswerTyped
    <2>2. CASE \E p \in InvitePhones : Goto(r, [pc |-> "phone_check", phone |-> p])
      <3>1. PICK p \in InvitePhones : Goto(r, [pc |-> "phone_check", phone |-> p])
        BY <2>2
      <3>2. [pc |-> "phone_check", phone |-> p] \in RequestStates
        BY RegistrationAssumption DEF RequestStates
      <3> QED BY <3>1, <3>2, RequestTyped
    <2> QED BY <1>3, <2>1, <2>2 DEF SendInviteAdmin
  <1>4. CASE CheckInvitedPhone(r)
    <2>1. request[r].phone \in Phones \cup {NoPhone}
      BY <1>4 DEF CheckInvitedPhone, RowsOK, RequestStates
    <2>2. [pc |-> "new_invite", phone |-> request[r].phone] \in RequestStates
      BY <2>1 DEF RequestStates
    <2> QED BY <1>4, <2>2, AnswerTyped, RequestTyped DEF CheckInvitedPhone
  <1> QED BY <1>1, <1>2, <1>3, <1>4 DEF Invitation

Registering(r) ==
    SendRegister(r) \/ ReadInvite(r) \/ CheckAccount(r) \/ CheckPhone(r)

LEMMA RegisteringTyped ==
  ASSUME RowsOK, NEW r \in Requests, Registering(r)
  PROVE  request' \in [Requests -> RequestStates]
  <1>1. CASE SendRegister(r)
    <2>1. PICK h \in Challenges :
              \/ Answer(r)
              \/ /\ Connected(h)
                 /\ Goto(r, [pc |-> "token", id |-> h, account |-> challenge[h].account])
      BY <1>1 DEF SendRegister
    <2>2. CASE Answer(r)
      BY <2>2, AnswerTyped
    <2>3. CASE /\ Connected(h)
               /\ Goto(r, [pc |-> "token", id |-> h, account |-> challenge[h].account])
      <3>1. challenge[h].account \in Accounts
        BY <2>3 DEF Connected, Valid, RowsOK, ChallengeRows, NoRow
      <3>2. [pc |-> "token", id |-> h, account |-> challenge[h].account] \in RequestStates
        BY <3>1 DEF RequestStates
      <3> QED BY <2>3, <3>2, RequestTyped
    <2> QED BY <2>1, <2>2, <2>3
  <1>2. CASE ReadInvite(r)
    <2>1. PICK i \in Invites, p \in FormPhones :
              \/ Answer(r)
              \/ /\ Valid(invite[i])
                 /\ Goto(r, [pc |-> "account", id |-> request[r].id,
                             account |-> request[r].account, invite |-> i,
                             phone |-> IF p # NoPhone THEN p ELSE invite[i].phone])
      BY <1>2 DEF ReadInvite
    <2>2. CASE Answer(r)
      BY <2>2, AnswerTyped
    <2>3. CASE ~Answer(r)
      <3>1. request[r].id \in Challenges /\ request[r].account \in Accounts
        BY <1>2 DEF ReadInvite, RowsOK, RequestStates
      <3>2. invite[i].phone \in Phones \cup {NoPhone}
        BY <2>1, <2>3 DEF Valid, RowsOK, InviteRows, NoRow
      <3>3. (IF p # NoPhone THEN p ELSE invite[i].phone) \in Phones \cup {NoPhone}
        BY <3>2, RegistrationAssumption
      <3>4. PICK q \in Phones \cup {NoPhone} :
                Goto(r, [pc |-> "account", id |-> request[r].id,
                         account |-> request[r].account, invite |-> i, phone |-> q])
        BY <2>1, <2>3, <3>3
      <3>5. [pc |-> "account", id |-> request[r].id, account |-> request[r].account,
             invite |-> i, phone |-> q] \in RequestStates
        BY <3>1 DEF RequestStates
      <3> QED BY <3>4, <3>5, RequestTyped
    <2> QED BY <2>2, <2>3
  <1>3. CASE CheckAccount(r)
    BY <1>3, RegisterTyped, AnswerTyped, RequestTyped DEF CheckAccount
  <1>4. CASE CheckPhone(r)
    BY <1>4, RegisterTyped, AnswerTyped, RequestTyped DEF CheckPhone
  <1> QED BY <1>1, <1>2, <1>3, <1>4 DEF Registering

\* An invite token, once there, keeps its phone.
InvitesKept ==
    \A i \in Invites :
        invite[i] # NoRow => invite'[i] # NoRow /\ invite'[i].phone = invite[i].phone

LEMMA InviteStateTyped ==
  ASSUME RowsOK, NEW i \in Invites, invite[i] # NoRow,
         NEW s \in {"open", "used", "revoked"},
         invite' = [invite EXCEPT ![i].state = s]
  PROVE  invite' \in [Invites -> InviteRows] /\ InvitesKept
  <1>1. invite[i] \in [state : {"open", "used", "revoked"},
                       phone : Phones \cup {NoPhone}, expired : BOOLEAN]
    BY DEF RowsOK, InviteRows
  <1>2. PICK row \in InviteRows :
            /\ row # NoRow /\ row.phone = invite[i].phone
            /\ invite' = [invite EXCEPT ![i] = row]
    <2>1. [invite[i] EXCEPT !.state = s]
            \in [state : {"open", "used", "revoked"},
                 phone : Phones \cup {NoPhone}, expired : BOOLEAN]
      BY <1>1
    <2>2. [invite[i] EXCEPT !.state = s].phone = invite[i].phone
      BY <1>1
    <2>3. [invite[i] EXCEPT !.state = s] # NoRow
      BY <2>1 DEF NoRow
    <2> QED BY <2>1, <2>2, <2>3 DEF InviteRows
  <1> QED BY <1>2 DEF RowsOK, InvitesKept

\* Requests in the middle of a registration know their invite.
Known ==
    \A r \in Requests :
        request[r].pc \in {"account", "phone", "commit"}
            => invite[request[r].invite] # NoRow

\* Deletions are asked for of invites that exist.
Deletable ==
    \A r \in Requests : request[r].pc = "delete" => invite[request[r].id] # NoRow

\* Requests that store an account read a challenge that exists, and so do
\* registrations.
Connectable ==
    \A r \in Requests :
        request[r].pc \in {"connect", "token", "account", "phone", "commit"}
            => challenge[request[r].id] # NoRow

IInv == RowsOK /\ Known /\ Deletable /\ Connectable

LEMMA InitIInv == Init => IInv
  BY InitTyped DEF Init, IInv, Known, Deletable, Connectable

LEMMA CommitTyped ==
  ASSUME IInv, NEW r \in Requests, Commit(r)
  PROVE  RowsOK' /\ InvitesKept
         /\ \A h \in Challenges : challenge[h] # NoRow => challenge'[h] # NoRow
  <1> DEFINE q == request[r]
  <1>1. /\ q.id \in Challenges /\ q.account \in Accounts /\ q.invite \in Invites
        /\ q.phone \in Phones \cup {NoPhone}
    BY RegisterTyped DEF Commit, IInv
  <1>2. request' \in [Requests -> RequestStates]
    BY AnswerTyped DEF Commit, IInv
  <1>3. CASE Unique(q.account, q.phone) /\ Updatable(q.invite)
    <2>1. /\ user' = [user EXCEPT ![r] =
                [state |-> "user", account |-> q.account,
                 phone |-> q.phone, invite |-> q.invite]]
          /\ invite' = [invite EXCEPT ![q.invite].state = "used"]
          /\ challenge' = [challenge EXCEPT ![q.id].state = "used",
                                            ![q.id].company = TRUE]
      BY <1>3 DEF Commit
    <2>2. user' \in [Requests -> UserRows]
      BY <1>1, <2>1 DEF IInv, RowsOK, UserRows
    <2>3. invite[q.invite] # NoRow
      BY DEF IInv, Known, Commit
    <2>4. invite' \in [Invites -> InviteRows] /\ InvitesKept
      BY <1>1, <2>1, <2>3, InviteStateTyped DEF IInv
    <2>5. challenge[q.id] # NoRow
      BY DEF IInv, Connectable, Commit
    <2>6. challenge[q.id] \in [state : {"open", "used"},
                               account : Accounts \cup {None},
                 company : BOOLEAN, expired : BOOLEAN]
      BY <1>1, <2>5 DEF IInv, RowsOK, ChallengeRows
    <2>7. [challenge[q.id] EXCEPT !.state = "used", !.company = TRUE]
            \in [state : {"open", "used"}, account : Accounts \cup {None},
                 company : BOOLEAN, expired : BOOLEAN]
      BY <2>6
    <2>8. PICK row : /\ row \in ChallengeRows /\ row # NoRow
                     /\ challenge' = [challenge EXCEPT ![q.id] = row]
      BY <2>1, <2>7 DEF ChallengeRows, NoRow
    <2>9. challenge' \in [Challenges -> ChallengeRows]
      BY <2>8 DEF IInv, RowsOK
    <2>10. \A h \in Challenges : challenge[h] # NoRow => challenge'[h] # NoRow
      BY <2>8 DEF IInv, RowsOK
    <2> QED BY <1>2, <2>2, <2>4, <2>9, <2>10 DEF RowsOK
  <1>4. CASE ~(Unique(q.account, q.phone) /\ Updatable(q.invite))
    BY <1>2, <1>4 DEF Commit, IInv, RowsOK, InvitesKept
  <1> QED BY <1>3, <1>4

\* Every step keeps the types, the invites and the challenges.
StepKeeps ==
    /\ RowsOK'
    /\ InvitesKept
    /\ \A h \in Challenges : challenge[h] # NoRow => challenge'[h] # NoRow

LEMMA NextKeeps == IInv /\ [Next]_vars => StepKeeps
  <1> SUFFICES ASSUME IInv, [Next]_vars PROVE StepKeeps
    OBVIOUS
  <1>1. CASE UNCHANGED vars
    BY <1>1 DEF vars, IInv, RowsOK, StepKeeps, InvitesKept
  <1>2. ASSUME NEW r \in Requests, Invitation(r) \/ Registering(r) PROVE StepKeeps
    <2>1. request' \in [Requests -> RequestStates]
      BY <1>2, InvitationTyped, RegisteringTyped DEF IInv
    <2>2. UNCHANGED <<invite, challenge, user>>
      BY <1>2 DEF Invitation, Registering, SendInvite, CheckInvited, SendInviteAdmin,
                  CheckInvitedPhone, SendRegister, ReadInvite, CheckAccount, CheckPhone
    <2> QED BY <2>1, <2>2 DEF IInv, RowsOK, StepKeeps, InvitesKept
  <1>3. ASSUME NEW r \in Requests, CreateInvite(r) PROVE StepKeeps
    <2>1. request[r].phone \in Phones \cup {NoPhone}
      BY <1>3 DEF CreateInvite, IInv, RowsOK, RequestStates
    <2>2. PICK i \in Invites :
              /\ invite[i] = NoRow
              /\ invite' = [invite EXCEPT ![i] =
                    [state |-> "open", phone |-> request[r].phone, expired |-> FALSE]]
      BY <1>3 DEF CreateInvite
    <2>3. [state |-> "open", phone |-> request[r].phone, expired |-> FALSE] \in InviteRows
      BY <2>1 DEF InviteRows
    <2>4. invite' \in [Invites -> InviteRows] /\ InvitesKept
      BY <2>2, <2>3 DEF IInv, RowsOK, InvitesKept
    <2> QED BY <1>3, <2>4, AnswerTyped DEF CreateInvite, IInv, RowsOK, StepKeeps
  <1>4. ASSUME NEW r \in Requests, SendRevoke(r) PROVE StepKeeps
    <2>1. PICK i \in Invites : Answer(r) \/ Goto(r, [pc |-> "delete", id |-> i])
      BY <1>4 DEF SendRevoke
    <2>2. [pc |-> "delete", id |-> i] \in RequestStates
      BY DEF RequestStates
    <2>3. request' \in [Requests -> RequestStates]
      BY <2>1, <2>2, AnswerTyped, RequestTyped DEF IInv
    <2> QED BY <1>4, <2>3 DEF SendRevoke, IInv, RowsOK, StepKeeps, InvitesKept
  <1>5. ASSUME NEW r \in Requests, DeleteInvite(r) PROVE StepKeeps
    <2>1. request[r].id \in Invites
      BY <1>5 DEF DeleteInvite, IInv, RowsOK, RequestStates
    <2>2. invite' \in [Invites -> InviteRows] /\ InvitesKept
      BY <1>5, <2>1, InviteStateTyped DEF DeleteInvite, IInv, Deletable
    <2> QED BY <1>5, <2>2, AnswerTyped DEF DeleteInvite, IInv, RowsOK, StepKeeps
  <1>6. ASSUME NEW r \in Requests, SendStart(r) PROVE StepKeeps
    <2>1. PICK h \in Challenges, a \in Accounts :
              Answer(r) \/ Goto(r, [pc |-> "connect", id |-> h, account |-> a])
      BY <1>6 DEF SendStart
    <2>2. [pc |-> "connect", id |-> h, account |-> a] \in RequestStates
      BY DEF RequestStates
    <2>3. request' \in [Requests -> RequestStates]
      BY <2>1, <2>2, AnswerTyped, RequestTyped DEF IInv
    <2> QED BY <1>6, <2>3 DEF SendStart, IInv, RowsOK, StepKeeps, InvitesKept
  <1>7. ASSUME NEW r \in Requests, Connect(r) PROVE StepKeeps
    <2>1. request[r].id \in Challenges /\ request[r].account \in Accounts
      BY <1>7 DEF Connect, IInv, RowsOK, RequestStates
    <2>2. challenge[request[r].id] # NoRow
      BY <1>7 DEF Connect, IInv, Connectable
    <2>3. challenge[request[r].id] \in [state : {"open", "used"},
                    account : Accounts \cup {None},
                 company : BOOLEAN, expired : BOOLEAN]
      BY <2>1, <2>2 DEF IInv, RowsOK, ChallengeRows
    <2>4. [challenge[request[r].id] EXCEPT !.account = request[r].account]
            \in [state : {"open", "used"}, account : Accounts \cup {None},
                 company : BOOLEAN, expired : BOOLEAN]
      BY <2>1, <2>3
    <2>5. PICK row : /\ row \in ChallengeRows /\ row # NoRow
                     /\ challenge' = [challenge EXCEPT ![request[r].id] = row]
      BY <1>7, <2>4 DEF Connect, ChallengeRows, NoRow
    <2>6. /\ challenge' \in [Challenges -> ChallengeRows]
          /\ \A h \in Challenges : challenge[h] # NoRow => challenge'[h] # NoRow
      BY <2>5 DEF IInv, RowsOK
    <2> QED BY <1>7, <2>6, AnswerTyped DEF Connect, IInv, RowsOK, StepKeeps, InvitesKept
  <1>8. ASSUME NEW r \in Requests, Commit(r) PROVE StepKeeps
    BY <1>8, CommitTyped DEF StepKeeps
  <1>9. ASSUME NEW u \in Requests, DeleteUser(u) PROVE StepKeeps
    <2>1. user[u] \in [state : {"user", "deleted"}, account : Accounts,
                       phone : Phones \cup {NoPhone}, invite : Invites]
      BY <1>9 DEF DeleteUser, IInv, RowsOK, UserRows, NoRow
    <2>2. [user[u] EXCEPT !.state = "deleted"] \in UserRows /\ NoRow \in UserRows
      BY <2>1 DEF UserRows
    <2>3. user' \in [Requests -> UserRows]
      BY <1>9, <2>2 DEF DeleteUser, IInv, RowsOK
    <2> QED BY <1>9, <2>3 DEF DeleteUser, IInv, RowsOK, StepKeeps, InvitesKept
  <1>10. ASSUME NEW h \in Challenges,
                CreateRegisterChallenge(h) \/ RegisterCommand(h) \/ ExpireChallenge(h)
         PROVE  StepKeeps
    <2>1. PICK row \in ChallengeRows :
              /\ row # NoRow
              /\ challenge' = [challenge EXCEPT ![h] = row]
      <3>1. CASE CreateRegisterChallenge(h) \/ RegisterCommand(h)
        BY <3>1 DEF CreateRegisterChallenge, RegisterCommand, NewChallenge,
                    ChallengeRows, NoRow
      <3>2. CASE ExpireChallenge(h)
        <4>1. challenge[h] \in [state : {"open", "used"},
                                account : Accounts \cup {None},
                 company : BOOLEAN, expired : BOOLEAN]
          BY <3>2 DEF ExpireChallenge, IInv, RowsOK, ChallengeRows, NoRow
        <4>2. [challenge[h] EXCEPT !.expired = TRUE]
                \in [state : {"open", "used"}, account : Accounts \cup {None},
                 company : BOOLEAN, expired : BOOLEAN]
          BY <4>1
        <4> QED BY <3>2, <4>2 DEF ExpireChallenge, ChallengeRows, NoRow
      <3> QED BY <1>10, <3>1, <3>2
    <2>2. UNCHANGED <<invite, user, request>>
      BY <1>10 DEF CreateRegisterChallenge, RegisterCommand, ExpireChallenge
    <2> QED BY <2>1, <2>2 DEF IInv, RowsOK, StepKeeps, InvitesKept
  <1>11. ASSUME NEW i \in Invites, ExpireInvite(i) PROVE StepKeeps
    <2>1. invite[i] \in [state : {"open", "used", "revoked"},
                         phone : Phones \cup {NoPhone}, expired : BOOLEAN]
      BY <1>11 DEF ExpireInvite, IInv, RowsOK, InviteRows, NoRow
    <2>2. /\ [invite[i] EXCEPT !.expired = TRUE]
                \in [state : {"open", "used", "revoked"},
                     phone : Phones \cup {NoPhone}, expired : BOOLEAN]
          /\ [invite[i] EXCEPT !.expired = TRUE].phone = invite[i].phone
      BY <2>1
    <2>3. PICK row \in InviteRows :
              /\ row # NoRow /\ row.phone = invite[i].phone
              /\ invite' = [invite EXCEPT ![i] = row]
      BY <1>11, <2>2 DEF ExpireInvite, InviteRows, NoRow
    <2>4. invite' \in [Invites -> InviteRows] /\ InvitesKept
      BY <2>3 DEF IInv, RowsOK, InvitesKept
    <2> QED BY <1>11, <2>4 DEF ExpireInvite, IInv, RowsOK, StepKeeps
  <1> QED
    BY <1>1, <1>2, <1>3, <1>4, <1>5, <1>6, <1>7, <1>8, <1>9, <1>10, <1>11
       DEF Next, Handle, Invitation, Registering

\* The ids that requests carry.
LEMMA IdsTyped ==
  ASSUME RowsOK, NEW r \in Requests
  PROVE  /\ request[r].pc \in {"account", "phone", "commit"}
                => request[r].invite \in Invites
         /\ request[r].pc = "delete" => request[r].id \in Invites
         /\ request[r].pc \in {"connect", "token", "account", "phone", "commit"}
                => request[r].id \in Challenges
  <1>1. request[r].pc = "delete" => request[r].id \in Invites
    BY DEF RowsOK, RequestStates
  <1>2. request[r].pc \in {"connect", "token"} => request[r].id \in Challenges
    BY DEF RowsOK, RequestStates
  <1> QED BY <1>1, <1>2, RegisterTyped

\* A request that moves on to a state whose ids exist.
LEMMA MoveKnown ==
  ASSUME IInv, StepKeeps, NEW r \in Requests, NEW state, Goto(r, state),
         state.pc \in {"account", "phone", "commit"}
            => state.invite \in Invites /\ invite[state.invite] # NoRow,
         state.pc = "delete" => state.id \in Invites /\ invite[state.id] # NoRow,
         state.pc \in {"connect", "token", "account", "phone", "commit"}
            => state.id \in Challenges /\ challenge[state.id] # NoRow
  PROVE  Known' /\ Deletable' /\ Connectable'
  <1>1. /\ request'[r] = state
        /\ \A p \in Requests : p # r => request'[p] = request[p]
    BY DEF Goto, IInv, RowsOK
  <1>2. Known'
    BY <1>1, IdsTyped DEF Known, IInv, StepKeeps, InvitesKept
  <1>3. Deletable'
    BY <1>1, IdsTyped DEF Deletable, IInv, StepKeeps, InvitesKept
  <1>4. Connectable'
    BY <1>1, IdsTyped DEF Connectable, IInv, StepKeeps
  <1> QED BY <1>2, <1>3, <1>4

LEMMA AnswerKnown ==
  ASSUME IInv, StepKeeps, NEW r \in Requests, Answer(r)
  PROVE  Known' /\ Deletable' /\ Connectable'
  BY MoveKnown DEF Answer

LEMMA StayKnown ==
  ASSUME IInv, StepKeeps, UNCHANGED request
  PROVE  Known' /\ Deletable' /\ Connectable'
  <1>1. Known'
    BY IdsTyped DEF Known, IInv, StepKeeps, InvitesKept
  <1>2. Deletable'
    BY IdsTyped DEF Deletable, IInv, StepKeeps, InvitesKept
  <1>3. Connectable'
    BY IdsTyped DEF Connectable, IInv, StepKeeps
  <1> QED BY <1>1, <1>2, <1>3

LEMMA NextIInv == IInv /\ [Next]_vars => IInv'
  <1> SUFFICES ASSUME IInv, [Next]_vars PROVE Known' /\ Deletable' /\ Connectable'
    BY NextKeeps DEF IInv, StepKeeps
  <1>1. StepKeeps
    BY NextKeeps
  <1>2. CASE UNCHANGED request
    BY <1>1, <1>2, StayKnown
  <1>3. ASSUME NEW r \in Requests, Answer(r) PROVE Known' /\ Deletable' /\ Connectable'
    BY <1>1, <1>3, AnswerKnown
  <1>4. ASSUME NEW r \in Requests, Invitation(r)
        PROVE  Known' /\ Deletable' /\ Connectable'
    <2>1. \/ Answer(r)
          \/ \E p : Goto(r, [pc |-> "invited", phone |-> p])
          \/ \E p : Goto(r, [pc |-> "phone_check", phone |-> p])
          \/ \E p : Goto(r, [pc |-> "new_invite", phone |-> p])
      BY <1>4 DEF Invitation, SendInvite, CheckInvited, SendInviteAdmin, CheckInvitedPhone
    <2> QED BY <1>1, <1>3, <2>1, MoveKnown
  <1>5. ASSUME NEW r \in Requests, SendRevoke(r)
        PROVE  Known' /\ Deletable' /\ Connectable'
    <2>1. PICK i \in Invites :
              /\ invite[i] # NoRow
              /\ Answer(r) \/ Goto(r, [pc |-> "delete", id |-> i])
      BY <1>5 DEF SendRevoke, NoRow
    <2> QED BY <1>1, <1>3, <2>1, MoveKnown
  <1>6. ASSUME NEW r \in Requests, SendStart(r)
        PROVE  Known' /\ Deletable' /\ Connectable'
    <2>1. PICK h \in Challenges, a \in Accounts :
              /\ challenge[h] # NoRow
              /\ Answer(r) \/ Goto(r, [pc |-> "connect", id |-> h, account |-> a])
      BY <1>6 DEF SendStart
    <2> QED BY <1>1, <1>3, <2>1, MoveKnown
  <1>7. ASSUME NEW r \in Requests, SendRegister(r)
        PROVE  Known' /\ Deletable' /\ Connectable'
    <2>1. PICK h \in Challenges :
              /\ challenge[h] # NoRow
              /\ \/ Answer(r)
                 \/ Goto(r, [pc |-> "token", id |-> h, account |-> challenge[h].account])
      BY <1>7 DEF SendRegister
    <2> QED BY <1>1, <1>3, <2>1, MoveKnown
  <1>8. ASSUME NEW r \in Requests, ReadInvite(r)
        PROVE  Known' /\ Deletable' /\ Connectable'
    <2>1. CASE Answer(r)
      BY <1>3, <2>1
    <2>2. CASE ~Answer(r)
      <3>0. PICK i \in Invites :
                \E p \in FormPhones :
                    /\ Valid(invite[i])
                    /\ Goto(r, [pc |-> "account", id |-> request[r].id,
                                account |-> request[r].account, invite |-> i,
                                phone |-> IF p # NoPhone THEN p ELSE invite[i].phone])
        BY <1>8, <2>2 DEF ReadInvite
      <3>1. PICK p :
                /\ Valid(invite[i])
                /\ Goto(r, [pc |-> "account", id |-> request[r].id,
                            account |-> request[r].account, invite |-> i, phone |-> p])
        BY <3>0
      <3>2. invite[i] # NoRow
        BY <3>1 DEF Valid, NoRow
      <3>3. request[r].id \in Challenges /\ challenge[request[r].id] # NoRow
        BY <1>8, IdsTyped DEF ReadInvite, IInv, Connectable
      <3> QED BY <1>1, <3>1, <3>2, <3>3, MoveKnown
    <2> QED BY <2>1, <2>2
  <1>9. ASSUME NEW r \in Requests, CheckAccount(r) \/ CheckPhone(r)
        PROVE  Known' /\ Deletable' /\ Connectable'
    <2>1. /\ request[r].pc \in {"account", "phone"}
          /\ request[r].invite \in Invites /\ invite[request[r].invite] # NoRow
          /\ request[r].id \in Challenges /\ challenge[request[r].id] # NoRow
      BY <1>9, IdsTyped DEF CheckAccount, CheckPhone, IInv, Known, Connectable
    <2>2. CASE Answer(r)
      BY <1>3, <2>2
    <2>3. CASE \E pc \in {"phone", "commit"} : Goto(r, [request[r] EXCEPT !.pc = pc])
      <3>1. PICK pc \in {"phone", "commit"} : Goto(r, [request[r] EXCEPT !.pc = pc])
        BY <2>3
      <3>2. PICK state : /\ Goto(r, state) /\ state.pc = pc
                         /\ state.invite = request[r].invite /\ state.id = request[r].id
        BY <2>1, <3>1 DEF IInv, RowsOK, RequestStates
      <3> QED BY <1>1, <2>1, <3>2, MoveKnown
    <2> QED BY <1>9, <2>2, <2>3 DEF CheckAccount, CheckPhone
  <1>10. ASSUME NEW r \in Requests,
                CreateInvite(r) \/ DeleteInvite(r) \/ Connect(r) \/ Commit(r)
         PROVE  Known' /\ Deletable' /\ Connectable'
    BY <1>3, <1>10 DEF CreateInvite, DeleteInvite, Connect, Commit
  <1>11. ASSUME NEW u \in Requests, DeleteUser(u) PROVE UNCHANGED request
    BY <1>11 DEF DeleteUser
  <1>12. ASSUME NEW h \in Challenges,
                CreateRegisterChallenge(h) \/ RegisterCommand(h) \/ ExpireChallenge(h)
         PROVE  UNCHANGED request
    BY <1>12 DEF CreateRegisterChallenge, RegisterCommand, ExpireChallenge
  <1>13. ASSUME NEW i \in Invites, ExpireInvite(i) PROVE UNCHANGED request
    BY <1>13 DEF ExpireInvite
  <1>14. CASE UNCHANGED vars
    BY <1>2, <1>14 DEF vars
  <1> QED
    BY <1>2, <1>4, <1>5, <1>6, <1>7, <1>8, <1>9, <1>10, <1>11, <1>12, <1>13, <1>14
       DEF Next, Handle, Invitation

OverlapTyped == overlapped \in BOOLEAN

\* Type correctness: whatever handlers interleave, the tables and the
\* requests stay well formed, and a request works on rows that exist.
THEOREM TypeCorrect == Spec => []TypeOK
  <1>1. Init => OverlapTyped
    BY DEF Init, OverlapTyped
  <1>2. OverlapTyped /\ [Next]_vars => OverlapTyped'
    <2> SUFFICES ASSUME overlapped \in BOOLEAN, [Next]_vars PROVE overlapped' \in BOOLEAN
      BY DEF OverlapTyped
    <2>1. CASE UNCHANGED overlapped
      BY <2>1
    <2>2. ASSUME NEW r, Send(r) PROVE overlapped' \in BOOLEAN
      BY <2>2 DEF Send
    <2>3. ASSUME NEW r, Handle(r) PROVE UNCHANGED overlapped \/ Send(r)
      BY <2>3 DEF Handle, SendInvite, CheckInvited, SendInviteAdmin, CheckInvitedPhone,
                  CreateInvite, SendRevoke, DeleteInvite, SendStart, Connect, SendRegister,
                  ReadInvite, CheckAccount, CheckPhone, Commit
    <2>4. ASSUME NEW u, DeleteUser(u) PROVE UNCHANGED overlapped
      BY <2>4 DEF DeleteUser
    <2>5. ASSUME NEW h, CreateRegisterChallenge(h) \/ RegisterCommand(h) \/ ExpireChallenge(h)
          PROVE  UNCHANGED overlapped
      BY <2>5 DEF CreateRegisterChallenge, RegisterCommand, ExpireChallenge
    <2>6. ASSUME NEW i, ExpireInvite(i) PROVE UNCHANGED overlapped
      BY <2>6 DEF ExpireInvite
    <2>7. CASE UNCHANGED vars
      BY <2>1, <2>7 DEF vars
    <2> QED
      BY <2>1, <2>2, <2>3, <2>4, <2>5, <2>6, <2>7 DEF Next
  <1>3. IInv /\ OverlapTyped => TypeOK
    BY DEF IInv, TypeOK, OverlapTyped
  <1> QED BY <1>1, <1>2, <1>3, InitIInv, NextIInv, PTL DEF Spec

-----------------------------------------------------------------------------
(* Revocation *)

LEMMA StepMakesFromInvite == IInv /\ [Next]_vars => MadeFromInvite
  <1> SUFFICES ASSUME IInv, [Next]_vars, NEW r \in Requests,
                      user[r] = NoRow, user'[r] # NoRow
               PROVE  invite[user'[r].invite].state \in {"open", "used"}
    BY DEF MadeFromInvite
  <1>1. user'[r] # user[r]
    OBVIOUS
  <1>2. PICK p \in Requests : Commit(p) \/ DeleteUser(p)
    BY <1>1 DEF Next, Handle, vars, SendInvite, CheckInvited, SendInviteAdmin,
                CheckInvitedPhone, CreateInvite, SendRevoke, DeleteInvite, SendStart,
                Connect, SendRegister, ReadInvite, CheckAccount, CheckPhone,
                CreateRegisterChallenge, RegisterCommand, ExpireChallenge, ExpireInvite
  <1>3. CASE DeleteUser(p)
    <2>1. user[p] # NoRow
      BY <1>3 DEF DeleteUser, NoRow
    <2> QED BY <1>1, <1>3, <2>1 DEF DeleteUser, IInv, RowsOK
  <1>4. CASE Commit(p)
    <2>1. p = r /\ user'[r].invite = request[r].invite /\ Updatable(request[r].invite)
      BY <1>1, <1>4 DEF Commit, IInv, RowsOK
    <2>2. request[r].invite \in Invites /\ invite[request[r].invite] # NoRow
      BY <1>4, <2>1, IdsTyped DEF Commit, IInv, Known
    <2> QED BY <2>1, <2>2 DEF Updatable, IInv, RowsOK, InviteRows
  <1> QED BY <1>2, <1>3, <1>4

\* A registration that read its invite before it was revoked makes no user,
\* for any number of registrations and revocations at once.
THEOREM RevocationsHold == Spec => RevocationHolds
  <1> QED BY InitIInv, NextIInv, StepMakesFromInvite, PTL DEF Spec, RevocationHolds

-----------------------------------------------------------------------------
(* Distinct users *)

\* The steps that change users.
LEMMA UserSteps ==
  ASSUME IInv, [Next]_vars, user' # user
  PROVE  \E r \in Requests : Commit(r) \/ DeleteUser(r)
  BY DEF Next, Handle, vars, SendInvite, CheckInvited, SendInviteAdmin,
         CheckInvitedPhone, CreateInvite, SendRevoke, DeleteInvite, SendStart,
         Connect, SendRegister, ReadInvite, CheckAccount, CheckPhone,
         CreateRegisterChallenge, RegisterCommand, ExpireChallenge, ExpireInvite

\* Rows keep their account, phone and invite until they are removed; the
\* only new one is that of a registration.
UserEffect(r) ==
    /\ request[r].pc = "commit"
    /\ Unique(request[r].account, request[r].phone)
    /\ user'[r] = [state |-> "user", account |-> request[r].account,
                   phone |-> request[r].phone, invite |-> request[r].invite]

SameUser(u) ==
    /\ user[u].state # "none"
    /\ user'[u].account = user[u].account
    /\ user'[u].phone = user[u].phone
    /\ user'[u].invite = user[u].invite

LEMMA UserStep ==
  ASSUME IInv, [Next]_vars
  PROVE  \/ \A u \in Requests : u \in Rows' => SameUser(u)
         \/ \E r \in Requests :
                /\ UserEffect(r)
                /\ \A u \in Requests : u # r /\ u \in Rows' => SameUser(u)
  <1>1. CASE user' = user
    BY <1>1 DEF Rows, SameUser
  <1>2. CASE user' # user
    <2>1. PICK r \in Requests : Commit(r) \/ DeleteUser(r)
      BY <1>2, UserSteps
    <2>2. CASE Commit(r)
      <3>1. /\ Unique(request[r].account, request[r].phone)
            /\ user' = [user EXCEPT ![r] =
                  [state |-> "user", account |-> request[r].account,
                   phone |-> request[r].phone, invite |-> request[r].invite]]
        BY <1>2, <2>2 DEF Commit
      <3>2. UserEffect(r)
        BY <2>2, <3>1 DEF UserEffect, Commit, IInv, RowsOK
      <3>3. \A u \in Requests : u # r => user'[u] = user[u]
        BY <3>1 DEF IInv, RowsOK
      <3> QED BY <3>2, <3>3 DEF Rows, SameUser
    <2>3. CASE DeleteUser(r)
      <3>1. user[r].state # "none"
        BY <2>3 DEF DeleteUser
      <3>2. \A u \in Requests : u # r => user'[u] = user[u]
        BY <2>3 DEF DeleteUser, IInv, RowsOK
      <3>3. CASE user' = [user EXCEPT ![r].state = "deleted"]
        <4>1. user'[r] = [user[r] EXCEPT !.state = "deleted"]
          BY <3>3 DEF IInv, RowsOK
        <4>2. user[r] \in [state : {"user", "deleted"}, account : Accounts,
                           phone : Phones \cup {NoPhone}, invite : Invites]
          BY <3>1 DEF IInv, RowsOK, UserRows, NoRow
        <4>3. SameUser(r)
          BY <3>1, <4>1, <4>2 DEF SameUser
        <4> QED BY <3>2, <4>3 DEF Rows, SameUser
      <3>4. CASE user' = [user EXCEPT ![r] = NoRow]
        <4>1. user'[r].state = "none"
          BY <3>4 DEF IInv, RowsOK, NoRow
        <4> QED BY <3>2, <4>1 DEF Rows, SameUser
      <3> QED BY <2>3, <3>3, <3>4 DEF DeleteUser
    <2> QED BY <2>1, <2>2, <2>3
  <1> QED BY <1>1, <1>2

LEMMA NextDistinct == IInv /\ DistinctUsers /\ [Next]_vars => DistinctUsers'
  <1> SUFFICES ASSUME IInv, DistinctUsers, [Next]_vars,
                      NEW u \in Rows', NEW v \in Rows',
                      \/ user'[u].account = user'[v].account
                      \/ user'[u].phone = user'[v].phone /\ user'[u].phone # NoPhone,
                      u # v
               PROVE  FALSE
    BY DEF DistinctUsers
  <1>1. u \in Requests /\ v \in Requests
    BY DEF Rows
  <1>2. ~(SameUser(u) /\ SameUser(v))
    BY <1>1 DEF SameUser, DistinctUsers, Rows
  <1>3. PICK r \in Requests :
            /\ UserEffect(r)
            /\ \A w \in Requests : w # r /\ w \in Rows' => SameUser(w)
    BY <1>1, <1>2, UserStep
  <1>4. \A w \in Requests : SameUser(w) =>
            /\ user'[w].account # request[r].account
            /\ request[r].phone # NoPhone => user'[w].phone # request[r].phone
    BY <1>3 DEF UserEffect, Unique, SameUser, Rows
  <1>5. CASE u = r
    <2>1. SameUser(v)
      BY <1>1, <1>3, <1>5
    <2> QED BY <1>1, <1>3, <1>4, <1>5, <2>1 DEF UserEffect
  <1>6. CASE v = r
    <2>1. SameUser(u)
      BY <1>1, <1>3, <1>6
    <2> QED BY <1>1, <1>3, <1>4, <1>6, <2>1 DEF UserEffect
  <1>7. CASE u # r /\ v # r
    BY <1>1, <1>2, <1>3, <1>7
  <1> QED BY <1>5, <1>6, <1>7

\* However registrations interleave, no two users of the company share a
\* Telegram account or a phone.
THEOREM UsersAreDistinct == Spec => []DistinctUsers
  <1>1. Init => DistinctUsers
    BY DEF Init, DistinctUsers, Rows, NoRow
  <1> QED BY <1>1, InitIInv, NextIInv, NextDistinct, PTL DEF Spec

-----------------------------------------------------------------------------
(* Requests one after the other *)

Alone == \A p, q \in Requests : InFlight(p) /\ InFlight(q) => p = q

\* The invite a registration works on is open, the one that is deleted is
\* not used, and the invites of users are used.
UsesOpen ==
    \A r \in Requests :
        request[r].pc \in {"account", "phone", "commit"}
            => invite[request[r].invite].state = "open"

DeletesUnused ==
    \A r \in Requests :
        request[r].pc = "delete" => invite[request[r].id].state # "used"

UsersMarked == \A u \in Rows : invite[user[u].invite].state = "used"

AloneInv == Alone /\ UsesOpen /\ DeletesUnused /\ UsersMarked /\ InviteOnce

OnceInv == IInv /\ (~overlapped => AloneInv)

LEMMA InitOnceInv == Init => OnceInv
  BY InitIInv DEF Init, OnceInv, AloneInv, Alone, InFlight, UsesOpen,
                  DeletesUnused, UsersMarked, InviteOnce, Rows, NoRow

\* When requests do not overlap, the one that moves is the only one.
LEMMA OnlyOne ==
  ASSUME IInv, Alone, ~overlapped', NEW r \in Requests,
         Send(r) \/ InFlight(r)
  PROVE  \A p \in Requests : p # r => ~InFlight(p)
  BY DEF Send, Alone

\* The only request moves, and neither invites nor users change.
LEMMA MoveAlone ==
  ASSUME IInv, AloneInv, NEW r \in Requests, NEW state, Goto(r, state),
         \A p \in Requests : p # r => ~InFlight(p), UNCHANGED <<invite, user>>,
         state.pc \in {"account", "phone", "commit"}
            => invite[state.invite].state = "open",
         state.pc = "delete" => invite[state.id].state # "used"
  PROVE  AloneInv'
  <1>1. /\ request'[r] = state
        /\ \A p \in Requests : p # r => request'[p] = request[p]
    BY DEF Goto, IInv, RowsOK
  <1>2. Alone'
    BY <1>1 DEF Alone, InFlight
  <1>3. UsesOpen' /\ DeletesUnused'
    BY <1>1 DEF UsesOpen, DeletesUnused, AloneInv
  <1>4. UsersMarked' /\ InviteOnce'
    BY DEF UsersMarked, InviteOnce, AloneInv, Rows
  <1> QED BY <1>2, <1>3, <1>4 DEF AloneInv

\* The only request is answered.
LEMMA LastAlone ==
  ASSUME IInv, NEW r \in Requests, Answer(r),
         \A p \in Requests : p # r => ~InFlight(p)
  PROVE  Alone' /\ UsesOpen' /\ DeletesUnused'
  <1>1. /\ request'[r].pc = "answered"
        /\ \A p \in Requests : p # r => request'[p] = request[p]
    BY DEF Answer, Goto, IInv, RowsOK
  <1>2. \A p \in Requests : request'[p].pc \in {"unsent", "answered"}
    BY <1>1 DEF InFlight
  <1>3. Alone'
    BY <1>2 DEF Alone, InFlight
  <1>4. UsesOpen'
    BY <1>2 DEF UsesOpen
  <1>5. DeletesUnused'
    BY <1>2 DEF DeletesUnused
  <1> QED BY <1>3, <1>4, <1>5

\* No request moves, invites keep their state and users are at most deleted.
LEMMA StayAlone ==
  ASSUME IInv, AloneInv, UNCHANGED request,
         \A i \in Invites : invite'[i].state = invite[i].state,
         \A u \in Requests : u \in Rows' => SameUser(u)
  PROVE  AloneInv'
  <1>1. Alone'
    BY DEF Alone, InFlight, AloneInv
  <1>2. UsesOpen' /\ DeletesUnused'
    BY IdsTyped DEF UsesOpen, DeletesUnused, AloneInv, IInv
  <1>3. \A u \in Requests : u \in Rows' =>
            /\ u \in Rows /\ user[u].invite \in Invites
            /\ user'[u].invite = user[u].invite
    BY DEF SameUser, Rows, IInv, RowsOK, UserRows, NoRow
  <1>4. UsersMarked'
    BY <1>3 DEF UsersMarked, AloneInv, Rows
  <1>5. InviteOnce'
    BY <1>3 DEF InviteOnce, AloneInv, Rows
  <1> QED BY <1>1, <1>2, <1>4, <1>5 DEF AloneInv

\* The commit of the only registration.
LEMMA CommitAlone ==
  ASSUME IInv, AloneInv, NEW r \in Requests, Commit(r),
         \A p \in Requests : p # r => ~InFlight(p)
  PROVE  AloneInv'
  <1>1. Alone' /\ UsesOpen' /\ DeletesUnused'
    BY LastAlone DEF Commit
  <1> DEFINE i == request[r].invite
  <1>2. i \in Invites /\ invite[i] # NoRow /\ invite[i].state = "open"
    BY IdsTyped DEF Commit, IInv, Known, AloneInv, UsesOpen
  <1>3. CASE UNCHANGED <<invite, user>>
    BY <1>1, <1>3 DEF AloneInv, UsersMarked, InviteOnce, Rows
  <1>4. CASE /\ user' = [user EXCEPT ![r] =
                    [state |-> "user", account |-> request[r].account,
                     phone |-> request[r].phone, invite |-> i]]
             /\ invite' = [invite EXCEPT ![i].state = "used"]
    <2>1. /\ user'[r].invite = i
          /\ \A u \in Requests : u # r => user'[u] = user[u]
      BY <1>4 DEF IInv, RowsOK
    <2>2. invite'[i].state = "used" /\ \A j \in Invites : j # i => invite'[j] = invite[j]
      <3>1. invite[i] \in [state : {"open", "used", "revoked"},
                           phone : Phones \cup {NoPhone}, expired : BOOLEAN]
        BY <1>2 DEF IInv, RowsOK, InviteRows
      <3>2. [invite[i] EXCEPT !.state = "used"].state = "used"
        BY <3>1
      <3> QED BY <1>2, <1>4, <3>2 DEF IInv, RowsOK
    <2>3. \A u \in Rows : user[u].invite \in Invites /\ user[u].invite # i
      BY <1>2 DEF AloneInv, UsersMarked, Rows, IInv, RowsOK, UserRows, NoRow
    <2>4. \A u \in Rows' : u = r \/ (u \in Rows /\ user'[u] = user[u])
      BY <2>1 DEF Rows
    <2> HIDE DEF i
    <2>5. UsersMarked'
      <3> SUFFICES ASSUME NEW u \in Rows' PROVE invite'[user'[u].invite].state = "used"
        BY DEF UsersMarked
      <3>1. CASE u = r
        BY <2>1, <2>2, <3>1
      <3>2. CASE u \in Rows /\ user'[u] = user[u]
        BY <2>2, <2>3, <3>2 DEF AloneInv, UsersMarked
      <3> QED BY <2>4, <3>1, <3>2
    <2>6. InviteOnce'
      BY <2>1, <2>3, <2>4 DEF InviteOnce, AloneInv
    <2> QED BY <1>1, <2>5, <2>6 DEF AloneInv
  <1> QED BY <1>3, <1>4 DEF Commit

LEMMA NextOnceInv == OnceInv /\ [Next]_vars => OnceInv'
  <1> SUFFICES ASSUME OnceInv, [Next]_vars, ~overlapped' PROVE AloneInv'
    BY NextIInv DEF OnceInv
  <1>0. ~overlapped
    <2>1. CASE UNCHANGED overlapped
      BY <2>1
    <2>2. ASSUME NEW r, Send(r) PROVE ~overlapped
      BY <2>2 DEF Send
    <2>3. ASSUME NEW r, Handle(r) PROVE UNCHANGED overlapped \/ Send(r)
      BY <2>3 DEF Handle, SendInvite, CheckInvited, SendInviteAdmin, CheckInvitedPhone,
                  CreateInvite, SendRevoke, DeleteInvite, SendStart, Connect, SendRegister,
                  ReadInvite, CheckAccount, CheckPhone, Commit
    <2>4. ASSUME NEW u, DeleteUser(u) PROVE UNCHANGED overlapped
      BY <2>4 DEF DeleteUser
    <2>5. ASSUME NEW h, CreateRegisterChallenge(h) \/ RegisterCommand(h) \/ ExpireChallenge(h)
          PROVE  UNCHANGED overlapped
      BY <2>5 DEF CreateRegisterChallenge, RegisterCommand, ExpireChallenge
    <2>6. ASSUME NEW i, ExpireInvite(i) PROVE UNCHANGED overlapped
      BY <2>6 DEF ExpireInvite
    <2>7. CASE UNCHANGED vars
      BY <2>1, <2>7 DEF vars
    <2> QED BY <2>1, <2>2, <2>3, <2>4, <2>5, <2>6, <2>7 DEF Next
  <1>1. IInv /\ AloneInv /\ Alone
    BY <1>0 DEF OnceInv, AloneInv
  <1>2. CASE UNCHANGED vars
    BY <1>1, <1>2 DEF vars, AloneInv, Alone, InFlight, UsesOpen, DeletesUnused,
                      UsersMarked, InviteOnce, Rows
  <1>3. ASSUME NEW r \in Requests, Handle(r)
        PROVE  \A p \in Requests : p # r => ~InFlight(p)
    <2>1. Send(r) \/ InFlight(r)
      BY <1>3 DEF Handle, InFlight, SendInvite, CheckInvited, SendInviteAdmin,
             CheckInvitedPhone, CreateInvite, SendRevoke, DeleteInvite, SendStart,
             Connect, SendRegister, ReadInvite, CheckAccount, CheckPhone, Commit
    <2> QED BY <1>1, <2>1, OnlyOne
  <1>4. ASSUME NEW r \in Requests, Handle(r), Answer(r), UNCHANGED <<invite, user>>
        PROVE  AloneInv'
    BY <1>1, <1>3, <1>4, MoveAlone DEF Answer
  <1>5. ASSUME NEW r \in Requests, Invitation(r) PROVE AloneInv'
    <2>1. \/ Answer(r)
          \/ \E p : Goto(r, [pc |-> "invited", phone |-> p])
          \/ \E p : Goto(r, [pc |-> "phone_check", phone |-> p])
          \/ \E p : Goto(r, [pc |-> "new_invite", phone |-> p])
      BY <1>5 DEF Invitation, SendInvite, CheckInvited, SendInviteAdmin, CheckInvitedPhone
    <2>2. UNCHANGED <<invite, user>> /\ Handle(r)
      BY <1>5 DEF Handle, Invitation, SendInvite, CheckInvited, SendInviteAdmin,
                  CheckInvitedPhone
    <2> QED BY <1>1, <1>3, <1>4, <2>1, <2>2, MoveAlone
  <1>6. ASSUME NEW r \in Requests, SendRevoke(r) PROVE AloneInv'
    <2>1. UNCHANGED <<invite, user>> /\ Handle(r)
      BY <1>6 DEF Handle, SendRevoke
    <2>2. PICK i \in Invites :
              Answer(r) \/ (Revocable(i) /\ Goto(r, [pc |-> "delete", id |-> i]))
      BY <1>6 DEF SendRevoke
    <2> QED BY <1>1, <1>3, <1>4, <2>1, <2>2, MoveAlone DEF Revocable
  <1>7. ASSUME NEW r \in Requests, SendStart(r) \/ SendRegister(r) PROVE AloneInv'
    <2>1. UNCHANGED <<invite, user>> /\ Handle(r)
      BY <1>7 DEF Handle, SendStart, SendRegister
    <2>2. \/ Answer(r)
          \/ \E h, a : Goto(r, [pc |-> "connect", id |-> h, account |-> a])
          \/ \E h, a : Goto(r, [pc |-> "token", id |-> h, account |-> a])
      BY <1>7 DEF SendStart, SendRegister
    <2> QED BY <1>1, <1>3, <1>4, <2>1, <2>2, MoveAlone
  <1>8. ASSUME NEW r \in Requests, ReadInvite(r) PROVE AloneInv'
    <2>1. UNCHANGED <<invite, user>> /\ Handle(r)
      BY <1>8 DEF Handle, ReadInvite
    <2>2. CASE Answer(r)
      BY <1>4, <2>1, <2>2
    <2>3. CASE ~Answer(r)
      <3>1. PICK i \in Invites :
                \E p \in FormPhones :
                    /\ Valid(invite[i])
                    /\ Goto(r, [pc |-> "account", id |-> request[r].id,
                                account |-> request[r].account, invite |-> i,
                                phone |-> IF p # NoPhone THEN p ELSE invite[i].phone])
        BY <1>8, <2>3 DEF ReadInvite
      <3>2. PICK p :
                /\ Valid(invite[i])
                /\ Goto(r, [pc |-> "account", id |-> request[r].id,
                            account |-> request[r].account, invite |-> i, phone |-> p])
        BY <3>1
      <3> QED BY <1>1, <1>3, <2>1, <3>2, MoveAlone DEF Valid
    <2> QED BY <2>2, <2>3
  <1>9. ASSUME NEW r \in Requests, CheckAccount(r) \/ CheckPhone(r) PROVE AloneInv'
    <2>1. UNCHANGED <<invite, user>> /\ Handle(r)
      BY <1>9 DEF Handle, CheckAccount, CheckPhone
    <2>2. request[r].pc \in {"account", "phone"} /\ invite[request[r].invite].state = "open"
      BY <1>1, <1>9 DEF CheckAccount, CheckPhone, AloneInv, UsesOpen
    <2>3. CASE Answer(r)
      BY <1>4, <2>1, <2>3
    <2>4. CASE \E pc \in {"phone", "commit"} : Goto(r, [request[r] EXCEPT !.pc = pc])
      <3>1. PICK pc \in {"phone", "commit"} : Goto(r, [request[r] EXCEPT !.pc = pc])
        BY <2>4
      <3>2. PICK state : /\ Goto(r, state) /\ state.pc = pc
                         /\ state.invite = request[r].invite
        BY <1>1, <2>2, <3>1 DEF IInv, RowsOK, RequestStates
      <3> QED BY <1>1, <1>3, <2>1, <2>2, <3>2, MoveAlone
    <2> QED BY <1>9, <2>3, <2>4 DEF CheckAccount, CheckPhone
  <1>10. ASSUME NEW r \in Requests, Connect(r) PROVE AloneInv'
    BY <1>4, <1>10 DEF Connect, Handle
  <1>11. ASSUME NEW r \in Requests, Commit(r) PROVE AloneInv'
    BY <1>1, <1>3, <1>11, CommitAlone DEF Handle
  <1>12. ASSUME NEW r \in Requests, CreateInvite(r) \/ DeleteInvite(r) PROVE AloneInv'
    <2>1. Alone' /\ UsesOpen' /\ DeletesUnused'
      BY <1>1, <1>3, <1>12, LastAlone DEF Handle, CreateInvite, DeleteInvite
    <2>2. \A i \in Invites : invite[i].state = "used" => invite'[i] = invite[i]
      <3>1. CASE CreateInvite(r)
        BY <1>1, <3>1 DEF CreateInvite, IInv, RowsOK, NoRow
      <3>2. CASE DeleteInvite(r)
        <4>1. request[r].id \in Invites /\ invite[request[r].id].state # "used"
          BY <1>1, <3>2, IdsTyped DEF DeleteInvite, IInv, AloneInv, DeletesUnused
        <4> QED BY <1>1, <3>2, <4>1 DEF DeleteInvite, IInv, RowsOK
      <3> QED BY <1>12, <3>1, <3>2
    <2>3. UNCHANGED user
      BY <1>12 DEF CreateInvite, DeleteInvite
    <2>4. \A u \in Rows : user[u].invite \in Invites
      BY <1>1 DEF Rows, IInv, RowsOK, UserRows, NoRow
    <2>5. UsersMarked' /\ InviteOnce'
      BY <1>1, <2>2, <2>3, <2>4 DEF UsersMarked, InviteOnce, AloneInv, Rows
    <2> QED BY <2>1, <2>5 DEF AloneInv
  <1>13. ASSUME NEW u \in Requests, DeleteUser(u) PROVE AloneInv'
    <2>1. UNCHANGED <<invite, request>>
      BY <1>13 DEF DeleteUser
    <2>2. user[u].state # "none"
      BY <1>13 DEF DeleteUser
    <2>3. \A v \in Requests : v # u => user'[v] = user[v]
      BY <1>1, <1>13 DEF DeleteUser, IInv, RowsOK
    <2>4. user[u] \in [state : {"user", "deleted"}, account : Accounts,
                       phone : Phones \cup {NoPhone}, invite : Invites]
      BY <1>1, <2>2 DEF IInv, RowsOK, UserRows, NoRow
    <2>5. user'[u].state = "none" \/ user'[u] = [user[u] EXCEPT !.state = "deleted"]
      BY <1>1, <1>13 DEF DeleteUser, IInv, RowsOK, NoRow
    <2>6. user'[u].state # "none" => SameUser(u)
      BY <2>2, <2>4, <2>5 DEF SameUser
    <2>7. \A v \in Requests : v \in Rows' => SameUser(v)
      BY <2>3, <2>6 DEF Rows, SameUser
    <2> QED BY <1>1, <2>1, <2>7, StayAlone
  <1>14. ASSUME NEW h \in Challenges,
                CreateRegisterChallenge(h) \/ RegisterCommand(h) \/ ExpireChallenge(h)
         PROVE  AloneInv'
    <2>1. UNCHANGED <<invite, user, request>>
      BY <1>14 DEF CreateRegisterChallenge, RegisterCommand, ExpireChallenge
    <2>2. \A v \in Requests : v \in Rows' => SameUser(v)
      BY <2>1 DEF Rows, SameUser
    <2> QED BY <1>1, <2>1, <2>2, StayAlone
  <1>15. ASSUME NEW i \in Invites, ExpireInvite(i) PROVE AloneInv'
    <2>1. UNCHANGED <<user, request>>
      BY <1>15 DEF ExpireInvite
    <2>2. \A v \in Requests : v \in Rows' => SameUser(v)
      BY <2>1 DEF Rows, SameUser
    <2>3. invite[i] \in [state : {"open", "used", "revoked"},
                         phone : Phones \cup {NoPhone}, expired : BOOLEAN]
      BY <1>1, <1>15 DEF ExpireInvite, IInv, RowsOK, InviteRows, NoRow
    <2>4. [invite[i] EXCEPT !.expired = TRUE].state = invite[i].state
      BY <2>3
    <2>5. \A j \in Invites : invite'[j].state = invite[j].state
      BY <1>1, <1>15, <2>4 DEF ExpireInvite, IInv, RowsOK
    <2> QED BY <1>1, <2>1, <2>2, <2>5, StayAlone
  <1> QED
    BY <1>2, <1>5, <1>6, <1>7, <1>8, <1>9, <1>10, <1>11, <1>12, <1>13, <1>14, <1>15
       DEF Next, Handle, Invitation

\* When requests come one after the other, an invite makes at most one user,
\* whatever phones and accounts registrations carry and whatever is revoked,
\* deleted or expires in between: the marks that telegram_register sets are
\* enough then, and only then.
THEOREM InvitesAreUsedOnceAlone == Spec => []UsedOnceAlone
  <1>1. OnceInv => UsedOnceAlone
    BY DEF OnceInv, UsedOnceAlone, AloneInv
  <1> QED BY <1>1, InitOnceInv, NextOnceInv, PTL DEF Spec

LEMMA StepKeepsUsed == OnceInv /\ [Next]_vars => UsedStaysUsed
  <1> SUFFICES ASSUME OnceInv, [Next]_vars, ~overlapped,
                      NEW i \in Invites, invite[i].state = "used"
               PROVE  invite'[i].state = "used"
    BY DEF UsedStaysUsed
  <1>1. IInv /\ DeletesUnused
    BY DEF OnceInv, AloneInv
  <1>2. CASE UNCHANGED invite
    BY <1>2
  <1>3. CASE invite' # invite
    <2>1. \/ \E r \in Requests : CreateInvite(r) \/ DeleteInvite(r) \/ Commit(r)
          \/ \E j \in Invites : ExpireInvite(j)
      BY <1>3 DEF Next, Handle, vars, SendInvite, CheckInvited, SendInviteAdmin,
             CheckInvitedPhone, SendRevoke, SendStart, Connect, SendRegister,
             ReadInvite, CheckAccount, CheckPhone, DeleteUser,
             CreateRegisterChallenge, RegisterCommand, ExpireChallenge
    <2>2. ASSUME NEW r \in Requests, CreateInvite(r) PROVE invite'[i] = invite[i]
      BY <1>1, <2>2 DEF CreateInvite, IInv, RowsOK, NoRow
    <2>3. ASSUME NEW r \in Requests, DeleteInvite(r) PROVE invite'[i] = invite[i]
      <3>1. request[r].id \in Invites /\ invite[request[r].id].state # "used"
        BY <1>1, <2>3, IdsTyped DEF DeleteInvite, IInv, DeletesUnused
      <3> QED BY <1>1, <2>3, <3>1 DEF DeleteInvite, IInv, RowsOK
    <2>4. ASSUME NEW r \in Requests, Commit(r) PROVE invite'[i].state = "used"
      <3>1. invite' = [invite EXCEPT ![request[r].invite].state = "used"]
        BY <1>3, <2>4 DEF Commit
      <3>2. invite[i] \in [state : {"open", "used", "revoked"},
                           phone : Phones \cup {NoPhone}, expired : BOOLEAN]
        BY <1>1 DEF IInv, RowsOK, InviteRows, NoRow
      <3>3. [invite[i] EXCEPT !.state = "used"].state = "used"
        BY <3>2
      <3>4. invite'[i] = invite[i] \/ invite'[i] = [invite[i] EXCEPT !.state = "used"]
        BY <1>1, <3>1 DEF IInv, RowsOK
      <3> QED BY <3>3, <3>4
    <2>5. ASSUME NEW j \in Invites, ExpireInvite(j) PROVE invite'[i] = invite[i]
      BY <1>1, <2>5 DEF ExpireInvite, IInv, RowsOK
    <2> QED BY <2>1, <2>2, <2>3, <2>4, <2>5
  <1> QED BY <1>2, <1>3

\* When requests come one after the other, an invite that made a user stays
\* used: revoke_invite_token looks at it before it deletes it.
THEOREM UsedInvitesStay == Spec => UsedNotRevoked
  <1> QED BY InitOnceInv, NextOnceInv, StepKeepsUsed, PTL DEF Spec, UsedNotRevoked

=============================================================================
