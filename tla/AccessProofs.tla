---------------------------- MODULE AccessProofs ----------------------------
(***************************************************************************)
(* What holds in Access for any sets of users, groups, keys and requests:  *)
(* the excluded stay out, members leave groups that are deleted, keys stay *)
(* bounded.                                                                *)
(***************************************************************************)
EXTENDS Access, FiniteSetTheorems, TLAPS

Tokens == Users \X {"access", "refresh", "impersonation"}

Idle == [pc : {"unsent", "answered"}]

Gates == [pc : {"group"}, op : {"gate"}, who : Users, exempt : BOOLEAN, seen : UserRows]
    \cup [pc : {"contract"}, op : {"gate"}, who : Users, exempt : BOOLEAN, may : BOOLEAN]
    \cup [pc : {"admitted"}, op : {"gate"}, who : Users]

OnUserRows ==
    [pc : {"find", "save"}, op : {"user"}, target : Users, seen : UserRows,
     set : UserRows, hard : BOOLEAN, effects : SUBSET {"in", "out"}]

OnGroupRows ==
    [pc : {"nullify", "bury"}, op : {"ungroup"}, group : Groups, hit : SUBSET Users]

ChangeRows ==
    [active : BOOLEAN \cup {None}, suspended : BOOLEAN \cup {None},
     grants : BOOLEAN \cup {None}, group : Groups \cup {None}]

OnKeyRows == [pc : {"insert"}, op : {"key"}]

OnInviteRows == [pc : {"invite"}, op : {"invite"}, group : Groups]

RequestRows ==
    Idle \cup Gates \cup OnUserRows \cup OnGroupRows \cup OnKeyRows \cup OnInviteRows

TypeOK ==
    /\ user \in [Users -> UserRows \cup {None, Gone}]
    /\ group \in [Groups -> GroupRows \cup {None, Gone}]
    /\ key \in [Keys -> {"none", "active", "revoked"}]
    /\ invited \subseteq Groups
    /\ token \subseteq Tokens
    /\ request \in [Requests -> RequestRows]
    /\ shut \subseteq Users
    /\ mixed \subseteq Users
    /\ crowded \in BOOLEAN

\* A request is at work on a user from the time it loaded his row.
OnUsersRow(r) == request[r].pc \in {"find", "save"}

OnGroup(r) == request[r].pc \in {"nullify", "bury"}

\* A request at work on rows has found them, and rows are never removed from
\* the tables; the rows that the deletion of a group locked stay as they are.
RowsExist ==
    \A r \in Requests :
        /\ OnUsersRow(r) => user[request[r].target] # None
        /\ OnGroup(r) => /\ group[request[r].group] \in GroupRows
                         /\ \A u \in request[r].hit : LiveUser(u)

Base == TypeOK /\ RowsExist

-----------------------------------------------------------------------------

\* No row is None or Gone.
LEMMA Absent ==
    /\ None # Gone
    /\ None \notin UserRows \cup GroupRows
    /\ Gone \notin UserRows \cup GroupRows
  BY AccessAssumption

\* What the place of a request says of its record.
LEMMA Shapes ==
    ASSUME TypeOK, NEW r \in Requests
    PROVE  /\ request[r] \in RequestRows
           /\ OnUsersRow(r) => request[r] \in OnUserRows
           /\ OnGroup(r) => request[r] \in OnGroupRows
           /\ At(r, "insert") => request[r] \in OnKeyRows
           /\ At(r, "invite") => request[r] \in OnInviteRows
           /\ At(r, "group") => /\ request[r].who \in Users
                                /\ request[r].exempt \in BOOLEAN
                                /\ request[r].seen \in UserRows
           /\ At(r, "contract") => request[r].who \in Users
           /\ At(r, "admitted") => request[r].who \in Users
           /\ InFlight(r) => request[r].op \in {"gate", "user", "ungroup", "key", "invite"}
           /\ OnUsersRow(r) <=> InFlight(r) /\ request[r].op = "user"
           /\ OnGroup(r) <=> InFlight(r) /\ request[r].op = "ungroup"
           /\ At(r, "insert") <=> InFlight(r) /\ request[r].op = "key"
  BY DEF TypeOK, RequestRows, Idle, Gates, OnUserRows, OnGroupRows, OnKeyRows,
         OnInviteRows, OnUsersRow, OnGroup, At, InFlight

\* The row that an update makes is a row.
LEMMA UpdatedType ==
    ASSUME NEW old \in UserRows, NEW deleted \in BOOLEAN, NEW change \in ChangeRows
    PROVE  [Updated(old, change) EXCEPT !.deleted = deleted] \in UserRows
  BY DEF Updated, Column, UserRows, ChangeRows

\* What is written is a row.
LEMMA SavedType ==
    ASSUME NEW old \in UserRows, NEW seen \in UserRows, NEW set \in UserRows
    PROVE  Saved(old, seen, set) \in UserRows
  BY DEF Saved, UserRows

\* Every load is with changes of that form.
LEMMA ChangesType ==
    /\ Changes \subseteq ChangeRows
    /\ NoChange \in ChangeRows
    /\ [NoChange EXCEPT !.active = TRUE, !.suspended = FALSE] \in ChangeRows
    /\ [NoChange EXCEPT !.active = FALSE, !.suspended = TRUE] \in ChangeRows
  BY AccessAssumption DEF NoChange, ChangeRows

\* The loads of all operations on users.
Loads(r, u) ==
    \E change \in ChangeRows, delete \in {"no", "soft", "hard"} :
        Load(r, u, change, delete)

LEMMA OperationsLoad ==
    ASSUME NEW r \in Requests, NEW u \in Users,
           UpdateUser(r, u) \/ ActivateUser(r, u) \/ DeactivateUser(r, u)
             \/ DeleteUser(r, u)
    PROVE  Loads(r, u)
  BY ChangesType DEF Loads, UpdateUser, ActivateUser, DeactivateUser, DeleteUser

\* A record of the right form keeps the requests well typed.
LEMMA GotoType ==
    ASSUME TypeOK, NEW r \in Requests, NEW state \in RequestRows, Goto(r, state)
    PROVE  request' \in [Requests -> RequestRows]
  BY DEF TypeOK, Goto

LEMMA AnswerType ==
    ASSUME TypeOK, NEW r \in Requests, Answer(r)
    PROVE  request' \in [Requests -> RequestRows]
  <1>1. [pc |-> "answered"] \in RequestRows
    BY DEF RequestRows, Idle
  <1> QED
    BY <1>1, GotoType DEF Answer

LEMMA LoadType ==
    ASSUME Base, NEW r \in Requests, NEW u \in Users, Loads(r, u)
    PROVE  Base'
  <1>1. PICK change \in ChangeRows, delete \in {"no", "soft", "hard"} :
            Load(r, u, change, delete)
    BY DEF Loads
  <1> DEFINE new == [Updated(user[u], change) EXCEPT !.deleted = delete = "soft"]
             state == [pc |-> IF change.group = None THEN "save" ELSE "find",
                       op |-> "user", target |-> u, seen |-> user[u], set |-> new,
                       hard |-> delete = "hard", effects |-> Effects(change, delete)]
  <1>2. user[u] \in UserRows
    BY <1>1 DEF Load, LiveUser
  <1>3. new \in UserRows
    BY <1>2, UpdatedType
  <1>4. Effects(change, delete) \in SUBSET {"in", "out"}
    BY DEF Effects
  <1>5. state \in RequestRows
    BY <1>2, <1>3, <1>4 DEF RequestRows, OnUserRows
  <1>6. Goto(r, state)
    BY <1>1 DEF Load
  <1>7. request' \in [Requests -> RequestRows]
    BY <1>5, <1>6, GotoType DEF Base
  <1>8. shut' \subseteq Users /\ mixed' \subseteq Users
    BY <1>1 DEF Load, Base, TypeOK
  <1>9. TypeOK'
    BY <1>1, <1>7, <1>8 DEF Load, Base, TypeOK, rows
  <1>10. user[u] # None
    BY <1>2, AccessAssumption
  <1>11. RowsExist'
    <2> SUFFICES ASSUME NEW q \in Requests
                 PROVE  /\ OnUsersRow(q)' => user'[request'[q].target] # None
                        /\ OnGroup(q)' => /\ group'[request'[q].group] \in GroupRows
                                          /\ \A v \in request'[q].hit : LiveUser(v)'
      BY DEF RowsExist
    <2>1. UNCHANGED rows
      BY <1>1 DEF Load
    <2>2. request'[r] = state /\ (q # r => request'[q] = request[q])
      BY <1>6 DEF Goto, Base, TypeOK
    <2>3. CASE q = r
      BY <2>1, <2>2, <2>3, <1>10 DEF rows, OnUsersRow, OnGroup
    <2>4. CASE q # r
      BY <2>1, <2>2, <2>4 DEF rows, OnUsersRow, OnGroup, Base, RowsExist, LiveUser
    <2> QED
      BY <2>3, <2>4
  <1> QED
    BY <1>9, <1>11 DEF Base

\* What a save does to the row and to the others.
LEMMA SaveEffect ==
    ASSUME Base, NEW r \in Requests, Save(r)
    PROVE  /\ request[r] \in OnUserRows
           /\ user' = [user EXCEPT ![request[r].target] =
                 IF user[request[r].target] = Gone \/ request[r].hard THEN Gone
                 ELSE Saved(@, request[r].seen, request[r].set)]
           /\ user[request[r].target] \in UserRows \cup {Gone}
           /\ user' \in [Users -> UserRows \cup {None, Gone}]
           /\ user'[request[r].target] # None
           /\ request' = [request EXCEPT ![r] = [pc |-> "answered"]]
  <1> DEFINE u == request[r].target
  <1>1. /\ request[r] \in OnUserRows
        /\ OnUsersRow(r)
    BY Shapes DEF Save, At, OnUsersRow, Base
  <1>2. /\ u \in Users
        /\ request[r].seen \in UserRows /\ request[r].set \in UserRows
    BY <1>1 DEF OnUserRows
  <1>3. user[u] \in UserRows \cup {Gone}
    BY <1>1, <1>2 DEF Base, TypeOK, RowsExist
  <1>4. user[u] \in UserRows =>
            Saved(user[u], request[r].seen, request[r].set) \in UserRows
    BY <1>2, SavedType
  <1> DEFINE new == IF user[u] = Gone \/ request[r].hard THEN Gone
                    ELSE Saved(user[u], request[r].seen, request[r].set)
  <1>5. new \in UserRows \cup {Gone}
    BY <1>3, <1>4
  <1>6. user' = [user EXCEPT ![u] = new]
    BY <1>2 DEF Save, Base, TypeOK
  <1>7. new # None
    BY <1>5, AccessAssumption
  <1> QED
    BY <1>1, <1>2, <1>3, <1>5, <1>6, <1>7 DEF Base, TypeOK, Save, Answer, Goto

LEMMA SaveType ==
    ASSUME Base, NEW r \in Requests, Save(r)
    PROVE  Base'
  <1> DEFINE u == request[r].target
  <1>1. u \in Users
    BY SaveEffect DEF OnUserRows
  <1>2. TypeOK'
    <2>1. request' \in [Requests -> RequestRows]
      BY AnswerType DEF Save, Base
    <2> QED
      BY <1>1, <2>1, SaveEffect DEF Save, Base, TypeOK
  <1>3. RowsExist'
    <2> SUFFICES ASSUME NEW q \in Requests
                 PROVE  /\ OnUsersRow(q)' => user'[request'[q].target] # None
                        /\ OnGroup(q)' => /\ group'[request'[q].group] \in GroupRows
                                          /\ \A v \in request'[q].hit : LiveUser(v)'
      BY DEF RowsExist
    <2>1. OnUsersRow(q)' => q # r /\ OnUsersRow(q) /\ request'[q] = request[q]
      BY SaveEffect DEF OnUsersRow, Base, TypeOK
    <2>2. OnGroup(q)' => q # r /\ OnGroup(q) /\ request'[q] = request[q]
      BY SaveEffect DEF OnGroup, Base, TypeOK
    <2>3. \A v \in Users : v # u => user'[v] = user[v]
      BY SaveEffect DEF Base, TypeOK
    <2>4. ASSUME OnUsersRow(q)'
          PROVE  user'[request'[q].target] # None
      <3>1. request[q].target \in Users
        BY <2>1, <2>4, Shapes DEF OnUserRows, Base
      <3> QED
        BY <2>1, <2>3, <2>4, <3>1, SaveEffect DEF Base, RowsExist
    <2>5. ASSUME OnGroup(q)', NEW v \in request'[q].hit
          PROVE  LiveUser(v)'
      <3>1. v \in Users
        BY <2>2, <2>5, Shapes DEF OnGroupRows, Base
      <3>2. v # u
        BY <2>2, <2>5, Shapes DEF Save, RowLocked, Doing, Base
      <3> QED
        BY <2>2, <2>3, <2>5, <3>1, <3>2 DEF LiveUser, Base, RowsExist
    <2>6. group' = group
      BY DEF Save
    <2> QED
      BY <2>2, <2>4, <2>5, <2>6 DEF Base, RowsExist
  <1> QED
    BY <1>2, <1>3 DEF Base

\* Requests that begin or go on without a row.
LEMMA GateType ==
    ASSUME Base, NEW r \in Requests,
           \/ \E t \in token : SendRequest(r, t)
           \/ ReadGroup(r) \/ CheckContract(r) \/ FindGroup(r) \/ BreakOff(r)
    PROVE  Base'
  <1>1. \E state \in RequestRows :
            /\ Goto(r, state)
            /\ state.pc \in {"find", "save"} =>
                  OnUsersRow(r) /\ state.target = request[r].target
            /\ state.pc \notin {"nullify", "bury"}
    <2> DEFINE Fits(state) == /\ state \in RequestRows
                              /\ Goto(r, state)
                              /\ state.pc \in {"find", "save"} =>
                                   OnUsersRow(r) /\ state.target = request[r].target
                              /\ state.pc \notin {"nullify", "bury"}
    <2>1. ASSUME Answer(r) PROVE \E state : Fits(state)
      <3>1. Fits([pc |-> "answered"])
        BY <2>1 DEF Answer, RequestRows, Idle
      <3> QED
        BY <3>1
    <2>2. ASSUME NEW t \in token, SendRequest(r, t), Admissible(t[1])
          PROVE  \E state : Fits(state)
      <3> DEFINE state == [pc |-> "group", op |-> "gate", who |-> t[1],
                           exempt |-> t[2] = "impersonation", seen |-> user[t[1]]]
      <3>1. t[1] \in Users /\ user[t[1]] \in UserRows
        BY <2>2 DEF Base, TypeOK, Tokens, Admissible, LiveUser
      <3>2. Fits(state)
        BY <2>2, <3>1 DEF SendRequest, RequestRows, Gates
      <3> QED
        BY <3>2
    <2>3. ASSUME ReadGroup(r) PROVE \E state : Fits(state)
      <3> DEFINE state == [pc |-> "contract", op |-> "gate", who |-> request[r].who,
                           exempt |-> request[r].exempt,
                           may |-> Permitted(request[r].seen)]
      <3>1. /\ request[r].who \in Users
            /\ request[r].exempt \in BOOLEAN
            /\ request[r].seen \in UserRows
        BY <2>3, Shapes DEF ReadGroup, Base
      <3>2. Permitted(request[r].seen) \in BOOLEAN
        BY <3>1 DEF Permitted, UserRows, GroupRows
      <3>3. Fits(state)
        BY <2>3, <3>1, <3>2 DEF ReadGroup, RequestRows, Gates
      <3> QED
        BY <3>3
    <2>4. ASSUME CheckContract(r), ~Answer(r) PROVE \E state : Fits(state)
      <3>1. request[r].who \in Users
        BY <2>4, Shapes DEF CheckContract, Base
      <3>2. Fits([pc |-> "admitted", op |-> "gate", who |-> request[r].who])
        BY <2>4, <3>1 DEF CheckContract, RequestRows, Gates
      <3> QED
        BY <3>2
    <2>5. ASSUME FindGroup(r), ~Answer(r) PROVE \E state : Fits(state)
      <3>1. request[r] \in OnUserRows /\ OnUsersRow(r)
        BY <2>5, Shapes DEF FindGroup, At, OnUsersRow, Base
      <3>2. [request[r] EXCEPT !.pc = "save"] \in OnUserRows
        BY <3>1 DEF OnUserRows
      <3>3. Fits([request[r] EXCEPT !.pc = "save"])
        BY <2>5, <3>1, <3>2 DEF FindGroup, RequestRows, Goto, OnUserRows
      <3> QED
        BY <3>3
    <2> QED
      BY <2>1, <2>2, <2>3, <2>4, <2>5 DEF SendRequest, BreakOff
  <1>2. PICK state \in RequestRows :
            /\ Goto(r, state)
            /\ state.pc \in {"find", "save"} =>
                  OnUsersRow(r) /\ state.target = request[r].target
            /\ state.pc \notin {"nullify", "bury"}
    BY <1>1
  <1>3. UNCHANGED <<rows, token, history>>
    BY DEF SendRequest, ReadGroup, CheckContract, FindGroup, BreakOff
  <1>4. TypeOK'
    BY <1>2, <1>3, GotoType DEF Base, TypeOK, rows, history
  <1>5. RowsExist'
    BY <1>2, <1>3 DEF RowsExist, rows, OnUsersRow, OnGroup, Goto, Base, TypeOK, LiveUser
  <1> QED
    BY <1>4, <1>5 DEF Base

\* Operations on groups and keys.
LEMMA GroupsType ==
    ASSUME Base, NEW r \in Requests, OnGroupsAndKeys(r)
    PROVE  Base'
  <1>1. ASSUME NEW g \in Groups, NEW grants \in BOOLEAN, CreateGroup(r, g, grants)
        PROVE  Base'
    <2>1. request' \in [Requests -> RequestRows]
      BY <1>1, AnswerType DEF CreateGroup, Base
    <2>2. TypeOK'
      BY <1>1, <2>1 DEF CreateGroup, Base, TypeOK, history, GroupRows
    <2>3. RowsExist'
      BY <1>1, AccessAssumption DEF CreateGroup, Answer, Goto, Base, TypeOK, RowsExist,
         OnUsersRow, OnGroup, LiveUser
    <2> QED
      BY <2>2, <2>3 DEF Base
  <1>2. ASSUME NEW g \in Groups, NEW grants \in BOOLEAN, UpdateGroup(r, g, grants)
        PROVE  Base'
    <2>1. request' \in [Requests -> RequestRows]
      BY <1>2, AnswerType DEF UpdateGroup, Base
    <2>2. group[g] \in GroupRows /\ [group[g] EXCEPT !.grants = grants] \in GroupRows
      BY <1>2 DEF UpdateGroup, LiveGroup, GroupRows
    <2>3. TypeOK'
      BY <1>2, <2>1, <2>2 DEF UpdateGroup, Base, TypeOK, history
    <2>4. RowsExist'
      BY <1>2, <2>2 DEF UpdateGroup, Answer, Goto, Base, TypeOK, RowsExist,
         OnUsersRow, OnGroup, LiveUser
    <2> QED
      BY <2>3, <2>4 DEF Base
  <1>3. ASSUME NEW g \in Groups, LoadGroup(r, g)
        PROVE  Base'
    <2> DEFINE state == [pc |-> "nullify", op |-> "ungroup", group |-> g, hit |-> {}]
    <2>1. state \in RequestRows
      BY DEF RequestRows, OnGroupRows
    <2>2. request' \in [Requests -> RequestRows]
      BY <1>3, <2>1, GotoType DEF LoadGroup, Base
    <2>3. TypeOK'
      BY <1>3, <2>2 DEF LoadGroup, Base, TypeOK, rows, history
    <2>4. RowsExist'
      BY <1>3 DEF LoadGroup, Goto, Base, TypeOK, RowsExist, rows, LiveGroup,
         OnUsersRow, OnGroup, LiveUser
    <2> QED
      BY <2>3, <2>4 DEF Base
  <1>4. ASSUME Nullify(r)
        PROVE  Base'
    <2> DEFINE g == request[r].group
               state == [pc |-> "bury", op |-> "ungroup", group |-> g, hit |-> Members(g)]
    <2>1. g \in Groups /\ OnGroup(r)
      BY <1>4, Shapes DEF Nullify, At, OnGroup, OnGroupRows, Base
    <2>2. Members(g) \subseteq Users /\ \A u \in Members(g) : LiveUser(u)
      BY DEF Members
    <2>3. state \in RequestRows
      BY <2>1, <2>2 DEF RequestRows, OnGroupRows
    <2>4. Goto(r, state)
      BY <1>4 DEF Nullify
    <2>5. request' \in [Requests -> RequestRows]
      BY <2>3, <2>4, GotoType DEF Base
    <2>6. TypeOK'
      BY <1>4, <2>5 DEF Nullify, Base, TypeOK, rows, history
    <2>7. RowsExist'
      <3> SUFFICES ASSUME NEW q \in Requests
                   PROVE  /\ OnUsersRow(q)' => user'[request'[q].target] # None
                          /\ OnGroup(q)' => /\ group'[request'[q].group] \in GroupRows
                                            /\ \A v \in request'[q].hit : LiveUser(v)'
        BY DEF RowsExist
      <3>1. request'[r] = state /\ (q # r => request'[q] = request[q])
        BY <2>4 DEF Goto, Base, TypeOK
      <3>2. UNCHANGED rows
        BY <1>4 DEF Nullify
      <3>3. CASE q = r
        BY <2>1, <2>2, <3>1, <3>2, <3>3 DEF rows, OnUsersRow, OnGroup, LiveUser, Base,
           RowsExist
      <3>4. CASE q # r
        BY <3>1, <3>2, <3>4 DEF rows, OnUsersRow, OnGroup, LiveUser, Base, RowsExist
      <3> QED
        BY <3>3, <3>4
    <2> QED
      BY <2>6, <2>7 DEF Base
  <1>5. ASSUME DeleteGroup(r)
        PROVE  Base'
    <2> DEFINE g == request[r].group
    <2>1. /\ g \in Groups /\ group[g] \in GroupRows
          /\ request[r].hit \subseteq Users
          /\ \A u \in request[r].hit : LiveUser(u)
      BY <1>5, Shapes DEF DeleteGroup, At, OnGroup, OnGroupRows, Base, RowsExist
    <2>2. request' \in [Requests -> RequestRows]
      BY <1>5, AnswerType DEF DeleteGroup, Base
    <2>3. \A u \in request[r].hit :
              /\ user[u] \in UserRows
              /\ [user[u] EXCEPT !.group = None] \in UserRows
              /\ [user[u] EXCEPT !.group = None].deleted = user[u].deleted
      BY <2>1 DEF LiveUser, UserRows
    <2>4. user' \in [Users -> UserRows \cup {None, Gone}]
      BY <1>5, <2>1, <2>3 DEF DeleteGroup, Base, TypeOK
    <2>5. /\ [group[g] EXCEPT !.deleted = TRUE] \in GroupRows
          /\ group' = [group EXCEPT ![g] = [group[g] EXCEPT !.deleted = TRUE]]
      BY <1>5, <2>1 DEF DeleteGroup, GroupRows, Base, TypeOK
    <2>6. TypeOK'
      BY <1>5, <2>1, <2>2, <2>4, <2>5 DEF DeleteGroup, Base, TypeOK, history
    <2>7. \A u \in Users : /\ LiveUser(u) => LiveUser(u)'
                           /\ user[u] # None => user'[u] # None
      BY <1>5, <2>1, <2>3, AccessAssumption DEF DeleteGroup, LiveUser
    <2>8. \A q \in Requests :
              /\ OnUsersRow(q)' => /\ OnUsersRow(q) /\ request'[q] = request[q]
                                   /\ request[q].target \in Users
              /\ OnGroup(q)' => /\ OnGroup(q) /\ request'[q] = request[q]
                                /\ request[q].group \in Groups
                                /\ request[q].hit \subseteq Users
      BY <1>5, Shapes DEF DeleteGroup, Answer, Goto, OnUsersRow, OnGroup, OnUserRows,
         OnGroupRows, Base, TypeOK
    <2>9. \A h \in Groups : group[h] \in GroupRows => group'[h] \in GroupRows
      BY <2>1, <2>5 DEF Base, TypeOK
    <2>10. RowsExist'
      BY <2>7, <2>8, <2>9 DEF Base, RowsExist
    <2> QED
      BY <2>6, <2>10 DEF Base
  <1>6. ASSUME CountKeys(r)
        PROVE  Base'
    <2>1. [pc |-> "insert", op |-> "key"] \in RequestRows
      BY DEF RequestRows, OnKeyRows
    <2>2. request' \in [Requests -> RequestRows]
      BY <1>6, <2>1, GotoType DEF CountKeys, Base
    <2>3. crowded' \in BOOLEAN
      BY <1>6 DEF CountKeys
    <2>4. TypeOK'
      BY <1>6, <2>2, <2>3 DEF CountKeys, Base, TypeOK, rows
    <2>5. RowsExist'
      BY <1>6 DEF CountKeys, Goto, Base, TypeOK, RowsExist, rows, OnUsersRow, OnGroup,
         LiveUser
    <2> QED
      BY <2>4, <2>5 DEF Base
  <1>7. ASSUME NEW k \in Keys, InsertKey(r, k) \/ RevokeKey(r, k)
        PROVE  Base'
    <2>1. request' \in [Requests -> RequestRows]
      BY <1>7, AnswerType DEF InsertKey, RevokeKey, Base
    <2>2. TypeOK'
      BY <1>7, <2>1 DEF InsertKey, RevokeKey, Base, TypeOK, history
    <2>3. RowsExist'
      BY <1>7 DEF InsertKey, RevokeKey, Answer, Goto, Base, TypeOK, RowsExist,
         OnUsersRow, OnGroup, LiveUser
    <2> QED
      BY <2>2, <2>3 DEF Base
  <1>8. ASSUME NEW g \in Groups, FindInviteGroup(r, g)
        PROVE  Base'
    <2>1. [pc |-> "invite", op |-> "invite", group |-> g] \in RequestRows
      BY DEF RequestRows, OnInviteRows
    <2>2. request' \in [Requests -> RequestRows]
      BY <1>8, <2>1, GotoType DEF FindInviteGroup, Base
    <2>3. TypeOK'
      BY <1>8, <2>2 DEF FindInviteGroup, Base, TypeOK, rows, history
    <2>4. RowsExist'
      BY <1>8 DEF FindInviteGroup, Goto, Base, TypeOK, RowsExist, rows, OnUsersRow,
         OnGroup, LiveUser
    <2> QED
      BY <2>3, <2>4 DEF Base
  <1>9. ASSUME CreateInvite(r)
        PROVE  Base'
    <2>1. request' \in [Requests -> RequestRows]
      BY <1>9, AnswerType DEF CreateInvite, Base
    <2>2. invited' \subseteq Groups
      BY <1>9, Shapes DEF CreateInvite, OnInviteRows, Base, TypeOK
    <2>3. TypeOK'
      BY <1>9, <2>1, <2>2 DEF CreateInvite, Base, TypeOK, history
    <2>4. RowsExist'
      BY <1>9 DEF CreateInvite, Answer, Goto, Base, TypeOK, RowsExist, OnUsersRow,
         OnGroup, LiveUser
    <2> QED
      BY <2>3, <2>4 DEF Base
  <1> QED
    BY <1>1, <1>2, <1>3, <1>4, <1>5, <1>6, <1>7, <1>8, <1>9 DEF OnGroupsAndKeys

\* The owner, the tokens and the company.
LEMMA SurroundingsType ==
    ASSUME Base, Surroundings
    PROVE  Base'
  <1>1. /\ Member \in UserRows
        /\ \A g \in Groups \cup {None} : [Member EXCEPT !.group = g] \in UserRows
    BY DEF Member, UserRows
  <1>2. CASE UNCHANGED <<rows, request, history>> /\ token' \subseteq Tokens
    BY <1>2 DEF Base, TypeOK, RowsExist, rows, history, OnUsersRow, OnGroup, LiveUser
  <1>3. ASSUME NEW u \in Users, NEW new \in UserRows, user[u] = None,
               user' = [user EXCEPT ![u] = new],
               UNCHANGED <<group, key, invited, request, shut, mixed, crowded>>,
               token' \subseteq Tokens
        PROVE  Base'
    <2>1. TypeOK'
      BY <1>1, <1>3 DEF Base, TypeOK, history
    <2>2. \A v \in Users : /\ LiveUser(v) => LiveUser(v)'
                           /\ user[v] # None => user'[v] # None
      BY <1>3, AccessAssumption DEF LiveUser, Base, TypeOK
    <2>3. \A q \in Requests : /\ OnUsersRow(q) => request[q].target \in Users
                              /\ OnGroup(q) => request[q].hit \subseteq Users
      BY Shapes DEF OnUserRows, OnGroupRows, Base
    <2>4. RowsExist'
      BY <1>3, <2>2, <2>3 DEF Base, RowsExist, OnUsersRow, OnGroup
    <2> QED
      BY <2>1, <2>4 DEF Base
  <1>4. ASSUME RemoveCompany PROVE Base'
    <2>1. TypeOK'
      BY <1>4 DEF RemoveCompany, Base, TypeOK, history
    <2>2. RowsExist'
      BY <1>4 DEF RemoveCompany, RowsExist, OnUsersRow, OnGroup, InFlight
    <2> QED
      BY <2>1, <2>2 DEF Base
  <1>5. CASE CreateCompany
    BY <1>2, <1>5 DEF CreateCompany, Base, TypeOK
  <1>6. CASE CreateShadow
    BY <1>1, <1>3, <1>6, AccessAssumption DEF CreateShadow, Base, TypeOK, history
  <1>7. CASE Impersonate
    BY <1>2, <1>7, AccessAssumption DEF Impersonate, Base, TypeOK, Tokens
  <1>8. CASE \E status \in {"active", "inactive", "deleted"} : SetCompany(status)
    BY <1>2, <1>8 DEF SetCompany, Base, TypeOK
  <1>9. CASE \E status \in {"none", "open", "lapsed"} : SetContract(status)
    BY <1>2, <1>9 DEF SetContract, Base, TypeOK
  <1>10. ASSUME NEW u \in Users, Register(u) PROVE Base'
    <2>1. token' \subseteq Tokens
      BY <1>10 DEF Register, Base, TypeOK, Tokens
    <2>2. PICK g \in invited \cup {None} :
              user' = [user EXCEPT ![u] = [Member EXCEPT !.group = g]]
      BY <1>10 DEF Register
    <2>3. [Member EXCEPT !.group = g] \in UserRows
      BY <1>1 DEF Base, TypeOK
    <2>4. /\ user[u] = None
          /\ UNCHANGED <<group, key, invited, request, shut, mixed, crowded>>
      BY <1>10 DEF Register
    <2> QED
      BY <1>3, <2>1, <2>2, <2>3, <2>4
  <1>11. ASSUME NEW u \in Users, LogIn(u) \/ RefreshToken(u) PROVE Base'
    BY <1>2, <1>11 DEF LogIn, RefreshToken, Base, TypeOK, Tokens
  <1>12. ASSUME NEW t \in token, Expire(t) PROVE Base'
    BY <1>2, <1>12 DEF Expire, Base, TypeOK
  <1>13. ASSUME NEW g \in Groups, Withdraw(g) PROVE Base'
    BY <1>13 DEF Withdraw, Base, TypeOK, RowsExist, history, OnUsersRow, OnGroup, LiveUser
  <1> QED
    BY <1>4, <1>5, <1>6, <1>7, <1>8, <1>9, <1>10, <1>11, <1>12, <1>13 DEF Surroundings

LEMMA BaseStep ==
    ASSUME Base, [Next]_vars
    PROVE  Base'
  <1>1. CASE UNCHANGED vars
    BY <1>1 DEF vars, rows, history, Base, TypeOK, RowsExist, OnUsersRow, OnGroup, LiveUser
  <1>2. ASSUME NEW r \in Requests, OnUsers(r)
        PROVE  Base'
    <2>1. ASSUME NEW u \in Users,
                 UpdateUser(r, u) \/ ActivateUser(r, u) \/ DeactivateUser(r, u)
                   \/ DeleteUser(r, u)
          PROVE  Base'
      BY <2>1, OperationsLoad, LoadType
    <2> QED
      BY <1>2, <2>1, GateType, SaveType DEF OnUsers
  <1> QED
    BY <1>1, <1>2, SurroundingsType, GroupsType, GateType DEF Next

\* Every reachable state is well typed, and the rows that requests are at
\* work on exist.
THEOREM TypeCorrect == Spec => []Base
  <1>1. Init => Base
    <2> SUFFICES ASSUME Init PROVE Base
      OBVIOUS
    <2>1. [pc |-> "unsent"] \in RequestRows
      BY DEF RequestRows, Idle
    <2>2. TypeOK
      BY <2>1 DEF Init, TypeOK
    <2>3. RowsExist
      BY DEF Init, RowsExist, OnUsersRow, OnGroup
    <2> QED
      BY <2>2, <2>3 DEF Base
  <1> QED
    BY <1>1, BaseStep, PTL DEF Spec

-----------------------------------------------------------------------------
(* Exclusions.                                                              *)

Lets(r, u, effect) ==
    OnUsersRow(r) /\ request[r].target = u /\ effect \in request[r].effects

\* What a request on a user writes, compared with the row it loaded.
EffectsTold ==
    \A r \in Requests : OnUsersRow(r) =>
        /\ ~request[r].seen.deleted
        /\ request[r].set.active /\ ~request[r].seen.active =>
              "in" \in request[r].effects
        /\ ~request[r].set.suspended /\ request[r].seen.suspended =>
              "in" \in request[r].effects
        /\ "out" \in request[r].effects =>
              \/ ~request[r].set.active \/ request[r].set.suspended
              \/ request[r].set.deleted \/ request[r].hard

\* Where activations and exclusions do not meet, an exclusion at work is the
\* only request that might let its user in, and the columns of his row that
\* it found to keep him out still do.
ExclusionsAlone ==
    \A r \in Requests : \A u \in Users \ mixed : Lets(r, u, "out") =>
        /\ \A q \in Requests : Lets(q, u, "in") => q = r
        /\ user[u] \in UserRows =>
              /\ ~request[r].seen.active => ~user[u].active
              /\ request[r].seen.suspended => user[u].suspended

ShutExist == \A u \in shut : user[u] # None

\* Nobody is about to let an excluded user in.
NobodyLetsIn == \A u \in shut \ mixed : \A r \in Requests : ~Lets(r, u, "in")

Exclusions ==
    /\ EffectsTold /\ ExclusionsAlone /\ ShutExist /\ NobodyLetsIn
    /\ ExcludedStaysOut

\* A step of neither a load nor a save: requests on users end or go on, and
\* nobody's admission changes.
Quiet ==
    /\ shut' = shut
    /\ mixed' = mixed
    /\ \A r \in Requests : OnUsersRow(r)' =>
        /\ OnUsersRow(r)
        /\ request'[r].target = request[r].target
        /\ request'[r].seen = request[r].seen
        /\ request'[r].set = request[r].set
        /\ request'[r].hard = request[r].hard
        /\ request'[r].effects = request[r].effects
    /\ \A u \in Users : user[u] # None =>
        /\ user'[u] # None
        /\ user'[u] \in UserRows =>
            /\ user[u] \in UserRows
            /\ user'[u].active = user[u].active
            /\ user'[u].suspended = user[u].suspended
            /\ user'[u].deleted = user[u].deleted

LEMMA QuietKeeps ==
    ASSUME Base, Exclusions, Quiet
    PROVE  Exclusions'
  <1>1. \A r \in Requests, u \in Users : \A e \in {"in", "out"} :
            Lets(r, u, e)' => Lets(r, u, e)
    BY DEF Quiet, Lets
  <1>2. EffectsTold'
    BY DEF Exclusions, EffectsTold, Quiet
  <1>3. \A r \in Requests : OnUsersRow(r) => request[r].target \in Users
    BY Shapes DEF OnUserRows, Base
  <1>4. ExclusionsAlone'
    <2> SUFFICES ASSUME NEW r \in Requests, NEW u \in Users \ mixed, Lets(r, u, "out")'
                 PROVE  /\ \A q \in Requests : Lets(q, u, "in")' => q = r
                        /\ user'[u] \in UserRows =>
                              /\ ~request'[r].seen.active => ~user'[u].active
                              /\ request'[r].seen.suspended => user'[u].suspended
      BY DEF ExclusionsAlone, Quiet
    <2>1. Lets(r, u, "out") /\ OnUsersRow(r)
      BY <1>1 DEF Lets
    <2>2. user[u] # None
      BY <2>1 DEF Lets, Base, RowsExist
    <2>3. request'[r].seen = request[r].seen
      BY DEF Lets, Quiet
    <2> QED
      BY <1>1, <2>1, <2>2, <2>3 DEF Exclusions, ExclusionsAlone, Quiet
  <1>5. ShutExist'
    BY DEF Exclusions, ShutExist, Quiet, Base, TypeOK
  <1>6. NobodyLetsIn'
    BY <1>1 DEF Exclusions, NobodyLetsIn, Quiet, Base, TypeOK
  <1>7. ExcludedStaysOut'
    BY DEF Exclusions, ExcludedStaysOut, ShutExist, Quiet, Base, TypeOK, Admissible,
       LiveUser
  <1> QED
    BY <1>2, <1>4, <1>5, <1>6, <1>7 DEF Exclusions

LEMMA QuietGate ==
    ASSUME Base, NEW r \in Requests,
           \/ \E t \in token : SendRequest(r, t)
           \/ ReadGroup(r) \/ CheckContract(r) \/ FindGroup(r) \/ BreakOff(r)
    PROVE  Quiet
  <1>1. UNCHANGED <<user, shut, mixed>>
    BY DEF SendRequest, ReadGroup, CheckContract, FindGroup, BreakOff, rows, history
  <1>2. CASE FindGroup(r)
    <2>1. request[r] \in OnUserRows /\ OnUsersRow(r)
      BY <1>2, Shapes DEF FindGroup, At, OnUsersRow, Base
    <2> QED
      BY <1>1, <1>2, <2>1 DEF FindGroup, Answer, Goto, Quiet, OnUsersRow, OnUserRows, Base,
         TypeOK
  <1>3. CASE \/ \E t \in token : SendRequest(r, t)
             \/ ReadGroup(r) \/ CheckContract(r) \/ BreakOff(r)
    <2>1. /\ request'[r].pc \notin {"find", "save"}
          /\ \A q \in Requests \ {r} : request'[q] = request[q]
      BY <1>3 DEF SendRequest, ReadGroup, CheckContract, BreakOff, Answer, Goto, Base,
         TypeOK
    <2> QED
      BY <1>1, <2>1 DEF Quiet, OnUsersRow
  <1> QED
    BY <1>2, <1>3

LEMMA QuietGroups ==
    ASSUME Base, NEW r \in Requests, OnGroupsAndKeys(r)
    PROVE  Quiet
  <1>1. UNCHANGED <<shut, mixed>>
    BY DEF OnGroupsAndKeys, CreateGroup, UpdateGroup, LoadGroup, Nullify, DeleteGroup,
       CountKeys, InsertKey, RevokeKey, FindInviteGroup, CreateInvite, history
  <1>2. /\ request'[r].pc \notin {"find", "save"}
        /\ \A q \in Requests \ {r} : request'[q] = request[q]
    BY DEF OnGroupsAndKeys, CreateGroup, UpdateGroup, LoadGroup, Nullify, DeleteGroup,
       CountKeys, InsertKey, RevokeKey, FindInviteGroup, CreateInvite, Answer, Goto, Base,
       TypeOK
  <1>3. \A u \in Users : user[u] # None =>
            /\ user'[u] # None
            /\ user'[u] \in UserRows =>
                /\ user[u] \in UserRows
                /\ user'[u].active = user[u].active
                /\ user'[u].suspended = user[u].suspended
                /\ user'[u].deleted = user[u].deleted
    <2>1. CASE DeleteGroup(r)
      <3>1. \A u \in request[r].hit : LiveUser(u)
        BY <2>1, Shapes DEF DeleteGroup, At, OnGroup, Base, RowsExist
      <3>2. \A u \in request[r].hit :
                /\ user[u] \in UserRows
                /\ [user[u] EXCEPT !.group = None] \in UserRows
                /\ [user[u] EXCEPT !.group = None].active = user[u].active
                /\ [user[u] EXCEPT !.group = None].suspended = user[u].suspended
                /\ [user[u] EXCEPT !.group = None].deleted = user[u].deleted
        BY <3>1 DEF LiveUser, UserRows
      <3>3. SUFFICES ASSUME NEW u \in Users, user[u] # None
                     PROVE  /\ user'[u] # None
                            /\ user'[u] \in UserRows =>
                                /\ user[u] \in UserRows
                                /\ user'[u].active = user[u].active
                                /\ user'[u].suspended = user[u].suspended
                                /\ user'[u].deleted = user[u].deleted
        OBVIOUS
      <3>4. CASE u \in request[r].hit
        <4>1. user'[u] = [user[u] EXCEPT !.group = None]
          BY <2>1, <3>4 DEF DeleteGroup
        <4> QED
          BY <3>2, <3>4, <4>1, Absent
      <3>5. CASE u \notin request[r].hit
        <4>1. user'[u] = user[u]
          BY <2>1, <3>5 DEF DeleteGroup
        <4> QED
          BY <3>3, <4>1
      <3> QED
        BY <3>4, <3>5
    <2>2. CASE user' = user
      BY <2>2
    <2> QED
      BY <2>1, <2>2 DEF OnGroupsAndKeys, CreateGroup, UpdateGroup, LoadGroup, Nullify,
         CountKeys, InsertKey, RevokeKey, FindInviteGroup, CreateInvite, rows
  <1>4. \A q \in Requests : OnUsersRow(q)' => OnUsersRow(q) /\ request'[q] = request[q]
    BY <1>2 DEF OnUsersRow
  <1> QED
    BY <1>1, <1>3, <1>4 DEF Quiet

LEMMA QuietSurroundings ==
    ASSUME Base, Surroundings
    PROVE  Quiet
  <1>1. UNCHANGED <<request, shut, mixed>>
    BY DEF Surroundings, CreateCompany, CreateShadow, Impersonate, RemoveCompany,
       SetCompany, SetContract, Register, Withdraw, LogIn, RefreshToken, Expire, history
  <1>2. \A u \in Users : user[u] # None => user'[u] \in {user[u], Gone}
    BY DEF Surroundings, CreateCompany, CreateShadow, Impersonate, RemoveCompany,
       SetCompany, SetContract, Register, Withdraw, LogIn, RefreshToken, Expire, rows, Base, TypeOK
  <1>3. \A u \in Users : user[u] # None =>
            user'[u] # None /\ (user'[u] \in UserRows => user'[u] = user[u])
    BY <1>2, Absent
  <1>4. \A r \in Requests : OnUsersRow(r)' => OnUsersRow(r) /\ request'[r] = request[r]
    BY <1>1 DEF OnUsersRow
  <1> QED
    BY <1>1, <1>3, <1>4 DEF Quiet

\* A load tells what it will do, and whom it meets.
LEMMA LoadKeeps ==
    ASSUME Base, Exclusions, NEW r \in Requests, NEW u \in Users, Loads(r, u)
    PROVE  Exclusions'
  <1>1. PICK change \in ChangeRows, delete \in {"no", "soft", "hard"} :
            Load(r, u, change, delete)
    BY DEF Loads
  <1> DEFINE effects == Effects(change, delete)
             new == [Updated(user[u], change) EXCEPT !.deleted = delete = "soft"]
             state == [pc |-> IF change.group = None THEN "save" ELSE "find",
                       op |-> "user", target |-> u, seen |-> user[u], set |-> new,
                       hard |-> delete = "hard", effects |-> effects]
  <1>2. /\ user[u] \in UserRows /\ ~user[u].deleted
        /\ ~OnUsersRow(r)
        /\ user' = user
        /\ request' = [request EXCEPT ![r] = state]
    BY <1>1 DEF Load, LiveUser, At, OnUsersRow, rows, Goto
  <1>3. /\ new.active = Column(change.active, user[u].active)
        /\ new.suspended = Column(change.suspended, user[u].suspended)
        /\ new.deleted = (delete = "soft")
    BY <1>2 DEF Updated, UserRows
  <1>4. /\ new.active /\ ~user[u].active => "in" \in effects
        /\ ~new.suspended /\ user[u].suspended => "in" \in effects
        /\ "out" \in effects =>
              ~new.active \/ new.suspended \/ new.deleted \/ delete = "hard"
    BY <1>3, AccessAssumption DEF Effects, Column, ChangeRows
  <1>5. /\ request'[r] = state
        /\ \A q \in Requests \ {r} : request'[q] = request[q]
    BY <1>2 DEF Base, TypeOK
  <1>6. \A q \in Requests, v \in Users : \A e \in {"in", "out"} :
            Lets(q, v, e)' <=> IF q = r THEN v = u /\ e \in effects ELSE Lets(q, v, e)
    BY <1>5 DEF Lets, OnUsersRow
  <1>7. \A q \in Requests, e \in {"in", "out"} : Lets(q, u, e) <=> q \in OnUser(u, e)
    BY Shapes DEF Lets, OnUser, Doing, Base
  <1>8. /\ mixed \subseteq mixed'
        /\ u \notin mixed' =>
              /\ "in" \in effects => \A q \in Requests : ~Lets(q, u, "out")
              /\ "out" \in effects => \A q \in Requests : ~Lets(q, u, "in")
    BY <1>1, <1>7 DEF Load
  <1>9. EffectsTold'
    <2> SUFFICES ASSUME NEW q \in Requests, OnUsersRow(q)'
                 PROVE  /\ ~request'[q].seen.deleted
                        /\ request'[q].set.active /\ ~request'[q].seen.active =>
                              "in" \in request'[q].effects
                        /\ ~request'[q].set.suspended /\ request'[q].seen.suspended =>
                              "in" \in request'[q].effects
                        /\ "out" \in request'[q].effects =>
                              \/ ~request'[q].set.active \/ request'[q].set.suspended
                              \/ request'[q].set.deleted \/ request'[q].hard
      BY DEF EffectsTold
    <2>1. CASE q = r
      <3>1. /\ request'[q].seen = user[u] /\ request'[q].set = new
            /\ request'[q].effects = effects /\ request'[q].hard = (delete = "hard")
        BY <1>5, <2>1
      <3> QED
        BY <1>2, <1>4, <3>1
    <2>2. CASE q # r
      BY <1>5, <2>2 DEF Exclusions, EffectsTold, OnUsersRow
    <2> QED
      BY <2>1, <2>2
  <1>10. ExclusionsAlone'
    <2> SUFFICES ASSUME NEW q \in Requests, NEW v \in Users \ mixed', Lets(q, v, "out")'
                 PROVE  /\ \A p \in Requests : Lets(p, v, "in")' => p = q
                        /\ user'[v] \in UserRows =>
                              /\ ~request'[q].seen.active => ~user'[v].active
                              /\ request'[q].seen.suspended => user'[v].suspended
      BY DEF ExclusionsAlone
    <2>1. v \in Users \ mixed
      BY <1>8
    <2>2. CASE q = r
      <3>1. v = u /\ "out" \in effects
        BY <1>6, <2>2
      <3>2. \A p \in Requests : Lets(p, v, "in")' => p = q
        BY <1>6, <1>8, <2>2, <3>1
      <3>3. request'[q].seen = user[u]
        BY <1>5, <2>2
      <3> QED
        BY <1>2, <3>1, <3>2, <3>3
    <2>3. CASE q # r
      <3>1. Lets(q, v, "out")
        BY <1>6, <2>3
      <3>2. \A p \in Requests : Lets(p, v, "in")' => p = q
        <4> SUFFICES ASSUME NEW p \in Requests, Lets(p, v, "in")' PROVE p = q
          OBVIOUS
        <4>1. p # r
          BY <1>6, <1>8, <2>3, <3>1
        <4> QED
          BY <1>6, <2>1, <3>1, <4>1 DEF Exclusions, ExclusionsAlone
      <3>3. request'[q].seen = request[q].seen
        BY <1>5, <2>3
      <3> QED
        BY <1>2, <2>1, <3>1, <3>2, <3>3 DEF Exclusions, ExclusionsAlone
    <2> QED
      BY <2>2, <2>3
  <1>11. shut' \subseteq shut /\ ("in" \in effects => u \notin shut')
    BY <1>1 DEF Load
  <1>12. ShutExist'
    BY <1>2, <1>11 DEF Exclusions, ShutExist
  <1>13. NobodyLetsIn'
    <2> SUFFICES ASSUME NEW v \in shut' \ mixed', NEW q \in Requests, Lets(q, v, "in")'
                 PROVE  FALSE
      BY DEF NobodyLetsIn
    <2>1. v \in shut \ mixed /\ v \in Users
      BY <1>8, <1>11 DEF Base, TypeOK
    <2> QED
      BY <1>6, <1>11, <2>1 DEF Exclusions, NobodyLetsIn
  <1>14. ExcludedStaysOut'
    BY <1>2, <1>8, <1>11 DEF Exclusions, ExcludedStaysOut, Admissible, LiveUser
  <1> QED
    BY <1>9, <1>10, <1>12, <1>13, <1>14 DEF Exclusions

\* The columns of a saved row.
LEMMA SavedColumns ==
    ASSUME NEW old \in UserRows, NEW seen \in UserRows, NEW set \in UserRows
    PROVE  /\ Saved(old, seen, set).active =
                IF set.active = seen.active THEN old.active ELSE set.active
           /\ Saved(old, seen, set).suspended =
                IF set.suspended = seen.suspended THEN old.suspended ELSE set.suspended
           /\ Saved(old, seen, set).deleted =
                IF set.deleted = seen.deleted THEN old.deleted ELSE set.deleted
           /\ Saved(old, seen, set).group =
                IF set.group = seen.group THEN old.group ELSE set.group
  BY DEF Saved, UserRows

\* A save writes what its request told.
LEMMA SaveKeeps ==
    ASSUME Base, Exclusions, NEW r \in Requests, Save(r)
    PROVE  Exclusions'
  <1> DEFINE u == request[r].target
             seen == request[r].seen
             set == request[r].set
             effects == request[r].effects
  <1>1. /\ OnUsersRow(r)
        /\ u \in Users /\ seen \in UserRows /\ set \in UserRows
        /\ effects \subseteq {"in", "out"}
        /\ user[u] \in UserRows \cup {Gone}
    BY Shapes, SaveEffect DEF Save, At, OnUsersRow, OnUserRows, Base
  <1>2. /\ ~OnUsersRow(r)'
        /\ \A q \in Requests \ {r} : request'[q] = request[q]
        /\ \A v \in Users \ {u} : user'[v] = user[v]
        /\ user'[u] = IF user[u] = Gone \/ request[r].hard THEN Gone
                      ELSE Saved(user[u], seen, set)
    BY <1>1, SaveEffect DEF Base, TypeOK, OnUsersRow
  <1>3. /\ shut' = (IF "out" \in effects THEN shut \cup {u} ELSE shut)
        /\ mixed' = mixed
    BY DEF Save
  <1>4. \A q \in Requests, v \in Users : \A e \in {"in", "out"} :
            Lets(q, v, e)' => q # r /\ Lets(q, v, e)
    BY <1>2 DEF Lets, OnUsersRow
  <1>5. user'[u] \in UserRows =>
            /\ user[u] \in UserRows /\ ~request[r].hard
            /\ user'[u].active = IF set.active = seen.active THEN user[u].active
                                 ELSE set.active
            /\ user'[u].suspended = IF set.suspended = seen.suspended
                                    THEN user[u].suspended ELSE set.suspended
            /\ user'[u].deleted = IF set.deleted = seen.deleted THEN user[u].deleted
                                  ELSE set.deleted
    <2> SUFFICES ASSUME user'[u] \in UserRows
                 PROVE  /\ user[u] \in UserRows /\ ~request[r].hard
                        /\ user'[u].active = IF set.active = seen.active THEN user[u].active
                                             ELSE set.active
                        /\ user'[u].suspended = IF set.suspended = seen.suspended
                                                THEN user[u].suspended
                                                ELSE set.suspended
                        /\ user'[u].deleted = IF set.deleted = seen.deleted
                                              THEN user[u].deleted
                                              ELSE set.deleted
      OBVIOUS
    <2>1. user'[u] # Gone
      BY Absent
    <2>2. user[u] \in UserRows /\ ~request[r].hard
      BY <1>1, <1>2, <2>1
    <2>3. user'[u] = Saved(user[u], seen, set)
      BY <1>2, <2>1
    <2> HIDE DEF u, seen, set
    <2> QED
      BY <1>1, <2>2, <2>3, SavedColumns
  <1>6. /\ ~seen.deleted
        /\ set.active /\ ~seen.active => "in" \in effects
        /\ ~set.suspended /\ seen.suspended => "in" \in effects
        /\ "out" \in effects =>
              ~set.active \/ set.suspended \/ set.deleted \/ request[r].hard
    BY <1>1 DEF Exclusions, EffectsTold
  <1>7. /\ {set.active, seen.active, set.suspended, seen.suspended, set.deleted,
            seen.deleted} \subseteq BOOLEAN
        /\ user[u] \in UserRows =>
              {user[u].active, user[u].suspended, user[u].deleted} \subseteq BOOLEAN
    BY <1>1 DEF UserRows
  \* Whoever is not let in has no more in his row than before.
  <1>8. "in" \notin effects /\ user'[u] \in UserRows =>
            /\ user'[u].active => user[u].active
            /\ user[u].suspended => user'[u].suspended
            /\ user[u].deleted => user'[u].deleted
    BY <1>5, <1>6, <1>7
  <1>9. EffectsTold'
    BY <1>2 DEF Exclusions, EffectsTold, OnUsersRow
  <1>10. ExclusionsAlone'
    <2> SUFFICES ASSUME NEW q \in Requests, NEW v \in Users \ mixed, Lets(q, v, "out")'
                 PROVE  /\ \A p \in Requests : Lets(p, v, "in")' => p = q
                        /\ user'[v] \in UserRows =>
                              /\ ~request'[q].seen.active => ~user'[v].active
                              /\ request'[q].seen.suspended => user'[v].suspended
      BY <1>3 DEF ExclusionsAlone
    <2>1. q # r /\ Lets(q, v, "out")
      BY <1>4
    <2>2. \A p \in Requests : Lets(p, v, "in")' => p = q
      BY <1>4, <2>1 DEF Exclusions, ExclusionsAlone
    <2>3. request'[q].seen = request[q].seen
      BY <1>2, <2>1
    <2>4. user[v] \in UserRows =>
              /\ ~request[q].seen.active => ~user[v].active
              /\ request[q].seen.suspended => user[v].suspended
      BY <2>1 DEF Exclusions, ExclusionsAlone
    <2>5. CASE v = u
      <3>1. "in" \notin effects
        BY <1>1, <2>1, <2>5 DEF Exclusions, ExclusionsAlone, Lets
      <3> QED
        BY <1>5, <1>8, <2>2, <2>3, <2>4, <2>5, <3>1
    <2>6. CASE v # u
      BY <1>2, <2>2, <2>3, <2>4, <2>6
    <2> QED
      BY <2>5, <2>6
  <1>11. ShutExist'
    <2> SUFFICES ASSUME NEW v \in shut' PROVE user'[v] # None
      BY DEF ShutExist
    <2>1. v \in Users
      BY <1>1, <1>3 DEF Base, TypeOK
    <2> QED
      BY <1>2, <1>3, <2>1, SaveEffect DEF Exclusions, ShutExist
  <1>12. NobodyLetsIn'
    <2> SUFFICES ASSUME NEW v \in shut' \ mixed, NEW q \in Requests, Lets(q, v, "in")'
                 PROVE  FALSE
      BY <1>3 DEF NobodyLetsIn
    <2>1. v \in Users
      BY <1>1, <1>3 DEF Base, TypeOK
    <2>2. q # r /\ Lets(q, v, "in")
      BY <1>4, <2>1
    <2>3. CASE v \in shut
      BY <2>2, <2>3 DEF Exclusions, NobodyLetsIn
    <2>4. CASE v = u /\ "out" \in effects
      BY <1>1, <2>1, <2>2, <2>4 DEF Exclusions, ExclusionsAlone, Lets
    <2> QED
      BY <1>3, <2>3, <2>4
  <1>13. ExcludedStaysOut'
    <2> SUFFICES ASSUME NEW v \in shut' \ mixed, Admissible(v)' PROVE FALSE
      BY <1>3 DEF ExcludedStaysOut
    <2>1. v \in Users
      BY <1>1, <1>3 DEF Base, TypeOK
    <2>2. /\ user'[v] \in UserRows /\ ~user'[v].deleted
          /\ user'[v].active /\ ~user'[v].suspended
      BY DEF Admissible, LiveUser
    <2>3. CASE v # u
      BY <1>2, <1>3, <2>1, <2>2, <2>3 DEF Exclusions, ExcludedStaysOut, Admissible, LiveUser
    <2>4. CASE v = u /\ v \in shut /\ "out" \notin effects
      <3>1. "in" \notin effects
        BY <1>1, <2>4 DEF Exclusions, NobodyLetsIn, Lets
      <3>2. ~Admissible(u)
        BY <2>4 DEF Exclusions, ExcludedStaysOut
      <3> QED
        BY <1>5, <1>7, <1>8, <2>2, <2>4, <3>1, <3>2 DEF Admissible, LiveUser
    <2>5. CASE v = u /\ "out" \in effects
      <3>1. user[u] \in UserRows =>
                /\ ~seen.active => ~user[u].active
                /\ seen.suspended => user[u].suspended
        BY <1>1, <2>5 DEF Exclusions, ExclusionsAlone, Lets
      <3> QED
        BY <1>5, <1>6, <1>7, <2>2, <2>5, <3>1
    <2> QED
      BY <1>3, <2>3, <2>4, <2>5
  <1> QED
    BY <1>9, <1>10, <1>11, <1>12, <1>13 DEF Exclusions

LEMMA ExclusionsStep ==
    ASSUME Base, Exclusions, [Next]_vars
    PROVE  Exclusions'
  <1>1. CASE UNCHANGED vars
    <2>1. Quiet
      BY <1>1 DEF vars, rows, history, Quiet, OnUsersRow
    <2> QED
      BY <2>1, QuietKeeps
  <1>2. ASSUME NEW r \in Requests, OnUsers(r)
        PROVE  Exclusions'
    <2>1. ASSUME NEW u \in Users,
                 UpdateUser(r, u) \/ ActivateUser(r, u) \/ DeactivateUser(r, u)
                   \/ DeleteUser(r, u)
          PROVE  Exclusions'
      BY <2>1, OperationsLoad, LoadKeeps
    <2> QED
      BY <1>2, <2>1, QuietGate, QuietKeeps, SaveKeeps DEF OnUsers
  <1> QED
    BY <1>1, <1>2, QuietSurroundings, QuietGroups, QuietGate, QuietKeeps DEF Next

\* A user who was excluded is let in by no token until somebody activates him,
\* whatever updates had loaded his row before, unless an activation met the
\* exclusion: for any number of requests and users.
THEOREM TheExcludedStayOut == Spec => []ExcludedStaysOut
  <1>1. Init => Exclusions
    BY DEF Init, Exclusions, EffectsTold, ExclusionsAlone, ShutExist, NobodyLetsIn,
       ExcludedStaysOut, OnUsersRow, Lets
  <1>2. Exclusions => ExcludedStaysOut
    BY DEF Exclusions
  <1> QED
    BY <1>1, <1>2, ExclusionsStep, TypeCorrect, PTL DEF Spec

-----------------------------------------------------------------------------
(* API keys.                                                                *)

\* Unless two requests counted at once, one at most is about to insert, and
\* the room that it found is still there.
Room ==
    \/ crowded
    \/ /\ \A r, q \in Requests : At(r, "insert") /\ At(q, "insert") => r = q
       /\ \A r \in Requests : At(r, "insert") => Cardinality(Active) < MaxKeys
       /\ Cardinality(Active) <= MaxKeys

LEMMA KeysFinite ==
    /\ IsFiniteSet(Active) /\ Cardinality(Active) \in Nat
    /\ \A S \in SUBSET Active : Cardinality(S) \in Nat /\ Cardinality(S) <= Cardinality(Active)
  <1>1. IsFiniteSet(Active)
    BY AccessAssumption, FS_Subset DEF Active
  <1> QED
    BY <1>1, FS_Subset, FS_CardinalityType

\* No key more and no insertion more.
LEMMA FewerKeys ==
    ASSUME Room, crowded' = crowded, Active' \subseteq Active,
           \A r \in Requests : At(r, "insert")' => At(r, "insert")
    PROVE  Room'
  <1>1. Cardinality(Active') \in Nat /\ Cardinality(Active') <= Cardinality(Active)
    BY KeysFinite
  <1> QED
    BY <1>1, KeysFinite, AccessAssumption DEF Room

LEMMA RoomStep ==
    ASSUME Base, Room, [Next]_vars
    PROVE  Room'
  <1>1. CASE UNCHANGED vars
    BY <1>1, FewerKeys DEF vars, rows, history, Active, At
  <1>2. CASE Surroundings
    <2>1. UNCHANGED <<request, crowded>> /\ Active' \subseteq Active
      BY <1>2 DEF Surroundings, CreateCompany, CreateShadow, Impersonate, RemoveCompany,
         SetCompany, SetContract, Register, Withdraw, LogIn, RefreshToken, Expire, rows, history,
         Active
    <2> QED
      BY <2>1, FewerKeys DEF At
  <1>3. ASSUME NEW r \in Requests, OnUsers(r) \/ BreakOff(r)
        PROVE  Room'
    <2>1. ASSUME NEW u \in Users, Loads(r, u)
          PROVE  /\ UNCHANGED <<key, crowded>>
                 /\ request'[r].pc # "insert"
                 /\ \A q \in Requests \ {r} : request'[q] = request[q]
      BY <2>1 DEF Loads, Load, Goto, rows, Base, TypeOK
    <2>2. /\ UNCHANGED <<key, crowded>>
          /\ request'[r].pc # "insert"
          /\ \A q \in Requests \ {r} : request'[q] = request[q]
      <3>1. CASE FindGroup(r)
        <4>1. request[r] \in OnUserRows
          BY <3>1, Shapes DEF FindGroup, At, OnUsersRow, Base
        <4> QED
          BY <3>1, <4>1 DEF FindGroup, Answer, Goto, rows, history, OnUserRows, Base, TypeOK
      <3>2. CASE Save(r)
        <4>1. UNCHANGED <<key, crowded>> /\ Answer(r)
          BY <3>2 DEF Save
        <4> QED
          BY <4>1 DEF Answer, Goto, Base, TypeOK
      <3>3. CASE \/ \E t \in token : SendRequest(r, t)
                 \/ ReadGroup(r) \/ CheckContract(r) \/ BreakOff(r)
        BY <3>3 DEF SendRequest, ReadGroup, CheckContract, BreakOff, Answer, Goto, rows,
           history, Base, TypeOK
      <3> QED
        BY <1>3, <2>1, <3>1, <3>2, <3>3, OperationsLoad DEF OnUsers
    <2> QED
      BY <2>2, FewerKeys DEF At, Active
  <1>4. ASSUME NEW r \in Requests, CountKeys(r)
        PROVE  Room'
    <2>1. /\ Active' = Active /\ Cardinality(Active) < MaxKeys
          /\ \A q \in Requests \ {r} : request'[q] = request[q]
          /\ crowded' <=> crowded \/ Doing("key") # {}
      BY <1>4 DEF CountKeys, RoomForKey, Goto, rows, Active, Base, TypeOK
    <2>2. CASE \E q \in Requests : At(q, "insert")
      <3>1. Doing("key") # {}
        BY <2>2, Shapes DEF Doing, Base
      <3> QED
        BY <2>1, <3>1 DEF Room
    <2>3. CASE \A q \in Requests : ~At(q, "insert")
      BY <2>1, <2>3, KeysFinite, AccessAssumption DEF Room, At
    <2> QED
      BY <2>2, <2>3
  <1>5. ASSUME NEW r \in Requests, NEW k \in Keys, InsertKey(r, k)
        PROVE  Room'
    <2>1. /\ k \notin Active /\ Active' = Active \cup {k}
          /\ At(r, "insert") /\ ~At(r, "insert")'
          /\ \A q \in Requests \ {r} : request'[q] = request[q]
          /\ crowded' = crowded
      BY <1>5 DEF InsertKey, Answer, Goto, history, Active, At, Base, TypeOK
    <2>2. Cardinality(Active') = Cardinality(Active) + 1
      BY <2>1, KeysFinite, FS_AddElement
    <2> QED
      BY <2>1, <2>2, KeysFinite, AccessAssumption DEF Room, At
  <1>6. ASSUME NEW r \in Requests, OnGroupsAndKeys(r),
               \A k \in Keys : ~InsertKey(r, k), ~CountKeys(r)
        PROVE  Room'
    <2>1. /\ Active' \subseteq Active /\ crowded' = crowded
          /\ request'[r].pc # "insert"
          /\ \A q \in Requests \ {r} : request'[q] = request[q]
      BY <1>6 DEF OnGroupsAndKeys, CreateGroup, UpdateGroup, LoadGroup, Nullify,
         DeleteGroup, RevokeKey, FindInviteGroup, CreateInvite, Answer, Goto, rows, history,
         Active, Base, TypeOK
    <2> QED
      BY <2>1, FewerKeys DEF At
  <1> QED
    BY <1>1, <1>2, <1>3, <1>4, <1>5, <1>6 DEF Next

\* A company never has more than MaxKeys active keys, for any number, unless
\* two requests counted them at once.
THEOREM TheKeysAreBounded == Spec => []KeysBounded
  <1>1. Init => Room
    <2> SUFFICES ASSUME Init PROVE Room
      OBVIOUS
    <2>1. Active = {} /\ Cardinality(Active) = 0
      BY FS_EmptySet DEF Init, Active
    <2> QED
      BY <2>1, AccessAssumption DEF Init, Room, At
  <1>2. Room => KeysBounded
    BY DEF Room, KeysBounded
  <1> QED
    BY <1>1, <1>2, RoomStep, TypeCorrect, PTL DEF Spec

-----------------------------------------------------------------------------
(* Permission groups.                                                       *)

\* The deletion of a group takes out all its members but the late ones.
MembersAreHit ==
    \A q \in Requests : At(q, "bury") =>
        \A u \in Users : LiveUser(u) /\ user[u].group = request[q].group =>
            u \in request[q].hit \/ <<u, request[q].group>> \in late

Membership == MembersAreHit /\ GroupsInUse

\* A step that puts nobody into a group and takes no group away.
Calm ==
    /\ late' = late
    /\ \A g \in Groups : LiveGroup(g) => LiveGroup(g)'
    /\ \A u \in Users : LiveUser(u)' =>
        \/ LiveUser(u) /\ user'[u].group = user[u].group
        \/ user'[u].group = None
    /\ \A r \in Requests : At(r, "bury")' => At(r, "bury") /\ request'[r] = request[r]

\* The groups that rows and requests name.
LEMMA Named ==
    ASSUME TypeOK
    PROVE  /\ None \notin Groups
           /\ \A u \in Users : LiveUser(u) => user[u].group \in Groups \cup {None}
           /\ \A r \in Requests : At(r, "bury") => request[r].group \in Groups
  BY Shapes, AccessAssumption DEF LiveUser, UserRows, OnGroupRows, At, OnGroup

LEMMA CalmKeeps ==
    ASSUME Base, Membership, Calm
    PROVE  Membership'
  <1>1. MembersAreHit'
    <2> SUFFICES ASSUME NEW q \in Requests, At(q, "bury")', NEW u \in Users, LiveUser(u)',
                        user'[u].group = request'[q].group
                 PROVE  u \in request'[q].hit \/ <<u, request'[q].group>> \in late
      BY DEF MembersAreHit, Calm
    <2>1. /\ request'[q] = request[q] /\ At(q, "bury")
          /\ request[q].group \in Groups
      BY Named DEF Calm, Base
    <2>2. LiveUser(u) /\ user[u].group = request[q].group
      BY <2>1, Named DEF Calm, Base
    <2> QED
      BY <2>1, <2>2 DEF Membership, MembersAreHit
  <1>2. GroupsInUse'
    <2> SUFFICES ASSUME NEW u \in Users, LiveUser(u)', user'[u].group # None
                 PROVE  LiveGroup(user[u].group)' \/ <<u, user'[u].group>> \in late
      BY DEF GroupsInUse, Calm
    <2>1. LiveUser(u) /\ user'[u].group = user[u].group /\ user[u].group \in Groups
      BY Named DEF Calm, Base
    <2> QED
      BY <2>1 DEF Membership, GroupsInUse, Calm, LiveGroup
  <1> QED
    BY <1>1, <1>2 DEF Membership

LEMMA CalmSurroundings ==
    ASSUME Base, Surroundings, ~RemoveCompany, \A u \in Users : ~Register(u)
    PROVE  Calm
  <1>1. UNCHANGED <<group, request, late>>
    BY DEF Surroundings, CreateCompany, CreateShadow, Impersonate, SetCompany,
       SetContract, Withdraw, LogIn, RefreshToken, Expire, rows, history
  <1>2. \A u \in Users : user'[u] \in {user[u], Member}
    BY DEF Surroundings, CreateCompany, CreateShadow, Impersonate, SetCompany,
       SetContract, Withdraw, LogIn, RefreshToken, Expire, rows, Base, TypeOK
  <1>3. Member.group = None
    BY DEF Member
  <1> QED
    BY <1>1, <1>2, <1>3 DEF Calm, LiveGroup, LiveUser, At

\* Nobody and nothing is left of a company that is removed.
LEMMA RemovalKeeps ==
    ASSUME Base, RemoveCompany
    PROVE  Membership'
  <1>1. \A r \in Requests : ~At(r, "bury")'
    BY DEF RemoveCompany, InFlight, At
  <1>2. \A u \in Users : ~LiveUser(u)'
    BY Absent DEF RemoveCompany, LiveUser
  <1> QED
    BY <1>1, <1>2 DEF Membership, MembersAreHit, GroupsInUse

\* Who comes into a group whose members were taken out is late.
LEMMA LateOrLive ==
    ASSUME Base, NEW g \in Groups, ~Emptied(g)
    PROVE  /\ LiveGroup(g)
           /\ \A q \in Requests : At(q, "bury") => request[q].group # g
  BY Named, Shapes DEF Emptied, Doing, Base, At, OnGroup

LEMMA RegisterKeeps ==
    ASSUME Base, Membership, NEW u \in Users, Register(u)
    PROVE  Membership'
  <1>1. PICK g \in invited \cup {None} :
            /\ user' = [user EXCEPT ![u] = [Member EXCEPT !.group = g]]
            /\ late' = IF Emptied(g) THEN late \cup {<<u, g>>} ELSE late
    BY DEF Register
  <1>2. UNCHANGED <<group, request>> /\ g \in Groups \cup {None}
    BY DEF Register, Base, TypeOK
  <1>3. [Member EXCEPT !.group = g].group = g
    BY DEF Member
  <1>4. \A v \in Users : LiveUser(v)' =>
            \/ v # u /\ LiveUser(v) /\ user'[v].group = user[v].group
            \/ v = u /\ user'[v].group = g
    BY <1>1, <1>3 DEF LiveUser, Base, TypeOK
  <1>5. late \subseteq late' /\ (Emptied(g) => <<u, g>> \in late')
    BY <1>1
  <1>6. MembersAreHit'
    <2> SUFFICES ASSUME NEW q \in Requests, At(q, "bury")', NEW v \in Users, LiveUser(v)',
                        user'[v].group = request'[q].group
                 PROVE  v \in request'[q].hit \/ <<v, request'[q].group>> \in late'
      BY DEF MembersAreHit
    <2>1. /\ request'[q] = request[q] /\ At(q, "bury")
          /\ request[q].group \in Groups /\ None \notin Groups
      BY <1>2, Named DEF At, Base
    <2>2. CASE LiveUser(v) /\ user'[v].group = user[v].group
      BY <1>5, <2>1, <2>2 DEF Membership, MembersAreHit
    <2>3. CASE v = u /\ user'[v].group = g
      BY <1>2, <1>5, <2>1, <2>3, LateOrLive
    <2> QED
      BY <1>4, <2>2, <2>3
  <1>7. GroupsInUse'
    <2> SUFFICES ASSUME NEW v \in Users, LiveUser(v)', user'[v].group # None
                 PROVE  LiveGroup(user[v].group)' \/ <<v, user'[v].group>> \in late'
      BY DEF GroupsInUse
    <2>1. CASE LiveUser(v) /\ user'[v].group = user[v].group
      BY <1>2, <1>5, <2>1 DEF Membership, GroupsInUse, LiveGroup
    <2>2. CASE v = u /\ user'[v].group = g
      BY <1>2, <1>5, <2>2, LateOrLive DEF LiveGroup
    <2> QED
      BY <1>4, <2>1, <2>2
  <1> QED
    BY <1>6, <1>7 DEF Membership

\* The steps of a request that touch neither users nor the groups they are in.
LEMMA CalmRequests ==
    ASSUME Base, NEW r \in Requests,
           \/ \E t \in token : SendRequest(r, t)
           \/ ReadGroup(r) \/ CheckContract(r) \/ BreakOff(r) \/ FindGroup(r)
           \/ \E u \in Users : Loads(r, u)
           \/ \E g \in Groups, grants \in BOOLEAN :
                CreateGroup(r, g, grants) \/ UpdateGroup(r, g, grants)
           \/ \E g \in Groups : LoadGroup(r, g) \/ FindInviteGroup(r, g)
           \/ CreateInvite(r) \/ CountKeys(r)
           \/ \E k \in Keys : InsertKey(r, k) \/ RevokeKey(r, k)
    PROVE  Calm
  <1>1. UNCHANGED <<user, late>>
    BY DEF SendRequest, ReadGroup, CheckContract, BreakOff, CreateGroup, UpdateGroup,
       CountKeys, InsertKey, RevokeKey, FindGroup, Loads, Load, LoadGroup,
       FindInviteGroup, CreateInvite, rows, history
  <1>2. /\ request'[r].pc # "bury"
        /\ \A q \in Requests \ {r} : request'[q] = request[q]
    <2>1. CASE FindGroup(r)
      <3>1. request[r] \in OnUserRows
        BY <2>1, Shapes DEF FindGroup, At, OnUsersRow, Base
      <3> QED
        BY <2>1, <3>1 DEF FindGroup, Answer, Goto, OnUserRows, Base, TypeOK
    <2>2. ASSUME NEW u \in Users, Loads(r, u)
          PROVE  /\ request'[r].pc # "bury"
                 /\ \A q \in Requests \ {r} : request'[q] = request[q]
      BY <2>2 DEF Loads, Load, Goto, Base, TypeOK
    <2> QED
      BY <2>1, <2>2 DEF SendRequest, ReadGroup, CheckContract, BreakOff, CreateGroup,
         UpdateGroup, CountKeys, InsertKey, RevokeKey, LoadGroup, FindInviteGroup,
         CreateInvite, Answer, Goto, Base, TypeOK
  <1>3. ASSUME NEW g \in Groups, NEW grants \in BOOLEAN, UpdateGroup(r, g, grants)
        PROVE  \A h \in Groups : LiveGroup(h) => LiveGroup(h)'
    <2>1. /\ group[g] \in GroupRows /\ ~group[g].deleted
          /\ group' = [group EXCEPT ![g] = [group[g] EXCEPT !.grants = grants]]
      BY <1>3 DEF UpdateGroup, LiveGroup, Base, TypeOK
    <2>2. /\ [group[g] EXCEPT !.grants = grants] \in GroupRows
          /\ ~[group[g] EXCEPT !.grants = grants].deleted
      BY <2>1 DEF GroupRows
    <2> QED
      BY <2>1, <2>2 DEF LiveGroup, Base, TypeOK
  <1>4. ASSUME NEW g \in Groups, NEW grants \in BOOLEAN, CreateGroup(r, g, grants)
        PROVE  \A h \in Groups : LiveGroup(h) => LiveGroup(h)'
    BY <1>4, Absent DEF CreateGroup, LiveGroup, Base, TypeOK
  <1>5. \A g \in Groups : LiveGroup(g) => LiveGroup(g)'
    <2>1. CASE group' = group
      BY <2>1 DEF LiveGroup
    <2> QED
      BY <1>3, <1>4, <2>1 DEF SendRequest, ReadGroup, CheckContract, BreakOff, CountKeys,
         InsertKey, RevokeKey, FindGroup, Loads, Load, LoadGroup, FindInviteGroup,
         CreateInvite, rows
  <1> QED
    BY <1>1, <1>2, <1>5 DEF Calm, LiveUser, At

\* A save moves nobody but its user, and him only into the group it assigned.
LEMMA SaveMoves ==
    ASSUME Base, EffectsTold, Membership, NEW r \in Requests, Save(r)
    PROVE  Membership'
  <1> DEFINE u == request[r].target
             seen == request[r].seen
             set == request[r].set
  <1>1. /\ At(r, "save") /\ OnUsersRow(r)
        /\ u \in Users /\ seen \in UserRows /\ set \in UserRows
        /\ user[u] \in UserRows \cup {Gone}
        /\ group' = group
    BY SaveEffect DEF Save, At, OnUsersRow, OnUserRows
  <1>2. /\ ~At(r, "bury")'
        /\ \A q \in Requests \ {r} : request'[q] = request[q]
        /\ \A v \in Users \ {u} : user'[v] = user[v]
        /\ user'[u] = IF user[u] = Gone \/ request[r].hard THEN Gone
                      ELSE Saved(user[u], seen, set)
    BY <1>1, SaveEffect DEF Base, TypeOK, At
  <1>3. ~seen.deleted
    BY <1>1 DEF EffectsTold
  <1>4. user'[u] \in UserRows /\ ~user'[u].deleted =>
            \/ LiveUser(u) /\ user'[u].group = user[u].group
            \/ Moves(r) /\ user'[u].group = set.group
            \/ user'[u].group = None
    <2> SUFFICES ASSUME user'[u] \in UserRows, ~user'[u].deleted
                 PROVE  \/ user[u] \in UserRows /\ ~user[u].deleted
                              /\ user'[u].group = user[u].group
                        \/ set.group \notin {None, seen.group} /\ user'[u].group = set.group
                        \/ user'[u].group = None
      BY DEF LiveUser, Moves
    <2>1. user'[u] # Gone
      BY Absent
    <2>2. user[u] \in UserRows
      BY <1>1, <1>2, <2>1
    <2>3. user'[u] = Saved(user[u], seen, set)
      BY <1>2, <2>1
    <2>4. set.deleted \in BOOLEAN /\ seen.deleted \in BOOLEAN
      BY <1>1 DEF UserRows
    <2> HIDE DEF u, seen, set
    <2> QED
      BY <1>1, <1>3, <2>2, <2>3, <2>4, SavedColumns
  <1>5. \A v \in Users : LiveUser(v)' =>
            \/ LiveUser(v) /\ user'[v].group = user[v].group
            \/ v = u /\ Moves(r) /\ user'[v].group = set.group
            \/ user'[v].group = None
    BY <1>2, <1>4 DEF LiveUser
  <1>6. /\ late \subseteq late'
        /\ Moves(r) /\ Emptied(set.group) => <<u, set.group>> \in late'
        /\ Moves(r) => set.group \in Groups
    BY <1>1 DEF Save, Moves, UserRows
  <1>7. MembersAreHit'
    <2> SUFFICES ASSUME NEW q \in Requests, At(q, "bury")', NEW v \in Users, LiveUser(v)',
                        user'[v].group = request'[q].group
                 PROVE  v \in request'[q].hit \/ <<v, request'[q].group>> \in late'
      BY DEF MembersAreHit
    <2>1. q # r /\ request'[q] = request[q] /\ At(q, "bury")
      BY <1>2 DEF At
    <2>2. request[q].group # None
      BY <2>1, Named DEF Base
    <2>3. CASE LiveUser(v) /\ user'[v].group = user[v].group
      BY <1>6, <2>1, <2>3 DEF Membership, MembersAreHit
    <2>4. CASE v = u /\ Moves(r) /\ user'[v].group = set.group
      BY <1>6, <2>1, <2>4, LateOrLive
    <2> QED
      BY <1>5, <2>1, <2>2, <2>3, <2>4
  <1>8. GroupsInUse'
    <2> SUFFICES ASSUME NEW v \in Users, LiveUser(v)', user'[v].group # None
                 PROVE  LiveGroup(user[v].group)' \/ <<v, user'[v].group>> \in late'
      BY DEF GroupsInUse
    <2>1. CASE LiveUser(v) /\ user'[v].group = user[v].group
      BY <1>1, <1>6, <2>1 DEF Membership, GroupsInUse, LiveGroup
    <2>2. CASE v = u /\ Moves(r) /\ user'[v].group = set.group
      BY <1>1, <1>6, <2>2, LateOrLive DEF LiveGroup
    <2> QED
      BY <1>5, <2>1, <2>2
  <1> QED
    BY <1>7, <1>8 DEF Membership

LEMMA NullifyHits ==
    ASSUME Base, Membership, NEW r \in Requests, Nullify(r)
    PROVE  Membership'
  <1>1. /\ UNCHANGED <<user, group, late>>
        /\ request'[r].pc = "bury" /\ request'[r].group = request[r].group
        /\ request'[r].hit = Members(request[r].group)
        /\ \A q \in Requests \ {r} : request'[q] = request[q]
    BY DEF Nullify, Goto, rows, history, Base, TypeOK
  <1>2. MembersAreHit'
    BY <1>1 DEF Membership, MembersAreHit, Members, At, LiveUser
  <1>3. GroupsInUse'
    BY <1>1 DEF Membership, GroupsInUse, LiveUser, LiveGroup
  <1> QED
    BY <1>2, <1>3 DEF Membership

LEMMA DeletionKeeps ==
    ASSUME Base, Membership, NEW r \in Requests, DeleteGroup(r)
    PROVE  Membership'
  <1> DEFINE g == request[r].group
             hit == request[r].hit
  <1>1. At(r, "bury") /\ OnGroup(r) /\ g \in Groups
    BY Shapes DEF DeleteGroup, At, OnGroup, OnGroupRows, Base
  <1>2. /\ late' = late \ (hit \X {g})
        /\ ~At(r, "bury")'
        /\ \A q \in Requests \ {r} : request'[q] = request[q]
        /\ \A h \in Groups \ {g} : group'[h] = group[h]
    BY DEF DeleteGroup, Answer, Goto, At, Base, TypeOK
  <1>3. \A v \in Users : LiveUser(v)' =>
            \/ LiveUser(v) /\ v \notin hit /\ user'[v].group = user[v].group
            \/ user'[v].group = None
    <2> SUFFICES ASSUME NEW v \in Users, LiveUser(v)'
                 PROVE  \/ LiveUser(v) /\ v \notin hit /\ user'[v].group = user[v].group
                        \/ user'[v].group = None
      OBVIOUS
    <2>1. CASE v \in hit
      <3>1. user[v] \in UserRows
        BY <1>1, <2>1 DEF Base, RowsExist, LiveUser
      <3>2. [user[v] EXCEPT !.group = None].group = None
        BY <3>1 DEF UserRows
      <3> QED
        BY <2>1, <3>2 DEF DeleteGroup
    <2>2. CASE v \notin hit
      BY <2>2 DEF DeleteGroup, LiveUser
    <2> QED
      BY <2>1, <2>2
  <1>4. \A v, h : v \notin hit /\ <<v, h>> \in late => <<v, h>> \in late'
    BY <1>2
  <1>5. MembersAreHit'
    <2> SUFFICES ASSUME NEW q \in Requests, At(q, "bury")', NEW v \in Users, LiveUser(v)',
                        user'[v].group = request'[q].group
                 PROVE  v \in request'[q].hit \/ <<v, request'[q].group>> \in late'
      BY DEF MembersAreHit
    <2>1. /\ request'[q] = request[q] /\ At(q, "bury")
          /\ request[q].group # None
      BY <1>2, Named DEF At, Base
    <2> QED
      BY <1>3, <1>4, <2>1 DEF Membership, MembersAreHit
  <1>6. GroupsInUse'
    <2> SUFFICES ASSUME NEW v \in Users, LiveUser(v)', user'[v].group # None
                 PROVE  LiveGroup(user[v].group)' \/ <<v, user'[v].group>> \in late'
      BY DEF GroupsInUse
    <2>1. /\ LiveUser(v) /\ v \notin hit /\ user'[v].group = user[v].group
          /\ user[v].group \in Groups
      BY <1>3, Named DEF Base
    <2>2. CASE user[v].group = g
      BY <1>1, <1>4, <2>1, <2>2 DEF Membership, MembersAreHit
    <2>3. CASE user[v].group # g
      BY <1>2, <1>4, <2>1, <2>3 DEF Membership, GroupsInUse, LiveGroup
    <2> QED
      BY <2>2, <2>3
  <1> QED
    BY <1>5, <1>6 DEF Membership

LEMMA MembershipStep ==
    ASSUME Base, EffectsTold, Membership, [Next]_vars
    PROVE  Membership'
  <1>1. CASE UNCHANGED vars
    <2>1. Calm
      BY <1>1 DEF vars, rows, history, Calm, LiveGroup, LiveUser, At
    <2> QED
      BY <2>1, CalmKeeps
  <1>2. CASE Surroundings
    BY <1>2, CalmSurroundings, CalmKeeps, RemovalKeeps, RegisterKeeps
  <1>3. ASSUME NEW r \in Requests, OnUsers(r) \/ BreakOff(r)
        PROVE  Membership'
    BY <1>3, OperationsLoad, SaveMoves, CalmRequests, CalmKeeps DEF OnUsers
  <1>4. ASSUME NEW r \in Requests, OnGroupsAndKeys(r)
        PROVE  Membership'
    BY <1>4, NullifyHits, DeletionKeeps, CalmRequests, CalmKeeps DEF OnGroupsAndKeys
  <1> QED
    BY <1>1, <1>2, <1>3, <1>4 DEF Next

\* Whoever is in a group when its members are taken out is out of it once the
\* deletion commits, and no save gives a deleted group to anyone but who was
\* late: for any number of requests, users and groups.
THEOREM MembersLeaveGroups == Spec => []GroupsInUse
  <1>1. Init => Membership
    <2> SUFFICES ASSUME Init PROVE Membership
      OBVIOUS
    <2>1. \A r \in Requests : request[r].pc = "unsent"
      BY DEF Init
    <2>2. \A u \in Users : ~LiveUser(u)
      BY Absent DEF Init, LiveUser
    <2> QED
      BY <2>1, <2>2 DEF Membership, MembersAreHit, GroupsInUse, At
  <1>2. Membership => GroupsInUse
    BY DEF Membership
  <1>3. Init => Exclusions
    BY DEF Init, Exclusions, EffectsTold, ExclusionsAlone, ShutExist, NobodyLetsIn,
       ExcludedStaysOut, OnUsersRow, Lets
  <1>4. Exclusions => EffectsTold
    BY DEF Exclusions
  <1> QED
    BY <1>1, <1>2, <1>3, <1>4, MembershipStep, ExclusionsStep, TypeCorrect, PTL DEF Spec

=============================================================================
