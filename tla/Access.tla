------------------------------- MODULE Access -------------------------------
(***************************************************************************)
(* The users, permission groups and API keys of a company and the gate     *)
(* that every request of a user passes (db/mixins/auth_manager.py,         *)
(* company/users.py, company/permission_groups.py, company/api_keys.py),   *)
(* with the owner's operations on the company (owner/companies.py). A      *)
(* request reads the user, his group and the contract, then loads the row  *)
(* it changes and commits the columns that it changed; other requests run  *)
(* between these statements. Permissions are abstracted to one, which the  *)
(* operations below need, and names of groups and users are left out.      *)
(***************************************************************************)
EXTENDS Naturals, FiniteSets

CONSTANTS
    Users,          \* ids of users
    Shadow,         \* the user in whose name the owner works in the company
    Groups, Keys,   \* ids of permission groups and API keys
    Requests,       \* requests of users, each sent at most once
    Changes,        \* what updates of users may set; None leaves a column
    MaxKeys,        \* active API keys of a company (10)
    None,           \* no row yet, no group, nothing to set
    Gone            \* the row was deleted for good

UserRows == [active : BOOLEAN, suspended : BOOLEAN, deleted : BOOLEAN,
             grants : BOOLEAN, group : Groups \cup {None}]

GroupRows == [grants : BOOLEAN, deleted : BOOLEAN]

ASSUME AccessAssumption ==
    /\ Shadow \in Users
    /\ IsFiniteSet(Keys) /\ MaxKeys \in Nat
    /\ Changes \subseteq [active : BOOLEAN \cup {None},
                          suspended : BOOLEAN \cup {None},
                          grants : BOOLEAN \cup {None},
                          group : Groups \cup {None}]
    /\ None # Gone
    /\ None \notin Users \cup Groups \cup Keys \cup BOOLEAN
    /\ {None, Gone} \cap (UserRows \cup GroupRows) = {}

VARIABLES
    company,    \* "absent", "active", "inactive", "deleted" or "gone"
    contract,   \* what the company's contracts say: "none", "open", "lapsed"
    user,       \* user[u]: the row, None or Gone
    group,      \* group[g]: the row, None or Gone
    key,        \* key[k]: "none", "active" or "revoked"
    invited,    \* the groups that open invites give to who registers
    token,      \* the tokens out there: pairs of user and kind
    request,    \* request[r]: how far it is
    shut,       \* history: users excluded and not activated since
    mixed,      \* history: users whose activation met an exclusion
    late,       \* history: who was put into a group, as pairs, when its
                \* members had been taken out of it already
    crowded     \* history: two keys were created at once

rows == <<user, group, key, invited>>
history == <<shut, mixed, late, crowded>>
vars == <<company, contract, rows, token, request, history>>

Member == [active |-> TRUE, suspended |-> FALSE, deleted |-> FALSE,
           grants |-> TRUE, group |-> None]

Init ==
    /\ company = "absent"
    /\ contract = "none"
    /\ user = [u \in Users |-> None]
    /\ group = [g \in Groups |-> None]
    /\ key = [k \in Keys |-> "none"]
    /\ invited = {}
    /\ token = {}
    /\ request = [r \in Requests |-> [pc |-> "unsent"]]
    /\ shut = {}
    /\ mixed = {}
    /\ late = {}
    /\ crowded = FALSE

-----------------------------------------------------------------------------

LiveUser(u) == user[u] \in UserRows /\ ~user[u].deleted

LiveGroup(g) == group[g] \in GroupRows /\ ~group[g].deleted

Admissible(u) == LiveUser(u) /\ user[u].active /\ ~user[u].suspended

At(r, pc) == request[r].pc = pc

InFlight(r) == request[r].pc \notin {"unsent", "answered"}

Goto(r, state) == request' = [request EXCEPT ![r] = state]

Answer(r) == Goto(r, [pc |-> "answered"])

Doing(op) == {r \in Requests : InFlight(r) /\ request[r].op = op}

-----------------------------------------------------------------------------
(* The owner and the company.                                               *)

\* The company and its shadow user are two transactions of one request,
\* which may die in between.
CreateCompany ==
    /\ company = "absent"
    /\ company' = "active"
    /\ UNCHANGED <<contract, rows, token, request, history>>

\* At the end of create_company, and in impersonate_company, which issues a
\* token that the contract does not stop. Two such insertions at once meet in
\* the unique index of company and email.
CreateShadow ==
    /\ company = "active"
    /\ user[Shadow] = None
    /\ user' = [user EXCEPT ![Shadow] = Member]
    /\ UNCHANGED <<company, contract, group, key, invited, token, request, history>>

Impersonate ==
    /\ company = "active"
    /\ LiveUser(Shadow)
    /\ token' = token \cup {<<Shadow, "impersonation">>}
    /\ UNCHANGED <<company, contract, rows, request, history>>

\* update_company, activate_company, deactivate_company, delete_company
SetCompany(status) ==
    /\ company \in {"active", "inactive"}
    /\ company' = status
    /\ UNCHANGED <<contract, rows, token, request, history>>

\* The users, groups, keys and invites go with the company. No request is at work on
\* them: what happens to one that is, is not modelled.
RemoveCompany ==
    /\ company \in {"active", "inactive"}
    /\ \A r \in Requests : ~InFlight(r)
    /\ company' = "gone"
    /\ user' = [u \in Users |-> Gone]
    /\ group' = [g \in Groups |-> Gone]
    /\ key' = [k \in Keys |-> "none"]
    /\ invited' = {}
    /\ UNCHANGED <<contract, token, request, history>>

\* A contract is concluded, lapses or is renewed (module Contracts).
SetContract(status) ==
    /\ contract' = status
    /\ UNCHANGED <<company, rows, token, request, history>>

-----------------------------------------------------------------------------
(* Tokens. They are signed and kept nowhere, so nothing takes them back.    *)

\* Members of the group were taken out of it, or are about to be.
Emptied(g) ==
    \/ g # None /\ ~LiveGroup(g)
    \/ \E r \in Doing("ungroup") : At(r, "bury") /\ request[r].group = g

\* Registration makes the user and logs him in (module Registration). He gets
\* the group that his invite was created with, if any, and nothing looks
\* whether the group is still there, or the company active.
Register(u) ==
    /\ company \notin {"absent", "gone"}
    /\ u # Shadow
    /\ user[u] = None
    /\ \E g \in invited \cup {None} :
        /\ user' = [user EXCEPT ![u] = [Member EXCEPT !.group = g]]
        /\ late' = IF Emptied(g) THEN late \cup {<<u, g>>} ELSE late
    /\ token' = token \cup {<<u, "access">>, <<u, "refresh">>}
    /\ UNCHANGED <<company, contract, group, key, invited, request, shut,
                   mixed, crowded>>

\* The last invite that gives the group g is used up, revoked or expires.
Withdraw(g) ==
    /\ g \in invited
    /\ invited' = invited \ {g}
    /\ UNCHANGED <<company, contract, user, group, key, token, request, history>>

\* The mini app, which does not look at the company; the login by code
\* (module Login) gives the same tokens.
LogIn(u) ==
    /\ u # Shadow
    /\ Admissible(u)
    /\ token' = token \cup {<<u, "access">>, <<u, "refresh">>}
    /\ UNCHANGED <<company, contract, rows, request, history>>

RefreshToken(u) ==
    /\ <<u, "refresh">> \in token
    /\ Admissible(u)
    /\ token' = token \cup {<<u, "access">>}
    /\ UNCHANGED <<company, contract, rows, request, history>>

Expire(t) ==
    /\ token' = token \ {t}
    /\ UNCHANGED <<company, contract, rows, request, history>>

-----------------------------------------------------------------------------
(* The gate: the user's row, his group, the contract, the permission.       *)

SendRequest(r, t) ==
    /\ At(r, "unsent")
    /\ t[2] # "refresh"
    /\ IF Admissible(t[1])
         THEN Goto(r, [pc |-> "group", op |-> "gate", who |-> t[1],
                       exempt |-> t[2] = "impersonation", seen |-> user[t[1]]])
         ELSE Answer(r)
    /\ UNCHANGED <<company, contract, rows, token, history>>

\* A permission is the user's own or his group's; a soft-deleted group still
\* gives its permissions.
Permitted(seen) ==
    \/ seen.grants
    \/ seen.group # None /\ group[seen.group] \in GroupRows
         /\ group[seen.group].grants

\* The group is read by the id that the user's row had.
ReadGroup(r) ==
    /\ At(r, "group")
    /\ Goto(r, [pc |-> "contract", op |-> "gate", who |-> request[r].who,
                exempt |-> request[r].exempt,
                may |-> Permitted(request[r].seen)])
    /\ UNCHANGED <<company, contract, rows, token, history>>

CheckContract(r) ==
    /\ At(r, "contract")
    /\ IF (contract = "lapsed" /\ ~request[r].exempt) \/ ~request[r].may
         THEN Answer(r)
         ELSE Goto(r, [pc |-> "admitted", op |-> "gate", who |-> request[r].who])
    /\ UNCHANGED <<company, contract, rows, token, history>>

-----------------------------------------------------------------------------
(* Operations on users: load, assign, commit what changed.                  *)

Column(new, old) == IF new = None THEN old ELSE new

\* The row that an update makes of the row it loaded.
Updated(old, change) ==
    [old EXCEPT !.active = Column(change.active, @),
                !.suspended = Column(change.suspended, @),
                !.grants = Column(change.grants, @),
                !.group = Column(change.group, @)]

\* Requests on the user u that let him in, or that keep him out.
OnUser(u, effect) == {r \in Doing("user") : /\ request[r].target = u
                                            /\ effect \in request[r].effects}

Effects(change, delete) ==
    {e \in {"in", "out"} :
        \/ e = "in" /\ (change.active = TRUE \/ change.suspended = FALSE)
        \/ e = "out" /\ (change.active = FALSE \/ change.suspended = TRUE
                           \/ delete # "no")}

\* The row of u is loaded and assigned to, once it was found by id.
Load(r, u, change, delete) ==
    LET effects == Effects(change, delete)
        new == [Updated(user[u], change) EXCEPT !.deleted = delete = "soft"]
    IN
    /\ At(r, "admitted")
    /\ LiveUser(u)
    /\ Goto(r, [pc |-> IF change.group = None THEN "save" ELSE "find",
                op |-> "user", target |-> u, seen |-> user[u], set |-> new,
                hard |-> delete = "hard", effects |-> effects])
    /\ shut' = IF "in" \in effects THEN shut \ {u} ELSE shut
    /\ mixed' = IF \/ "in" \in effects /\ OnUser(u, "out") # {}
                   \/ "out" \in effects /\ OnUser(u, "in") # {}
                  THEN mixed \cup {u} ELSE mixed
    /\ UNCHANGED <<company, contract, rows, token, late, crowded>>

NoChange == [active |-> None, suspended |-> None, grants |-> None,
             group |-> None]

UpdateUser(r, u) == \E change \in Changes : Load(r, u, change, "no")

ActivateUser(r, u) ==
    Load(r, u, [NoChange EXCEPT !.active = TRUE, !.suspended = FALSE], "no")

DeactivateUser(r, u) ==
    /\ At(r, "admitted") /\ u # request[r].who
    /\ Load(r, u, [NoChange EXCEPT !.active = FALSE, !.suspended = TRUE], "no")

DeleteUser(r, u) ==
    /\ At(r, "admitted") /\ u \notin {request[r].who, Shadow}
    /\ \E delete \in {"soft", "hard"} : Load(r, u, NoChange, delete)

\* The group that an update assigns must be there when it is looked up.
FindGroup(r) ==
    /\ At(r, "find")
    /\ IF LiveGroup(request[r].set.group)
         THEN request' = [request EXCEPT ![r].pc = "save"]
         ELSE Answer(r)
    /\ UNCHANGED <<company, contract, rows, token, history>>

\* Mutant: all columns are written.
SavedAll(old, seen, set) == set

\* Columns that have the value that was loaded are not written.
Saved(old, seen, set) ==
    [c \in DOMAIN set |-> IF set[c] = seen[c] THEN old[c] ELSE set[c]]

\* Rows that the deletion of a group has updated are locked until it commits.
RowLocked(u) == \E r \in Doing("ungroup") : u \in request[r].hit

\* The request puts its user into another group.
Moves(r) == request[r].set.group \notin {None, request[r].seen.group}

\* A row that is gone is an error.
Save(r) ==
    LET u == request[r].target IN
    /\ At(r, "save")
    /\ ~RowLocked(u)
    /\ user' = IF user[u] = Gone THEN user
               ELSE [user EXCEPT ![u] =
                       IF request[r].hard THEN Gone
                       ELSE Saved(@, request[r].seen, request[r].set)]
    /\ shut' = IF "out" \in request[r].effects THEN shut \cup {u} ELSE shut
    /\ late' = IF Moves(r) /\ Emptied(request[r].set.group)
                 THEN late \cup {<<u, request[r].set.group>>} ELSE late
    /\ Answer(r)
    /\ UNCHANGED <<company, contract, group, key, invited, token, mixed, crowded>>

-----------------------------------------------------------------------------
(* Operations on groups.                                                    *)

\* create_permission_group; a name that is taken is refused.
CreateGroup(r, g, grants) ==
    /\ At(r, "admitted")
    /\ group[g] = None
    /\ group' = [group EXCEPT ![g] = [grants |-> grants, deleted |-> FALSE]]
    /\ Answer(r)
    /\ UNCHANGED <<company, contract, user, key, invited, token, history>>

\* update_permission_group; its column has no other writer.
UpdateGroup(r, g, grants) ==
    /\ At(r, "admitted")
    /\ LiveGroup(g)
    /\ group' = [group EXCEPT ![g].grants = grants]
    /\ Answer(r)
    /\ UNCHANGED <<company, contract, user, key, invited, token, history>>

LoadGroup(r, g) ==
    /\ At(r, "admitted")
    /\ LiveGroup(g)
    /\ Goto(r, [pc |-> "nullify", op |-> "ungroup", group |-> g, hit |-> {}])
    /\ UNCHANGED <<company, contract, rows, token, history>>

\* Mutant: only active users lose the group.
MembersActive(g) == {u \in Users : Admissible(u) /\ user[u].group = g}

\* The users that lose the group.
Members(g) == {u \in Users : LiveUser(u) /\ user[u].group = g}

\* The users are updated and locked; nobody sees it before the commit.
Nullify(r) ==
    LET g == request[r].group IN
    /\ At(r, "nullify")
    /\ \A u \in Members(g) : ~RowLocked(u)
    /\ Goto(r, [pc |-> "bury", op |-> "ungroup", group |-> g,
                hit |-> Members(g)])
    /\ UNCHANGED <<company, contract, rows, token, history>>

DeleteGroup(r) ==
    LET g == request[r].group IN
    /\ At(r, "bury")
    /\ user' = [u \in Users |-> IF u \in request[r].hit
                                  THEN [user[u] EXCEPT !.group = None]
                                  ELSE user[u]]
    /\ group' = [group EXCEPT ![g].deleted = TRUE]
    /\ late' = late \ (request[r].hit \X {g})
    /\ Answer(r)
    /\ UNCHANGED <<company, contract, key, invited, token, shut, mixed, crowded>>

-----------------------------------------------------------------------------
(* Invites. create_invite_token looks the group up, then for users and      *)
(* invites with the phone (module Registration), and inserts the invite.    *)

FindInviteGroup(r, g) ==
    /\ At(r, "admitted")
    /\ LiveGroup(g)
    /\ Goto(r, [pc |-> "invite", op |-> "invite", group |-> g])
    /\ UNCHANGED <<company, contract, rows, token, history>>

CreateInvite(r) ==
    /\ At(r, "invite")
    /\ invited' = invited \cup {request[r].group}
    /\ Answer(r)
    /\ UNCHANGED <<company, contract, user, group, key, token, history>>

-----------------------------------------------------------------------------
(* API keys.                                                                *)

Active == {k \in Keys : key[k] = "active"}

\* Mutant: one key more than allowed.
RoomForOneMore == Cardinality(Active) <= MaxKeys

RoomForKey == Cardinality(Active) < MaxKeys

CountKeys(r) ==
    /\ At(r, "admitted")
    /\ RoomForKey
    /\ Goto(r, [pc |-> "insert", op |-> "key"])
    /\ crowded' = (crowded \/ Doing("key") # {})
    /\ UNCHANGED <<company, contract, rows, token, shut, mixed, late>>

InsertKey(r, k) ==
    /\ At(r, "insert")
    /\ key[k] = "none"
    /\ key' = [key EXCEPT ![k] = "active"]
    /\ Answer(r)
    /\ UNCHANGED <<company, contract, user, group, invited, token, history>>

RevokeKey(r, k) ==
    /\ At(r, "admitted")
    /\ key[k] # "none"
    /\ key' = [key EXCEPT ![k] = "revoked"]
    /\ Answer(r)
    /\ UNCHANGED <<company, contract, user, group, invited, token, history>>

-----------------------------------------------------------------------------

\* A request fails or its process dies; what it did not commit is rolled back.
BreakOff(r) ==
    /\ InFlight(r)
    /\ Answer(r)
    /\ UNCHANGED <<company, contract, rows, token, history>>

Surroundings ==
    \/ CreateCompany \/ CreateShadow \/ Impersonate \/ RemoveCompany
    \/ \E status \in {"active", "inactive", "deleted"} : SetCompany(status)
    \/ \E status \in {"none", "open", "lapsed"} : SetContract(status)
    \/ \E u \in Users : Register(u) \/ LogIn(u) \/ RefreshToken(u)
    \/ \E t \in token : Expire(t)
    \/ \E g \in Groups : Withdraw(g)

OnUsers(r) ==
    \/ \E t \in token : SendRequest(r, t)
    \/ ReadGroup(r) \/ CheckContract(r)
    \/ \E u \in Users :
         UpdateUser(r, u) \/ ActivateUser(r, u) \/ DeactivateUser(r, u)
           \/ DeleteUser(r, u)
    \/ FindGroup(r) \/ Save(r)

OnGroupsAndKeys(r) ==
    \/ \E g \in Groups, grants \in BOOLEAN :
         CreateGroup(r, g, grants) \/ UpdateGroup(r, g, grants)
    \/ \E g \in Groups : LoadGroup(r, g) \/ FindInviteGroup(r, g)
    \/ Nullify(r) \/ DeleteGroup(r) \/ CreateInvite(r)
    \/ CountKeys(r)
    \/ \E k \in Keys : InsertKey(r, k) \/ RevokeKey(r, k)

Next ==
    \/ Surroundings
    \/ \E r \in Requests : OnUsers(r) \/ OnGroupsAndKeys(r) \/ BreakOff(r)

Spec == Init /\ [][Next]_vars

-----------------------------------------------------------------------------

\* A user who was deactivated or deleted is let in by no token, old, refreshed
\* or new, before a request begins that activates him; updates that loaded
\* his row before do not bring him back. Activations that meet the exclusion
\* are the exception, as both may find nothing to change.
ExcludedStaysOut == \A u \in shut \ mixed : ~Admissible(u)

\* No user has a group that was deleted, and with it its permissions, but who
\* was put into it after its members had been taken out: by an assignment that
\* found the group before, or by an invite. Whoever was in the group by then
\* loses it, and no later save of a row that was loaded before, of whoever and
\* in whatever order, gives it back.
GroupsInUse ==
    \A u \in Users : LiveUser(u) /\ user[u].group # None =>
        LiveGroup(user[u].group) \/ <<u, user[u].group>> \in late

\* The company has at most MaxKeys active API keys, unless two requests
\* counted them at once.
KeysBounded == crowded \/ Cardinality(Active) <= MaxKeys

-----------------------------------------------------------------------------
(* What the repository says and the code does not do.                      *)

\* "Nullifies permission_group_id on affected users before deleting."
\* (api/v1/routers/company/permission_groups.py:197): nobody is left in a
\* deleted group. Not kept: see `late`.
DeletedGroupsAreEmpty ==
    \A u \in Users : LiveUser(u) /\ user[u].group # None =>
        LiveGroup(user[u].group)

=============================================================================
