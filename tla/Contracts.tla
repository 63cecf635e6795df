------------------------------ MODULE Contracts ------------------------------
(***************************************************************************)
(* The contracts of one company. The owner creates, updates, renews and    *)
(* cancels them (owner/contracts.py); every request of the company's users *)
(* asks whether a contract gives access (contract_enforcement.py).         *)
(*                                                                         *)
(* A request reads in one statement and writes in a later one, and other   *)
(* requests run in between. The database isolates at READ COMMITTED, and   *)
(* the object mapper writes only the columns that differ from those it     *)
(* loaded. The owner of every request owns the company.                    *)
(***************************************************************************)
EXTENDS Naturals, FiniteSets

CONSTANTS
    Contracts,   \* ids of contract rows
    Requests,    \* requests, each sent at most once
    SetStatus,   \* the statuses that updates may set
    None         \* the status an update does not set; no contract

Ops == {"create", "update", "renew", "cancel", "login"}

Statuses ==
    {"ACTIVE", "WARNING", "GRACE_PERIOD", "EXPIRED", "SUSPENDED", "CANCELLED"}

AccessStatuses == {"ACTIVE", "WARNING", "GRACE_PERIOD"}

Rows == [status : Statuses, is_active : BOOLEAN]

ASSUME ContractsAssumption ==
    /\ SetStatus \subseteq Statuses \cup {None}
    /\ None \notin Statuses \cup Rows

VARIABLES
    contract,     \* contract[c]: the row, None before it is inserted
    request,      \* request[r]: how far request r is
    overlapped,   \* history: a request was sent before another was answered
    reactivated   \* history: an ended contract got access beside another one

vars == <<contract, request, overlapped, reactivated>>

Unsent == [pc |-> "unsent"]

Answers == {"created", "done", "allowed", "403", "409", "500"}

\* `loaded` is the row the request works on, `set` what it assigns to it.
RequestStates ==
    {Unsent}
        \cup [pc : {"insert", "active"}]
        \cup [pc : {"save"}, op : Ops, id : Contracts, loaded : Rows, set : Rows]
        \cup [pc : {"answered"}, op : Ops, answer : Answers]

TypeOK ==
    /\ contract \in [Contracts -> Rows \cup {None}]
    /\ request \in [Requests -> RequestStates]
    /\ {overlapped, reactivated} \subseteq BOOLEAN

Init ==
    /\ contract = [c \in Contracts |-> None]
    /\ request = [r \in Requests |-> Unsent]
    /\ overlapped = FALSE
    /\ reactivated = FALSE

-----------------------------------------------------------------------------

Existing == {c \in Contracts : contract[c] # None}

\* Mutant: only contracts that are in the grace period give access.
AccessibleStrict == {c \in Existing : contract[c].status = "WARNING"}

\* get_active_contract returns the only one of these, or raises when there
\* is a second.
Accessible == {c \in Existing : contract[c].status \in AccessStatuses}

Several(S) == \E c, d \in S : c # d

InFlight(r) == request[r].pc \notin {"unsent", "answered"}

Send(r) ==
    /\ request[r].pc = "unsent"
    /\ overlapped' = (overlapped \/ \E q \in Requests : InFlight(q))

Goto(r, state) == request' = [request EXCEPT ![r] = state]

Answer(r, o, a) == Goto(r, [pc |-> "answered", op |-> o, answer |-> a])

-----------------------------------------------------------------------------
(* create_contract *)

\* Mutant: only a second contract is in the way, not the first.
LooksFreeOfSeveral == ~Several(Accessible)

LooksFree == Accessible = {}

SendCreate(r) ==
    /\ Send(r)
    /\ IF LooksFree THEN Goto(r, [pc |-> "insert"])
       ELSE Answer(r, "create", IF Several(Accessible) THEN "500" ELSE "409")
    /\ UNCHANGED <<contract, reactivated>>

Insert(r) ==
    /\ request[r].pc = "insert"
    /\ \E c \in Contracts \ Existing :
        contract' = [contract EXCEPT ![c] =
                        [status |-> "ACTIVE", is_active |-> TRUE]]
    /\ Answer(r, "create", "created")
    /\ UNCHANGED <<overlapped, reactivated>>

-----------------------------------------------------------------------------
(* update_contract, renew_contract and cancel_contract load the row, assign *)
(* to it and commit.                                                        *)

\* Contract c, which gives no access, is given access beside another one.
Reactivates(c, assigned) ==
    /\ assigned.status \in AccessStatuses
    /\ c \notin Accessible /\ Accessible # {}

Load(r, o, c, assigned) ==
    /\ Send(r)
    /\ Goto(r, [pc |-> "save", op |-> o, id |-> c,
                loaded |-> contract[c], set |-> assigned])
    /\ reactivated' = (reactivated \/ Reactivates(c, assigned))
    /\ UNCHANGED contract

Assigned(row, s) == IF s = None THEN row ELSE [row EXCEPT !.status = s]

SendUpdate(r) ==
    \E c \in Existing, s \in SetStatus :
        Load(r, "update", c, Assigned(contract[c], s))

SendRenew(r) ==
    \E c \in Existing :
        Load(r, "renew", c, [status |-> "ACTIVE", is_active |-> TRUE])

SendCancel(r) ==
    \E c \in Existing :
        Load(r, "cancel", c, [status |-> "CANCELLED", is_active |-> FALSE])

\* Mutant: the UPDATE statement names every column.
ChangedAll(row, loaded, set) == set

\* The UPDATE statement: the columns that were assigned a new value.
Changed(row, loaded, set) ==
    [f \in DOMAIN row |-> IF set[f] # loaded[f] THEN set[f] ELSE row[f]]

Save(r) ==
    /\ request[r].pc = "save"
    /\ LET q == request[r] IN
        /\ contract' = [contract EXCEPT ![q.id] =
                            Changed(contract[q.id], q.loaded, q.set)]
        /\ Answer(r, q.op, "done")
    /\ UNCHANGED <<overlapped, reactivated>>

-----------------------------------------------------------------------------
(* A request of a company user: check_contract_active *)

SendLogin(r) ==
    /\ Send(r)
    /\ IF Existing = {} THEN Answer(r, "login", "allowed")
       ELSE Goto(r, [pc |-> "active"])
    /\ UNCHANGED <<contract, reactivated>>

ReadActive(r) ==
    /\ request[r].pc = "active"
    /\ Answer(r, "login", IF Accessible = {} THEN "403"
                          ELSE IF Several(Accessible) THEN "500"
                          ELSE "allowed")
    /\ UNCHANGED <<contract, overlapped, reactivated>>

-----------------------------------------------------------------------------

Next ==
    \E r \in Requests :
        \/ SendCreate(r) \/ Insert(r)
        \/ SendUpdate(r) \/ SendRenew(r) \/ SendCancel(r) \/ Save(r)
        \/ SendLogin(r) \/ ReadActive(r)

Spec == Init /\ [][Next]_vars

-----------------------------------------------------------------------------
(* Properties *)

\* As long as requests do not overlap and no ended contract is given access
\* beside another one, a company has at most one contract that gives access
\* (create_contract "ensures no duplicate active contracts"). With two,
\* get_active_contract raises and every user of the company is answered 500.
OneActive == ~overlapped /\ ~reactivated => ~Several(Accessible)

\* The step in which request r commits what it assigned to contract c.
Commits(r, c) ==
    /\ request[r].pc = "save" /\ request[r].id = c
    /\ request'[r].pc = "answered"

\* A cancelled contract is revived by a renewal or by an update that sets
\* its status, never by an update of something else that had loaded the row
\* before it was cancelled.
ChangesStatus(r) ==
    \/ request[r].op = "renew"
    \/ request[r].set.status # request[r].loaded.status

Revived(c) ==
    /\ contract[c] # None /\ contract[c].status = "CANCELLED"
    /\ contract'[c].status # "CANCELLED"

RevivedOnPurpose ==
    \A c \in Contracts :
        Revived(c) => \E r \in Requests : Commits(r, c) /\ ChangesStatus(r)

CancelStands == [][RevivedOnPurpose]_vars

\* Nobody is refused because of a contract (403) unless a contract was ended
\* by the owner: a company that has contracts, none of which gives access,
\* has one that a cancellation or an update of the status took away. The
\* count and the read of check_contract_active are two statements, and a
\* company that gets its first contract between them is not locked out.
RefusedForAReason ==
    (\E r \in Requests : request[r] = [pc |-> "answered", op |-> "login", answer |-> "403"])
        => \E r \in Requests :
              request[r].pc = "answered" /\ request[r].op \in {"cancel", "update"}

-----------------------------------------------------------------------------
(* What the repository says and the code does not do.                      *)

\* "Each company can have one active contract at a time"
\* (db/models/contract.py:22), when requests come one after the other.
OneAtATime == ~overlapped => ~Several(Accessible)

\* "Renew a contract: reset status to ACTIVE and extend end_date"
\* (owner/contracts.py:197).
Renewed ==
    \A r \in Requests, c \in Contracts :
        (Commits(r, c) /\ request[r].op = "renew")
            => contract'[c].status = "ACTIVE"

RenewalsActivate == [][Renewed]_vars

=============================================================================
