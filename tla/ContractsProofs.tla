--------------------------- MODULE ContractsProofs ---------------------------
(***************************************************************************)
(* What is proved of Contracts, for all sets of contracts and requests.    *)
(***************************************************************************)
EXTENDS Contracts, TLAPS

-----------------------------------------------------------------------------
(* Type correctness *)

LEMMA InitTyped == Init => TypeOK
  BY DEF Init, TypeOK, RequestStates, Unsent

\* The saved row and its status.
LEMMA ChangedRow ==
  ASSUME NEW row \in Rows, NEW loaded \in Rows, NEW set \in Rows
  PROVE  /\ Changed(row, loaded, set) \in Rows
         /\ Changed(row, loaded, set).status =
               IF set.status # loaded.status THEN set.status ELSE row.status
  <1>1. DOMAIN row = {"status", "is_active"}
    BY DEF Rows
  <1> DEFINE new == [f \in {"status", "is_active"} |->
                        IF set[f] # loaded[f] THEN set[f] ELSE row[f]]
  <1>2. Changed(row, loaded, set) = new
    BY <1>1 DEF Changed
  <1>3. /\ new.status = IF set.status # loaded.status THEN set.status ELSE row.status
        /\ new.is_active = IF set.is_active # loaded.is_active
                           THEN set.is_active ELSE row.is_active
    OBVIOUS
  <1>4. new = [status |-> new.status, is_active |-> new.is_active]
    OBVIOUS
  <1>5. new.status \in Statuses /\ new.is_active \in BOOLEAN
    BY <1>3 DEF Rows
  <1>6. new \in Rows
    BY <1>4, <1>5 DEF Rows
  <1> QED
    BY <1>2, <1>3, <1>6

LEMMA RequestTyped ==
  ASSUME TypeOK, NEW r \in Requests, NEW state \in RequestStates, Goto(r, state)
  PROVE  request' \in [Requests -> RequestStates]
  BY DEF TypeOK, Goto

LEMMA AnswerTyped ==
  ASSUME TypeOK, NEW r \in Requests, NEW o \in Ops, NEW a \in Answers,
         Answer(r, o, a)
  PROVE  request' \in [Requests -> RequestStates]
  <1>1. [pc |-> "answered", op |-> o, answer |-> a] \in RequestStates
    BY DEF RequestStates
  <1> QED
    BY <1>1, RequestTyped DEF Answer

LEMMA LoadTyped ==
  ASSUME TypeOK, NEW r \in Requests, NEW o \in Ops, NEW c \in Existing,
         NEW assigned \in Rows, Load(r, o, c, assigned)
  PROVE  contract' = contract /\ request' \in [Requests -> RequestStates]
  <1>1. contract[c] \in Rows /\ c \in Contracts
    BY DEF Existing, TypeOK
  <1>2. [pc |-> "save", op |-> o, id |-> c, loaded |-> contract[c],
         set |-> assigned] \in RequestStates
    BY <1>1 DEF RequestStates
  <1>3. request' \in [Requests -> RequestStates]
    BY <1>2, RequestTyped DEF Load
  <1> QED
    BY <1>3 DEF Load

LEMMA SaveTyped ==
  ASSUME TypeOK, NEW r \in Requests, request[r].pc = "save"
  PROVE  /\ request[r].op \in Ops /\ request[r].id \in Contracts
         /\ request[r].loaded \in Rows /\ request[r].set \in Rows
  BY DEF TypeOK, RequestStates, Unsent

\* The rows that a request works on exist.
SavesExist ==
    \A r \in Requests : request[r].pc = "save" => contract[request[r].id] # None

IInv == TypeOK /\ SavesExist

LEMMA InitIInv == Init => IInv
  BY InitTyped DEF Init, IInv, SavesExist, Unsent

\* Rows are never removed.
LEMMA RowsStay ==
  ASSUME TypeOK, SavesExist,
         NEW r \in Requests, Save(r)
  PROVE  /\ contract' \in [Contracts -> Rows \cup {None}]
         /\ \A c \in Existing : contract'[c] # None
  <1> DEFINE q == request[r]
  <1>1. q.id \in Contracts /\ q.loaded \in Rows /\ q.set \in Rows
    BY SaveTyped DEF Save
  <1>2. contract[q.id] \in Rows
    BY <1>1 DEF Save, SavesExist, TypeOK
  <1>3. Changed(contract[q.id], q.loaded, q.set) \in Rows
    BY <1>1, <1>2, ChangedRow
  <1>4. None \notin Rows
    BY ContractsAssumption
  <1>5. PICK new \in Rows : contract' = [contract EXCEPT ![q.id] = new]
    BY <1>3 DEF Save
  <1>6. q.id \in Contracts /\ new # None
    BY <1>1, <1>4
  <1>7. contract' \in [Contracts -> Rows \cup {None}]
    BY <1>5, <1>6 DEF TypeOK
  <1>8. \A c \in Existing : contract'[c] # None
    BY <1>5, <1>6 DEF TypeOK, Existing
  <1> QED
    BY <1>7, <1>8

LEMMA NextIInv == IInv /\ [Next]_vars => IInv'
  <1> SUFFICES ASSUME TypeOK, SavesExist, [Next]_vars PROVE TypeOK' /\ SavesExist'
    BY DEF IInv
  <1>0. {overlapped', reactivated'} \subseteq BOOLEAN
    BY DEF TypeOK, Next, vars, SendCreate, Insert, SendUpdate, SendRenew, SendCancel,
           Load, Save, SendLogin, ReadActive, Send
  <1>1. CASE UNCHANGED vars
    BY <1>1 DEF vars, TypeOK, SavesExist
  <1>2. ASSUME NEW r \in Requests, SendCreate(r) PROVE TypeOK' /\ SavesExist'
    <2>1. [pc |-> "insert"] \in RequestStates /\ [pc |-> "insert"].pc # "save"
      BY DEF RequestStates
    <2>2. contract' = contract
      BY <1>2 DEF SendCreate
    <2>3. CASE LooksFree
      <3>1. Goto(r, [pc |-> "insert"])
        BY <1>2, <2>3 DEF SendCreate
      <3> QED BY <1>0, <2>1, <2>2, <3>1, RequestTyped DEF TypeOK, SavesExist, Goto
    <2>4. CASE ~LooksFree
      <3>1. Answer(r, "create", "500") \/ Answer(r, "create", "409")
        BY <1>2, <2>4 DEF SendCreate
      <3>2. {"500", "409"} \subseteq Answers /\ "create" \in Ops
        BY DEF Answers, Ops
      <3>3. request' \in [Requests -> RequestStates]
        BY <3>1, <3>2, AnswerTyped
      <3>4. \A p \in Requests : request'[p].pc = "save" => request'[p] = request[p]
        BY <3>1 DEF Answer, Goto, TypeOK
      <3> QED BY <1>0, <2>2, <3>3, <3>4 DEF TypeOK, SavesExist
    <2> QED BY <2>3, <2>4
  <1>3. ASSUME NEW r \in Requests, Insert(r) PROVE TypeOK' /\ SavesExist'
    <2>1. [status |-> "ACTIVE", is_active |-> TRUE] \in Rows
      BY DEF Rows, Statuses
    <2>2. [status |-> "ACTIVE", is_active |-> TRUE] # None
      BY <2>1, ContractsAssumption
    <2>3. request' \in [Requests -> RequestStates]
      BY <1>3, AnswerTyped DEF Insert, Ops, Answers
    <2>4. PICK new \in Rows, c \in Contracts :
              new # None /\ contract' = [contract EXCEPT ![c] = new]
      BY <1>3, <2>1, <2>2 DEF Insert
    <2>5. \A p \in Requests : request'[p].pc = "save" => request'[p] = request[p]
      BY <1>3 DEF Insert, Answer, Goto, TypeOK
    <2> QED
      BY <1>0, <2>3, <2>4, <2>5, SaveTyped DEF TypeOK, SavesExist
  <1>4. ASSUME NEW r \in Requests, NEW o \in Ops, NEW c \in Existing,
               NEW assigned \in Rows, Load(r, o, c, assigned)
        PROVE  TypeOK' /\ SavesExist'
    BY <1>0, <1>4, LoadTyped DEF Load, Goto, TypeOK, SavesExist, Existing
  <1>5. ASSUME NEW r \in Requests, SendUpdate(r) \/ SendRenew(r) \/ SendCancel(r)
        PROVE  TypeOK' /\ SavesExist'
    <2>1. CASE SendUpdate(r)
      <3>1. PICK c \in Existing, s \in SetStatus :
                Load(r, "update", c, Assigned(contract[c], s))
        BY <2>1 DEF SendUpdate
      <3>2. contract[c] \in Rows
        BY DEF Existing, TypeOK
      <3>3. Assigned(contract[c], s) \in Rows
        BY <3>2, ContractsAssumption DEF Assigned, Rows
      <3> QED BY <3>1, <3>3, <1>4 DEF Ops
    <2>2. CASE SendRenew(r)
      BY <2>2, <1>4 DEF SendRenew, Ops, Rows, Statuses
    <2>3. CASE SendCancel(r)
      BY <2>3, <1>4 DEF SendCancel, Ops, Rows, Statuses
    <2> QED BY <1>5, <2>1, <2>2, <2>3
  <1>6. ASSUME NEW r \in Requests, Save(r) PROVE TypeOK' /\ SavesExist'
    <2>1. request' \in [Requests -> RequestStates]
      BY <1>6, SaveTyped, AnswerTyped DEF Save, Answers
    <2>2. \A p \in Requests : request'[p].pc = "save"
              => request[p].pc = "save" /\ request'[p].id = request[p].id
      BY <1>6 DEF Save, Answer, Goto, TypeOK
    <2> QED BY <1>0, <1>6, <2>1, <2>2, RowsStay, SaveTyped DEF TypeOK, SavesExist, Existing
  <1>7. ASSUME NEW r \in Requests, SendLogin(r) \/ ReadActive(r)
        PROVE  TypeOK' /\ SavesExist'
    <2>1. contract' = contract
      BY <1>7 DEF SendLogin, ReadActive
    <2>2. \/ Goto(r, [pc |-> "active"])
          \/ \E a \in {"allowed", "403", "500"} : Answer(r, "login", a)
      BY <1>7 DEF SendLogin, ReadActive
    <2>3. [pc |-> "active"] \in RequestStates
      BY DEF RequestStates
    <2>4. CASE Goto(r, [pc |-> "active"])
      BY <1>0, <2>1, <2>3, <2>4, RequestTyped DEF TypeOK, SavesExist, Goto
    <2>5. CASE \E a \in {"allowed", "403", "500"} : Answer(r, "login", a)
      <3>1. {"allowed", "403", "500"} \subseteq Answers /\ "login" \in Ops
        BY DEF Answers, Ops
      <3>2. request' \in [Requests -> RequestStates]
        BY <2>5, <3>1, AnswerTyped
      <3>3. \A p \in Requests : request'[p].pc = "save" => request'[p] = request[p]
        BY <2>5 DEF Answer, Goto, TypeOK
      <3> QED BY <1>0, <2>1, <3>2, <3>3 DEF TypeOK, SavesExist
    <2> QED BY <2>2, <2>4, <2>5
  <1> QED BY <1>1, <1>2, <1>3, <1>5, <1>6, <1>7 DEF Next

\* Type correctness of the contracts and their requests, with the fact that
\* a request that loaded a row works on an existing one: no code deletes a
\* contract.
THEOREM TypeCorrect == Spec => []TypeOK
  <1>1. IInv => TypeOK
    BY DEF IInv
  <1> QED BY <1>1, InitIInv, NextIInv, PTL DEF Spec

-----------------------------------------------------------------------------
(* Cancellations stand *)

\* What a save writes to the row of its contract, and that it writes no other.
LEMMA SaveEffect ==
  ASSUME TypeOK, SavesExist, NEW r \in Requests, Save(r)
  PROVE  /\ contract'[request[r].id].status =
               IF request[r].set.status # request[r].loaded.status
               THEN request[r].set.status
               ELSE contract[request[r].id].status
         /\ \A c \in Contracts : c # request[r].id => contract'[c] = contract[c]
  <1> DEFINE q == request[r]
  <1>1. q.id \in Contracts /\ q.loaded \in Rows /\ q.set \in Rows
    BY SaveTyped DEF Save
  <1>2. contract[q.id] \in Rows
    BY <1>1 DEF Save, SavesExist, TypeOK
  <1>3. Changed(contract[q.id], q.loaded, q.set).status =
            IF q.set.status # q.loaded.status THEN q.set.status
            ELSE contract[q.id].status
    BY <1>1, <1>2, ChangedRow
  <1> QED BY <1>1, <1>3 DEF Save, TypeOK

LEMMA StepKeepsCancelled == IInv /\ [Next]_vars => RevivedOnPurpose
  <1> SUFFICES ASSUME TypeOK, SavesExist, [Next]_vars,
                      NEW c \in Contracts, Revived(c)
               PROVE  \E r \in Requests : Commits(r, c) /\ ChangesStatus(r)
    BY DEF IInv, RevivedOnPurpose
  <1>1. contract'[c] # contract[c]
    BY DEF Revived
  <1>2. PICK r \in Requests : Insert(r) \/ Save(r)
    BY <1>1 DEF Next, vars, SendCreate, SendUpdate, SendRenew, SendCancel,
                Load, SendLogin, ReadActive
  <1>3. Save(r)
    BY <1>1, <1>2 DEF Insert, Revived, Existing, TypeOK
  <1>4. c = request[r].id
    BY <1>1, <1>3, SaveEffect
  <1>5. request[r].set.status # request[r].loaded.status
    BY <1>3, <1>4, SaveEffect DEF Revived
  <1>6. Commits(r, c)
    BY <1>3, <1>4 DEF Commits, Save, Answer, Goto, TypeOK
  <1> QED BY <1>5, <1>6 DEF ChangesStatus

\* However requests interleave, a cancelled contract is revived only by a
\* request that was meant to change its status: the object mapper writes
\* changed columns, so an update of a limit or a price that read the contract
\* before it was cancelled does not write the old status back.
THEOREM CancellationsStand == Spec => CancelStands
  <1> QED BY InitIInv, NextIInv, StepKeepsCancelled, PTL DEF Spec, CancelStands

-----------------------------------------------------------------------------
(* One active contract *)

Alone == \A p, q \in Requests : InFlight(p) /\ InFlight(q) => p = q

\* Nothing becomes active between the check of a creation and its insert.
StillFree == \A r \in Requests : request[r].pc = "insert" => Accessible = {}

\* A request that is about to give a contract access, or to leave it access,
\* finds access nowhere else.
SavesAlone ==
    \A r \in Requests :
        (request[r].pc = "save" /\ request[r].set.status \in AccessStatuses)
            => Accessible \subseteq {request[r].id}

OneInv ==
    /\ IInv
    /\ ~overlapped /\ ~reactivated =>
           ~Several(Accessible) /\ Alone /\ StillFree /\ SavesAlone

LEMMA InitOneInv == Init => OneInv
  BY InitIInv DEF Init, OneInv, Several, Accessible, Existing,
                  Alone, InFlight, StillFree, SavesAlone, Unsent

\* A request that is sent, or answered, without writing.
LEMMA QuietStep ==
  ASSUME IInv, ~Several(Accessible), Alone, StillFree, SavesAlone,
         NEW r \in Requests, NEW state, Goto(r, state), UNCHANGED contract,
         InFlight(r) \/ \A p \in Requests : ~InFlight(p),
         state.pc = "insert" => Accessible = {},
         (state.pc = "save" /\ state.set.status \in AccessStatuses)
            => Accessible \subseteq {state.id}
  PROVE  ~Several(Accessible)' /\ Alone' /\ StillFree' /\ SavesAlone'
  <1>1. /\ request'[r] = state
        /\ \A p \in Requests : p # r => request'[p] = request[p]
    BY DEF Goto, IInv, TypeOK
  <1>2. Accessible' = Accessible
    BY DEF Accessible, Existing
  <1>3. ~Several(Accessible)'
    BY <1>2 DEF Several
  <1>4. Alone'
    BY <1>1 DEF Alone, InFlight
  <1>5. StillFree'
    BY <1>1, <1>2 DEF StillFree
  <1>6. SavesAlone'
    BY <1>1, <1>2 DEF SavesAlone
  <1> QED BY <1>3, <1>4, <1>5, <1>6

\* A step after which no request is in progress.
LEMMA LastStep ==
  ASSUME IInv, Alone, NEW r \in Requests, InFlight(r), NEW o, NEW a, Answer(r, o, a)
  PROVE  Alone' /\ StillFree' /\ SavesAlone'
  <1>1. /\ request'[r].pc = "answered"
        /\ \A p \in Requests : p # r => request'[p] = request[p]
    BY DEF Answer, Goto, IInv, TypeOK
  <1>2. \A p \in Requests : ~InFlight(p)'
    BY <1>1 DEF Alone, InFlight
  <1> QED BY <1>2 DEF Alone, StillFree, SavesAlone, InFlight

LEMMA SentAlone ==
  ASSUME NEW r, Send(r), ~overlapped'
  PROVE  \A p \in Requests : ~InFlight(p)
  BY DEF Send

\* What is assigned to the loaded row gives access to no second contract.
LEMMA LoadedAlone ==
  ASSUME IInv, ~Several(Accessible), NEW c \in Contracts, NEW assigned,
         ~Reactivates(c, assigned), assigned.status \in AccessStatuses
  PROVE  Accessible \subseteq {c}
  BY DEF Reactivates, Several

LEMMA NextOneInv == OneInv /\ [Next]_vars => OneInv'
  <1> SUFFICES ASSUME OneInv, [Next]_vars, ~overlapped', ~reactivated'
               PROVE  ~Several(Accessible)' /\ Alone' /\ StillFree' /\ SavesAlone'
    BY NextIInv DEF OneInv
  <1>0. ~overlapped /\ ~reactivated
    <2>1. CASE UNCHANGED vars
      BY <2>1 DEF vars
    <2>2. ASSUME NEW r \in Requests, SendUpdate(r) \/ SendRenew(r) \/ SendCancel(r)
          PROVE  ~overlapped /\ ~reactivated
      <3>1. PICK o, c, assigned : Load(r, o, c, assigned)
        BY <2>2 DEF SendUpdate, SendRenew, SendCancel
      <3> QED BY <3>1 DEF Load, Send
    <2>3. ASSUME NEW r \in Requests,
                 SendCreate(r) \/ Insert(r) \/ Save(r) \/ SendLogin(r) \/ ReadActive(r)
          PROVE  ~overlapped /\ ~reactivated
      <3>1. CASE SendCreate(r) \/ SendLogin(r)
        <4>1. Send(r) /\ reactivated' = reactivated
          BY <3>1 DEF SendCreate, SendLogin
        <4> QED BY <4>1 DEF Send
      <3>2. CASE Insert(r)
        BY <3>2 DEF Insert
      <3>3. CASE Save(r)
        BY <3>3 DEF Save
      <3>4. CASE ReadActive(r)
        BY <3>4 DEF ReadActive
      <3> QED BY <2>3, <3>1, <3>2, <3>3, <3>4
    <2> QED BY <2>1, <2>2, <2>3 DEF Next
  <1> SUFFICES ASSUME IInv, ~Several(Accessible), Alone, StillFree, SavesAlone
               PROVE  ~Several(Accessible)' /\ Alone' /\ StillFree' /\ SavesAlone'
    BY <1>0 DEF OneInv
  <1>1. CASE UNCHANGED vars
    BY <1>1 DEF vars, Several, Accessible, Existing, Alone, InFlight, StillFree, SavesAlone
  <1>2. ASSUME NEW r \in Requests, SendCreate(r)
        PROVE  ~Several(Accessible)' /\ Alone' /\ StillFree' /\ SavesAlone'
    <2>1. \A p \in Requests : ~InFlight(p)
      BY <1>2, SentAlone DEF SendCreate
    <2>2. CASE LooksFree
      <3>1. Goto(r, [pc |-> "insert"]) /\ Accessible = {}
        BY <1>2, <2>2 DEF SendCreate, LooksFree
      <3> QED BY <1>2, <2>1, <3>1, QuietStep DEF SendCreate
    <2>3. CASE ~LooksFree
      <3>1. PICK a : Goto(r, [pc |-> "answered", op |-> "create", answer |-> a])
        BY <1>2, <2>3 DEF SendCreate, Answer
      <3> QED BY <1>2, <2>1, <3>1, QuietStep DEF SendCreate
    <2> QED BY <2>2, <2>3
  <1>3. ASSUME NEW r \in Requests, Insert(r)
        PROVE  ~Several(Accessible)' /\ Alone' /\ StillFree' /\ SavesAlone'
    <2>1. PICK c \in Contracts \ Existing :
              contract' = [contract EXCEPT ![c] =
                              [status |-> "ACTIVE", is_active |-> TRUE]]
      BY <1>3 DEF Insert
    <2>2. Accessible = {} /\ InFlight(r)
      BY <1>3 DEF Insert, StillFree, InFlight
    <2>3. Accessible' \subseteq {c}
      BY <2>1, <2>2 DEF Accessible, Existing, IInv, TypeOK
    <2>4. ~Several(Accessible)'
      BY <2>3 DEF Several
    <2> QED BY <1>3, <2>2, <2>4, LastStep DEF Insert
  <1>4. ASSUME NEW r \in Requests, NEW o, NEW c \in Existing, NEW assigned,
               Load(r, o, c, assigned)
        PROVE  ~Several(Accessible)' /\ Alone' /\ StillFree' /\ SavesAlone'
    <2>1. ~Reactivates(c, assigned) /\ c \in Contracts
      BY <1>4 DEF Load, Existing
    <2>2. assigned.status \in AccessStatuses => Accessible \subseteq {c}
      BY <2>1, LoadedAlone
    <2>3. \A p \in Requests : ~InFlight(p)
      BY <1>4, SentAlone DEF Load
    <2> DEFINE state == [pc |-> "save", op |-> o, id |-> c,
                         loaded |-> contract[c], set |-> assigned]
    <2>4. Goto(r, state) /\ UNCHANGED contract
      BY <1>4 DEF Load
    <2>5. state.pc = "save" /\ state.id = c /\ state.set = assigned
      OBVIOUS
    <2> HIDE DEF state
    <2> QED BY <2>2, <2>3, <2>4, <2>5, QuietStep
  <1>5. ASSUME NEW r \in Requests, SendUpdate(r) \/ SendRenew(r) \/ SendCancel(r)
        PROVE  ~Several(Accessible)' /\ Alone' /\ StillFree' /\ SavesAlone'
    BY <1>4, <1>5 DEF SendUpdate, SendRenew, SendCancel
  <1>6. ASSUME NEW r \in Requests, Save(r)
        PROVE  ~Several(Accessible)' /\ Alone' /\ StillFree' /\ SavesAlone'
    <2> DEFINE q == request[r]
    <2>1. \A c \in Accessible' : c \in Accessible \/ (c = q.id /\ q.set.status \in AccessStatuses)
      <3>1. SUFFICES ASSUME NEW c \in Accessible', c \notin Accessible
                     PROVE  c = q.id /\ q.set.status \in AccessStatuses
        OBVIOUS
      <3>2. c \in Contracts /\ contract'[c] # None /\ contract'[c].status \in AccessStatuses
        BY DEF Accessible, Existing
      <3>3. c = q.id
        BY <1>6, <3>1, <3>2, SaveEffect DEF IInv, Accessible, Existing
      <3>4. contract[c] # None
        BY <1>6, <3>3 DEF IInv, SavesExist, Save
      <3>5. contract'[c].status # contract[c].status
        BY <3>1, <3>2, <3>4 DEF Accessible, Existing
      <3> QED BY <1>6, <3>2, <3>3, <3>5, SaveEffect DEF IInv
    <2>2. q.set.status \in AccessStatuses => Accessible \subseteq {q.id}
      BY <1>6 DEF SavesAlone, Save
    <2>3. Accessible' \subseteq Accessible \/ Accessible' \subseteq {q.id}
      BY <2>1, <2>2
    <2>4. ~Several(Accessible)'
      BY <2>3 DEF Several
    <2>5. InFlight(r) /\ Answer(r, q.op, "done")
      BY <1>6 DEF Save, InFlight
    <2> QED BY <2>4, <2>5, LastStep
  <1>7. ASSUME NEW r \in Requests, SendLogin(r) \/ ReadActive(r)
        PROVE  ~Several(Accessible)' /\ Alone' /\ StillFree' /\ SavesAlone'
    <2>1. InFlight(r) \/ \A p \in Requests : ~InFlight(p)
      BY <1>7, SentAlone DEF SendLogin, ReadActive, InFlight
    <2>2. PICK state : Goto(r, state) /\ state.pc \in {"active", "answered"}
      <3>1. CASE Goto(r, [pc |-> "active"])
        BY <3>1
      <3>2. CASE \E a : Goto(r, [pc |-> "answered", op |-> "login", answer |-> a])
        BY <3>2
      <3> QED BY <1>7, <3>1, <3>2 DEF SendLogin, ReadActive, Answer
    <2>3. UNCHANGED contract
      BY <1>7 DEF SendLogin, ReadActive
    <2> QED BY <2>1, <2>2, <2>3, QuietStep
  <1> QED BY <1>1, <1>2, <1>3, <1>5, <1>6, <1>7 DEF Next

\* The check of create_contract keeps the company at one active contract as
\* long as requests do not overlap and neither a renewal nor an update gives
\* an ended contract access beside another one. Each of these is needed:
\* without it the model checker finds two active contracts.
THEOREM OneActiveContract == Spec => []OneActive
  <1>1. OneInv => OneActive
    BY DEF OneInv, OneActive
  <1> QED BY <1>1, InitOneInv, NextOneInv, PTL DEF Spec

-----------------------------------------------------------------------------
(* Refused for a reason *)

Ended ==
    \E r \in Requests :
        request[r].pc = "answered" /\ request[r].op \in {"cancel", "update"}

Refused(r) == request[r] = [pc |-> "answered", op |-> "login", answer |-> "403"]

\* A renewal assigns ACTIVE, and nothing else waits to be saved.
SavesKnown ==
    \A r \in Requests : request[r].pc = "save" =>
        \/ request[r].op \in {"update", "cancel"}
        \/ request[r].op = "renew" /\ request[r].set.status = "ACTIVE"

\* Every contract gives access, and the check of a company that has none is
\* over before it looks for the one that gives access.
AllOpen == \A c \in Existing : contract[c].status \in AccessStatuses

CheckedSome == \A r \in Requests : request[r].pc = "active" => Existing # {}

RefusedInv ==
    /\ IInv /\ SavesKnown /\ CheckedSome
    /\ Ended \/ (AllOpen /\ \A r \in Requests : ~Refused(r))

LEMMA InitRefusedInv == Init => RefusedInv
  BY InitIInv DEF Init, RefusedInv, SavesKnown, CheckedSome, AllOpen, Existing,
                  Refused, Unsent

\* A step that sends or answers r, which was not answered, and writes no row.
LEMMA RequestStep ==
  ASSUME RefusedInv, NEW r \in Requests, NEW state, Goto(r, state),
         request[r].pc # "answered", Existing \subseteq Existing',
         Ended' \/ AllOpen',
         state.pc = "save" => \/ state.op \in {"update", "cancel"}
                              \/ state.op = "renew" /\ state.set.status = "ACTIVE",
         state.pc = "active" => Existing # {},
         state = [pc |-> "answered", op |-> "login", answer |-> "403"]
            => Existing # {} /\ Accessible = {}
  PROVE  SavesKnown' /\ CheckedSome'
         /\ (Ended' \/ (AllOpen' /\ \A p \in Requests : ~Refused(p)'))
  <1>1. /\ request'[r] = state
        /\ \A p \in Requests : p # r => request'[p] = request[p]
    BY DEF Goto, RefusedInv, IInv, TypeOK
  <1>2. SavesKnown'
    BY <1>1 DEF SavesKnown, RefusedInv
  <1>3. CheckedSome'
    BY <1>1 DEF CheckedSome, RefusedInv
  <1>4. Ended => Ended'
    BY <1>1 DEF Ended
  <1>5. ASSUME ~Ended' PROVE AllOpen' /\ \A p \in Requests : ~Refused(p)'
    <2>1. AllOpen /\ \A p \in Requests : ~Refused(p)
      BY <1>4, <1>5 DEF RefusedInv
    <2>2. Accessible = Existing
      BY <2>1 DEF AllOpen, Accessible
    <2>3. state # [pc |-> "answered", op |-> "login", answer |-> "403"]
      BY <2>2
    <2>4. \A p \in Requests : ~Refused(p)'
      BY <1>1, <2>1, <2>3 DEF Refused
    <2> QED BY <1>5, <2>4
  <1> QED BY <1>2, <1>3, <1>5

\* As long as nothing was written, every contract is as open as it was.
LEMMA NothingWritten ==
  ASSUME RefusedInv, NEW r \in Requests, NEW state, Goto(r, state),
         request[r].pc # "answered", UNCHANGED contract
  PROVE  Existing' = Existing /\ (Ended' \/ AllOpen')
  <1>1. \A p \in Requests : p # r => request'[p] = request[p]
    BY DEF Goto, RefusedInv, IInv, TypeOK
  <1>2. Ended => Ended'
    BY <1>1 DEF Ended
  <1>3. Existing' = Existing
    BY DEF Existing
  <1>4. AllOpen => AllOpen'
    BY <1>3 DEF AllOpen
  <1> QED BY <1>2, <1>3, <1>4 DEF RefusedInv

LEMMA NextRefusedInv == RefusedInv /\ [Next]_vars => RefusedInv'
  <1> DEFINE Goal == SavesKnown' /\ CheckedSome'
                     /\ (Ended' \/ (AllOpen' /\ \A p \in Requests : ~Refused(p)'))
  <1> SUFFICES ASSUME RefusedInv, [Next]_vars PROVE Goal
    BY NextIInv DEF RefusedInv
  <1>1. CASE UNCHANGED vars
    BY <1>1 DEF vars, RefusedInv, SavesKnown, CheckedSome, Ended, AllOpen,
                Existing, Refused
  <1>2. ASSUME NEW r \in Requests, SendCreate(r) PROVE Goal
    <2>1. request[r].pc # "answered" /\ UNCHANGED contract
      BY <1>2 DEF SendCreate, Send
    <2>2. CASE LooksFree
      <3>1. Goto(r, [pc |-> "insert"])
        BY <1>2, <2>2 DEF SendCreate
      <3>2. /\ [pc |-> "insert"].pc = "insert"
            /\ [pc |-> "insert"] # [pc |-> "answered", op |-> "login", answer |-> "403"]
        BY DEF Goto
      <3> QED BY <2>1, <3>1, <3>2, NothingWritten, RequestStep
    <2>3. CASE ~LooksFree
      <3>1. PICK a : Goto(r, [pc |-> "answered", op |-> "create", answer |-> a])
        BY <1>2, <2>3 DEF SendCreate, Answer
      <3> QED BY <2>1, <3>1, NothingWritten, RequestStep
    <2> QED BY <2>2, <2>3
  <1>3. ASSUME NEW r \in Requests, Insert(r) PROVE Goal
    <2>1. PICK c \in Contracts \ Existing :
              contract' = [contract EXCEPT ![c] =
                              [status |-> "ACTIVE", is_active |-> TRUE]]
      BY <1>3 DEF Insert
    <2>2. /\ contract'[c] = [status |-> "ACTIVE", is_active |-> TRUE]
          /\ \A d \in Contracts : d # c => contract'[d] = contract[d]
      BY <2>1 DEF RefusedInv, IInv, TypeOK
    <2>3. Goto(r, [pc |-> "answered", op |-> "create", answer |-> "created"])
      BY <1>3 DEF Insert, Answer
    <2>4. Existing \subseteq Existing'
      BY <2>2 DEF Existing
    <2>5. AllOpen => AllOpen'
      BY <2>2 DEF AllOpen, Existing, AccessStatuses
    <2>6. Ended => Ended'
      BY <1>3, <2>3 DEF Ended, Goto, Insert, RefusedInv, IInv, TypeOK
    <2>7. Ended' \/ AllOpen'
      BY <2>5, <2>6 DEF RefusedInv
    <2>8. request[r].pc # "answered"
      BY <1>3 DEF Insert
    <2> QED BY <2>3, <2>4, <2>7, <2>8, RequestStep
  <1>4. ASSUME NEW r \in Requests, NEW o, NEW c \in Existing, NEW assigned,
               Load(r, o, c, assigned),
               o \in {"update", "cancel"} \/ (o = "renew" /\ assigned.status = "ACTIVE")
        PROVE  Goal
    <2> DEFINE state == [pc |-> "save", op |-> o, id |-> c,
                         loaded |-> contract[c], set |-> assigned]
    <2>1. Goto(r, state) /\ UNCHANGED contract /\ request[r].pc # "answered"
      BY <1>4 DEF Load, Send
    <2>2. state.pc = "save" /\ state.op = o /\ state.set = assigned
      OBVIOUS
    <2>3. state # [pc |-> "answered", op |-> "login", answer |-> "403"]
      BY <2>2
    <2> HIDE DEF state
    <2> QED BY <1>4, <2>1, <2>2, <2>3, NothingWritten, RequestStep
  <1>5. ASSUME NEW r \in Requests, SendUpdate(r) \/ SendRenew(r) \/ SendCancel(r)
        PROVE  Goal
    BY <1>4, <1>5 DEF SendUpdate, SendRenew, SendCancel
  <1>6. ASSUME NEW r \in Requests, Save(r) PROVE Goal
    <2>1. PICK o, id, set :
              o = request[r].op /\ id = request[r].id /\ set = request[r].set
      OBVIOUS
    <2>2. Goto(r, [pc |-> "answered", op |-> o, answer |-> "done"])
      BY <1>6, <2>1 DEF Save, Answer
    <2>3. Existing \subseteq Existing'
      BY <1>6, RowsStay DEF RefusedInv, IInv, Existing
    <2>4. /\ contract'[id].status = IF set.status # request[r].loaded.status
                                    THEN set.status ELSE contract[id].status
          /\ \A c \in Contracts : c # id => contract'[c] = contract[c]
      BY <1>6, <2>1, SaveEffect DEF RefusedInv, IInv
    <2>5. /\ request'[r] = [pc |-> "answered", op |-> o, answer |-> "done"]
          /\ request[r].pc = "save"
          /\ \A p \in Requests : p # r => request'[p] = request[p]
      BY <1>6, <2>2 DEF Save, Goto, RefusedInv, IInv, TypeOK
    <2>6. CASE o \in {"update", "cancel"}
      BY <2>2, <2>3, <2>5, <2>6, RequestStep DEF Ended
    <2>7. CASE o = "renew" /\ set.status = "ACTIVE"
      <3>1. Existing' = Existing
        <4>1. contract[id] # None
          BY <1>6, <2>1 DEF Save, RefusedInv, IInv, SavesExist
        <4> QED BY <2>3, <2>4, <4>1 DEF Existing
      <3>2. AllOpen => AllOpen'
        BY <2>4, <2>7, <3>1 DEF AllOpen, Existing, AccessStatuses
      <3>3. Ended => Ended'
        BY <2>5 DEF Ended
      <3> QED BY <2>2, <2>3, <2>5, <3>2, <3>3, RequestStep DEF RefusedInv
    <2>8. o \in {"update", "cancel"} \/ (o = "renew" /\ set.status = "ACTIVE")
      BY <2>1, <2>5 DEF RefusedInv, SavesKnown
    <2> QED BY <2>6, <2>7, <2>8
  <1>7. ASSUME NEW r \in Requests, SendLogin(r) PROVE Goal
    <2>1. request[r].pc # "answered" /\ UNCHANGED contract
      BY <1>7 DEF SendLogin, Send
    <2>2. CASE Existing = {}
      <3>1. Goto(r, [pc |-> "answered", op |-> "login", answer |-> "allowed"])
        BY <1>7, <2>2 DEF SendLogin, Answer
      <3> QED BY <2>1, <3>1, NothingWritten, RequestStep
    <2>3. CASE Existing # {}
      <3>1. Goto(r, [pc |-> "active"])
        BY <1>7, <2>3 DEF SendLogin
      <3>2. /\ [pc |-> "active"].pc = "active"
            /\ [pc |-> "active"] # [pc |-> "answered", op |-> "login", answer |-> "403"]
        BY DEF Goto
      <3> QED BY <2>1, <2>3, <3>1, <3>2, NothingWritten, RequestStep
    <2> QED BY <2>2, <2>3
  <1>8. ASSUME NEW r \in Requests, ReadActive(r) PROVE Goal
    <2>1. request[r].pc = "active" /\ UNCHANGED contract
      BY <1>8 DEF ReadActive
    <2>2. Existing # {}
      BY <2>1 DEF RefusedInv, CheckedSome
    <2>3. PICK a : /\ Goto(r, [pc |-> "answered", op |-> "login", answer |-> a])
                   /\ a = "403" => Accessible = {}
      <3>1. PICK a : /\ a = IF Accessible = {} THEN "403"
                            ELSE IF Several(Accessible) THEN "500" ELSE "allowed"
                     /\ Goto(r, [pc |-> "answered", op |-> "login", answer |-> a])
        BY <1>8 DEF ReadActive, Answer
      <3>2. a = "403" => Accessible = {}
        BY <3>1
      <3> QED BY <3>1, <3>2
    <2> QED BY <2>1, <2>2, <2>3, NothingWritten, RequestStep
  <1> QED BY <1>1, <1>2, <1>3, <1>5, <1>6, <1>7, <1>8 DEF Next

\* Nobody of a company is refused because of its contract before the owner
\* cancelled one or updated one, however the two reads of the check, the
\* creation of the first contract and the renewals interleave: until then
\* every contract that exists gives access, and only a company that has a
\* contract is asked for one that does.
THEOREM RefusalsHaveAReason == Spec => []RefusedForAReason
  <1>1. RefusedInv => RefusedForAReason
    BY DEF RefusedInv, RefusedForAReason, Ended, Refused
  <1> QED BY <1>1, InitRefusedInv, NextRefusedInv, PTL DEF Spec

=============================================================================
