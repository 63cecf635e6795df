------------------------------ MODULE CrmProofs ------------------------------
(***************************************************************************)
(* What is proved of Crm, for all sets of leads, deals and requests.       *)
(***************************************************************************)
EXTENDS Crm, TLAPS

-----------------------------------------------------------------------------
(* Rows and request states *)

\* The row that an UPDATE statement leaves.
LEMMA ChangedRow ==
  ASSUME NEW old \in Rows, NEW loaded \in Rows, NEW set \in Rows
  PROVE  /\ Changed(old, loaded, set) \in Rows
         /\ Changed(old, loaded, set).state =
                IF set.state # loaded.state THEN set.state ELSE old.state
         /\ Changed(old, loaded, set).deleted =
                IF set.deleted # loaded.deleted THEN set.deleted ELSE old.deleted
  <1>1. DOMAIN old = {"state", "lead_id", "deleted"}
    BY DEF Rows
  <1> DEFINE new == [f \in {"state", "lead_id", "deleted"} |->
                        IF set[f] # loaded[f] THEN set[f] ELSE old[f]]
  <1>2. Changed(old, loaded, set) = new
    BY <1>1 DEF Changed
  <1>3. /\ new.state = IF set.state # loaded.state THEN set.state ELSE old.state
        /\ new.lead_id = IF set.lead_id # loaded.lead_id THEN set.lead_id ELSE old.lead_id
        /\ new.deleted = IF set.deleted # loaded.deleted THEN set.deleted ELSE old.deleted
    OBVIOUS
  <1>4. new = [state |-> new.state, lead_id |-> new.lead_id, deleted |-> new.deleted]
    OBVIOUS
  <1>5. new.state \in Stages \cup Statuses /\ new.lead_id \in Leads \cup {None}
        /\ new.deleted \in BOOLEAN
    BY <1>3 DEF Rows
  <1>6. new \in Rows
    BY <1>4, <1>5 DEF Rows
  <1> QED BY <1>2, <1>3, <1>6

LEMMA RowsAreRows ==
  ASSUME TypeOK, NEW i \in Ids, Exists(i)
  PROVE  row[i] \in Rows
  BY DEF TypeOK, Exists

LEMMA NewRows ==
  /\ NewLead \in Rows
  /\ \A l \in Leads \cup {None} : NewDeal(l) \in Rows
  BY DEF NewLead, NewDeal, Rows, Stages, Statuses

LEMMA WorkStates ==
  ASSUME NEW p \in {"save", "refresh", "fire", "flush"}, NEW o \in Ops,
         NEW i \in Ids, NEW loaded \in Rows, NEW set \in Rows
  PROVE  [pc |-> p, op |-> o, id |-> i, loaded |-> loaded, set |-> set]
            \in RequestStates
  BY DEF RequestStates

LEMMA OtherStates ==
  /\ \A l \in Leads \cup {None} : [pc |-> "insert", lead |-> l] \in RequestStates
  /\ \A i \in Ids : [pc |-> "remove", id |-> i] \in RequestStates
  /\ [pc |-> "close"] \in RequestStates
  /\ \A a \in {"done", "400", "500"} : [pc |-> "answered", answer |-> a] \in RequestStates
  BY DEF RequestStates

\* A request that works on a row.
LEMMA Working ==
  ASSUME TypeOK, NEW r \in Requests,
         request[r].pc \in {"save", "refresh", "fire", "flush"}
  PROVE  /\ request[r].op \in Ops /\ request[r].id \in Ids
         /\ request[r].loaded \in Rows /\ request[r].set \in Rows
         /\ request[r] = [pc |-> request[r].pc, op |-> request[r].op,
                          id |-> request[r].id, loaded |-> request[r].loaded,
                          set |-> request[r].set]
  BY DEF TypeOK, RequestStates, Unsent

LEMMA Moved ==
  ASSUME TypeOK, NEW r \in Requests, NEW state, Goto(r, state)
  PROVE  /\ request'[r] = state
         /\ \A p \in Requests : p # r => request'[p] = request[p]
         /\ state \in RequestStates => request' \in [Requests -> RequestStates]
  BY DEF TypeOK, Goto

LEMMA AnswerTyped ==
  ASSUME TypeOK, NEW r \in Requests, NEW a \in {"done", "400", "500"}, Answer(r, a)
  PROVE  request' \in [Requests -> RequestStates]
  BY OtherStates, Moved DEF Answer

-----------------------------------------------------------------------------
(* Type correctness *)

DatabaseOK ==
    /\ row \in [Ids -> Rows \cup {None, Gone}]
    /\ staged \in [Deals -> SUBSET (Stages \cup Statuses)]
    /\ wrote \subseteq Requests

RequestsOK == request \in [Requests -> RequestStates]

OutboundOK ==
    /\ endpoint \in {"active", "inactive", "deleted"}
    /\ delivery \in [Requests -> {"none", "flushed", "committed"}]
    /\ task \in [Requests -> {"none", "spawned", "done"}]
    /\ posted \subseteq Requests
    /\ told \in [Deals -> Stages \cup Statuses]
    /\ rerouted \in BOOLEAN

LEMMA TypeParts ==
  ASSUME DatabaseOK', RequestsOK', OutboundOK'
  PROVE  TypeOK'
  BY DEF TypeOK, DatabaseOK, RequestsOK, OutboundOK

LEMMA InitTyped == Init => TypeOK
  <1> SUFFICES ASSUME Init PROVE TypeOK
    OBVIOUS
  <1>1. DatabaseOK
    BY DEF Init, DatabaseOK
  <1>2. RequestsOK
    BY DEF Init, RequestsOK, RequestStates
  <1>3. told \in [Deals -> Stages \cup Statuses]
    BY DEF Init, Stages
  <1>4. rerouted \in BOOLEAN
    BY DEF Init
  <1>5. /\ endpoint \in {"active", "inactive", "deleted"}
        /\ delivery \in [Requests -> {"none", "flushed", "committed"}]
        /\ task \in [Requests -> {"none", "spawned", "done"}]
        /\ posted \subseteq Requests
    BY DEF Init
  <1> QED BY <1>1, <1>2, <1>3, <1>4, <1>5 DEF TypeOK, DatabaseOK, RequestsOK

LEMMA CommitTyped ==
  ASSUME TypeOK, NEW r \in Requests, NEW i \in Ids, NEW new \in Rows,
         Commit(r, i, new)
  PROVE  DatabaseOK'
  <1>1. new.state \in Stages \cup Statuses
    BY DEF Rows
  <1> QED BY <1>1 DEF TypeOK, Commit, DatabaseOK

LEMMA DatabaseKept ==
  ASSUME TypeOK, UNCHANGED database
  PROVE  DatabaseOK'
  BY DEF TypeOK, database, DatabaseOK

LEMMA OutboundKept ==
  ASSUME TypeOK, UNCHANGED outbound
  PROVE  OutboundOK'
  BY DEF TypeOK, outbound, OutboundOK

LEMMA LoadTyped ==
  ASSUME TypeOK, NEW r \in Requests, NEW o \in Ops, NEW i \in Ids,
         NEW assigned, row[i] \in Rows => assigned \in Rows, Load(r, o, i, assigned)
  PROVE  TypeOK'
  <1>1. row[i] \in Rows
    BY RowsAreRows DEF Load, Live
  <1>2. [pc |-> "save", op |-> o, id |-> i, loaded |-> row[i], set |-> assigned]
            \in RequestStates
    BY <1>1, WorkStates
  <1>3. RequestsOK'
    BY <1>2, Moved DEF Load, RequestsOK
  <1> QED BY <1>3, DatabaseKept, OutboundKept, TypeParts DEF Load

LEMMA AssignedTyped ==
  ASSUME NEW old \in Rows, NEW s \in Stages \cup Statuses \cup {None}
  PROVE  Assigned(old, s) \in Rows
  BY DEF Assigned, Rows

LEMMA SendTyped ==
  ASSUME TypeOK, NEW r \in Requests,
         \/ SendCreateLead(r) \/ SendCreateDeal(r) \/ SendUpdate(r)
         \/ SendClose(r) \/ SendConvert(r) \/ SendDelete(r) \/ SendRemove(r)
  PROVE  TypeOK'
  <1>1. CASE SendCreateLead(r)
    <2>1. PICK l \in Leads : Commit(r, l, NewLead) /\ Goto(r, Inserted(l, NewLead))
      BY <1>1 DEF SendCreateLead
    <2>2. l \in Ids /\ "create" \in Ops
      BY DEF Ids, Ops
    <2>3. Inserted(l, NewLead) \in RequestStates
      BY <2>2, NewRows, WorkStates DEF Inserted
    <2>4. RequestsOK' /\ DatabaseOK'
      BY <2>1, <2>2, <2>3, NewRows, Moved, CommitTyped DEF RequestsOK
    <2> QED BY <1>1, <2>4, OutboundKept, TypeParts DEF SendCreateLead
  <1>2. CASE SendCreateDeal(r)
    <2>1. RequestsOK'
      BY <1>2, OtherStates, Moved DEF SendCreateDeal, RequestsOK
    <2> QED BY <1>2, <2>1, DatabaseKept, OutboundKept, TypeParts
            DEF SendCreateDeal
  <1>3. CASE SendUpdate(r)
    <2>0. PICK i \in Ids : \E s \in SetState[i], l \in Leads \cup {None} :
              Load(r, IF s = None THEN "edit" ELSE "update", i,
                   [Assigned(row[i], s) EXCEPT !.lead_id = l])
      BY <1>3 DEF SendUpdate
    <2>1. PICK s \in SetState[i], l \in Leads \cup {None}, o \in {"edit", "update"} :
              Load(r, o, i, [Assigned(row[i], s) EXCEPT !.lead_id = l])
      BY <2>0
    <2>2. s \in Stages \cup Statuses \cup {None} /\ o \in Ops
      BY CrmAssumption DEF Ops
    <2>3. row[i] \in Rows => [Assigned(row[i], s) EXCEPT !.lead_id = l] \in Rows
      BY <2>2, AssignedTyped DEF Rows
    <2> QED BY <2>1, <2>2, <2>3, LoadTyped
  <1>4. CASE SendClose(r) \/ SendConvert(r)
    <2>1. PICK i \in Ids, s \in {"CLOSED_WON", "CLOSED_LOST", "CONVERTED"}, o \in Ops :
              Load(r, o, i, Assigned(row[i], s))
      BY <1>4 DEF SendClose, SendConvert, Ids, Ops
    <2>2. s \in Stages \cup Statuses \cup {None}
      BY DEF Stages, Statuses
    <2> QED BY <2>1, <2>2, AssignedTyped, LoadTyped
  <1>5. CASE SendDelete(r)
    <2>1. PICK i \in Ids : Load(r, "delete", i, [row[i] EXCEPT !.deleted = TRUE])
      BY <1>5 DEF SendDelete
    <2>2. row[i] \in Rows => [row[i] EXCEPT !.deleted = TRUE] \in Rows
      BY DEF Rows
    <2> QED BY <2>1, <2>2, LoadTyped DEF Ops
  <1>6. CASE SendRemove(r)
    <2>1. RequestsOK'
      BY <1>6, OtherStates, Moved DEF SendRemove, RequestsOK
    <2> QED BY <1>6, <2>1, DatabaseKept, OutboundKept, TypeParts
            DEF SendRemove
  <1> QED BY <1>1, <1>2, <1>3, <1>4, <1>5, <1>6

LEMMA InsertTyped ==
  ASSUME TypeOK, NEW r \in Requests, InsertDeal(r)
  PROVE  TypeOK'
  <1>1. CASE Answer(r, "400") /\ UNCHANGED database
    BY <1>1, AnswerTyped, DatabaseKept, OutboundKept, TypeParts
    DEF InsertDeal, RequestsOK
  <1>2. CASE \E d \in Deals :
                /\ Commit(r, d, NewDeal(request[r].lead))
                /\ Goto(r, Inserted(d, NewDeal(request[r].lead)))
    <2>1. PICK d \in Deals :
                /\ Commit(r, d, NewDeal(request[r].lead))
                /\ Goto(r, Inserted(d, NewDeal(request[r].lead)))
      BY <1>2
    <2>2. request[r].lead \in Leads \cup {None}
      BY DEF InsertDeal, TypeOK, RequestStates, Unsent
    <2>3. d \in Ids /\ "create" \in Ops
      BY DEF Ids, Ops
    <2>4. NewDeal(request[r].lead) \in Rows
      BY <2>2, NewRows
    <2>5. Inserted(d, NewDeal(request[r].lead)) \in RequestStates
      BY <2>3, <2>4, WorkStates DEF Inserted
    <2>6. RequestsOK' /\ DatabaseOK'
      BY <2>1, <2>3, <2>4, <2>5, Moved, CommitTyped DEF RequestsOK
    <2> QED BY <2>6, OutboundKept, TypeParts DEF InsertDeal
  <1> QED BY <1>1, <1>2 DEF InsertDeal

LEMMA SaveTyped ==
  ASSUME TypeOK, NEW r \in Requests, Save(r)
  PROVE  TypeOK'
  <1> DEFINE q == request[r]
             new == Changed(row[q.id], q.loaded, q.set)
  <1>1. /\ q.op \in Ops /\ q.id \in Ids /\ q.loaded \in Rows /\ q.set \in Rows
        /\ q = [pc |-> "save", op |-> q.op, id |-> q.id, loaded |-> q.loaded,
                set |-> q.set]
    BY Working DEF Save
  <1>2. CASE Answer(r, IF Exists(q.id) THEN "400" ELSE "500") /\ UNCHANGED database
    <2>1. RequestsOK'
      BY <1>2, AnswerTyped DEF RequestsOK
    <2> QED BY <1>2, <2>1, DatabaseKept, OutboundKept, TypeParts DEF Save
  <1>3. CASE Exists(q.id) /\ Commit(r, q.id, new) /\ Goto(r, [q EXCEPT !.pc = "refresh"])
    <2>1. row[q.id] \in Rows
      BY <1>1, <1>3, RowsAreRows
    <2>2. new \in Rows
      BY <1>1, <2>1, ChangedRow
    <2>3. DatabaseOK'
      BY <1>1, <1>3, <2>2, CommitTyped
    <2>4. [q EXCEPT !.pc = "refresh"] =
              [pc |-> "refresh", op |-> q.op, id |-> q.id, loaded |-> q.loaded,
               set |-> q.set]
      BY <1>1
    <2>5. [q EXCEPT !.pc = "refresh"] \in RequestStates
      BY <1>1, <2>4, WorkStates
    <2>6. RequestsOK'
      BY <1>3, <2>5, Moved DEF RequestsOK
    <2> QED BY <2>3, <2>6, OutboundKept, TypeParts DEF Save
  <1> QED BY <1>2, <1>3 DEF Save

LEMMA RemoveTyped ==
  ASSUME TypeOK, NEW r \in Requests, Remove(r)
  PROVE  TypeOK'
  <1> DEFINE i == request[r].id
  <1>1. \A j \in Ids : Exists(j) => [row[j] EXCEPT !.lead_id = None] \in Rows
    BY RowsAreRows DEF Rows
  <1>2. \A j \in Ids : row'[j] \in Rows \cup {None, Gone}
    BY <1>1 DEF Remove, TypeOK
  <1>3. row' \in [Ids -> Rows \cup {None, Gone}]
    BY <1>2 DEF Remove
  <1>4. DatabaseOK'
    BY <1>3 DEF Remove, TypeOK, DatabaseOK
  <1>5. RequestsOK'
    BY AnswerTyped DEF Remove, RequestsOK
  <1> QED BY <1>4, <1>5, OutboundKept, TypeParts DEF Remove

\* Only leads are converted.
ConvertsLeads ==
    \A r \in Requests :
        (request[r].pc \in {"save", "refresh"} /\ request[r].op = "convert")
            => request[r].id \in Leads

LEMMA RefreshTyped ==
  ASSUME TypeOK, ConvertsLeads, NEW r \in Requests, Refresh(r)
  PROVE  TypeOK'
  <1> DEFINE q == request[r]
  <1>1. /\ q.op \in Ops /\ q.id \in Ids /\ q.loaded \in Rows
        /\ q = [pc |-> "refresh", op |-> q.op, id |-> q.id, loaded |-> q.loaded,
                set |-> q.set]
    BY Working DEF Refresh
  <1>2. CASE Answer(r, "500") \/ Answer(r, "done")
    BY <1>2, AnswerTyped, DatabaseKept, OutboundKept, TypeParts
    DEF Refresh, RequestsOK
  <1>3. CASE Exists(q.id) /\ Goto(r, [pc |-> "fire", op |-> q.op, id |-> q.id,
                                        loaded |-> q.loaded, set |-> row[q.id]])
    <2>1. row[q.id] \in Rows
      BY <1>1, <1>3, RowsAreRows
    <2>3. RequestsOK'
      BY <1>1, <1>3, <2>1, WorkStates, Moved DEF RequestsOK
    <2> QED BY <2>3, DatabaseKept, OutboundKept, TypeParts DEF Refresh
  <1>4. CASE Exists(q.id) /\ q.op = "convert" /\ Goto(r, [pc |-> "insert", lead |-> q.id])
    <2>1. q.id \in Leads
      BY <1>4 DEF ConvertsLeads, Refresh
    <2> QED BY <1>4, <2>1, OtherStates, Moved, DatabaseKept, OutboundKept, TypeParts
            DEF Refresh, RequestsOK
  <1> QED BY <1>2, <1>3, <1>4 DEF Refresh

LEMMA EventTyped ==
  ASSUME TypeOK, NEW r \in Requests, Fire(r) \/ Flush(r) \/ Close(r) \/ Deliver(r)
  PROVE  TypeOK'
  <1> DEFINE q == request[r]
  <1>1. CASE Fire(r)
    <2>1. /\ q.op \in Ops /\ q.id \in Ids /\ q.loaded \in Rows /\ q.set \in Rows
          /\ q = [pc |-> "fire", op |-> q.op, id |-> q.id, loaded |-> q.loaded,
                  set |-> q.set]
      BY <1>1, Working DEF Fire
    <2>2. [q EXCEPT !.pc = "flush"] =
              [pc |-> "flush", op |-> q.op, id |-> q.id, loaded |-> q.loaded,
               set |-> q.set]
      BY <2>1
    <2>3. [q EXCEPT !.pc = "flush"] \in RequestStates
      BY <2>1, <2>2, WorkStates
    <2>4. RequestsOK'
      BY <1>1, <2>3, Moved, AnswerTyped DEF Fire, RequestsOK
    <2> QED BY <1>1, <2>4, DatabaseKept, OutboundKept, TypeParts
            DEF Fire
  <1>2. CASE Flush(r)
    <2>1. q.set.state \in Stages \cup Statuses
      BY <1>2, Working DEF Flush, Rows
    <2>2. Reported(q) \in Stages \cup Statuses
      BY <2>1 DEF Reported, Stages
    <2>3. OutboundOK'
      BY <1>2, <2>2 DEF Flush, TypeOK, OutboundOK
    <2>4. RequestsOK'
      BY <1>2, OtherStates, Moved, AnswerTyped DEF Flush, RequestsOK
    <2> QED BY <1>2, <2>3, <2>4, DatabaseKept, TypeParts DEF Flush
  <1>3. CASE Close(r)
    <2>1. OutboundOK'
      BY <1>3 DEF Close, TypeOK, OutboundOK
    <2>2. RequestsOK'
      BY <1>3, AnswerTyped DEF Close, RequestsOK
    <2> QED BY <1>3, <2>1, <2>2, DatabaseKept, TypeParts DEF Close
  <1>4. CASE Deliver(r)
    <2>1. OutboundOK'
      BY <1>4 DEF Deliver, TypeOK, OutboundOK
    <2>2. RequestsOK'
      BY <1>4 DEF Deliver, TypeOK, RequestsOK
    <2> QED BY <1>4, <2>1, <2>2, DatabaseKept, TypeParts DEF Deliver
  <1> QED BY <1>1, <1>2, <1>3, <1>4

LEMMA EndpointTyped ==
  ASSUME TypeOK, SwitchEndpoint \/ DeleteEndpoint
  PROVE  TypeOK'
  <1>1. OutboundOK'
    <2>1. CASE SwitchEndpoint
      BY <2>1 DEF SwitchEndpoint, TypeOK, OutboundOK
    <2>2. CASE DeleteEndpoint
      BY <2>2 DEF DeleteEndpoint, TypeOK, OutboundOK
    <2> QED BY <2>1, <2>2
  <1>2. RequestsOK' /\ UNCHANGED database
    BY DEF SwitchEndpoint, DeleteEndpoint, TypeOK, RequestsOK
  <1> QED BY <1>1, <1>2, DatabaseKept, TypeParts

IInv == TypeOK /\ ConvertsLeads

LEMMA InitIInv == Init => IInv
  BY InitTyped DEF Init, IInv, ConvertsLeads, Unsent

\* A request that starts to work, or goes on working, on a row.
LEMMA ConvertsKept ==
  ASSUME TypeOK, ConvertsLeads, NEW r \in Requests, NEW state, Goto(r, state),
         (state.pc \in {"save", "refresh"} /\ state.op = "convert")
            => state.id \in Leads
  PROVE  ConvertsLeads'
  BY Moved DEF ConvertsLeads

LEMMA LoadConverts ==
  ASSUME TypeOK, ConvertsLeads, NEW r \in Requests, NEW o, NEW i, NEW assigned,
         Load(r, o, i, assigned), o = "convert" => i \in Leads
  PROVE  ConvertsLeads'
  BY ConvertsKept DEF Load

LEMMA NextIInv == IInv /\ [Next]_vars => IInv'
  <1> SUFFICES ASSUME TypeOK, ConvertsLeads, [Next]_vars
               PROVE  TypeOK' /\ ConvertsLeads'
    BY DEF IInv
  <1>1. CASE UNCHANGED vars
    BY <1>1 DEF vars, database, outbound, TypeOK, ConvertsLeads
  <1>2. ASSUME NEW r \in Requests,
               \/ SendCreateLead(r) \/ SendCreateDeal(r) \/ SendUpdate(r)
               \/ SendClose(r) \/ SendConvert(r) \/ SendDelete(r) \/ SendRemove(r)
        PROVE  TypeOK' /\ ConvertsLeads'
    <2>1. TypeOK'
      BY <1>2, SendTyped
    <2>2. CASE SendCreateLead(r)
      BY <2>1, <2>2, ConvertsKept DEF SendCreateLead, Inserted
    <2>3. CASE SendCreateDeal(r)
      BY <2>1, <2>3, ConvertsKept DEF SendCreateDeal
    <2>4. CASE SendUpdate(r)
      BY <2>1, <2>4, LoadConverts DEF SendUpdate
    <2>5. CASE SendClose(r)
      BY <2>1, <2>5, LoadConverts DEF SendClose
    <2>6. CASE SendConvert(r)
      BY <2>1, <2>6, LoadConverts DEF SendConvert
    <2>7. CASE SendDelete(r)
      BY <2>1, <2>7, LoadConverts DEF SendDelete
    <2>8. CASE SendRemove(r)
      BY <2>1, <2>8, ConvertsKept DEF SendRemove
    <2> QED BY <1>2, <2>1, <2>2, <2>3, <2>4, <2>5, <2>6, <2>7, <2>8
  <1>3. ASSUME NEW r \in Requests, InsertDeal(r) \/ Remove(r)
        PROVE  TypeOK' /\ ConvertsLeads'
    <2>1. TypeOK'
      BY <1>3, InsertTyped, RemoveTyped
    <2>2. ConvertsLeads'
      BY <1>3, ConvertsKept DEF InsertDeal, Remove, Answer, Inserted
    <2> QED BY <2>1, <2>2
  <1>4. ASSUME NEW r \in Requests, Save(r) PROVE TypeOK' /\ ConvertsLeads'
    <2> DEFINE q == request[r]
    <2>1. q = [pc |-> "save", op |-> q.op, id |-> q.id, loaded |-> q.loaded,
               set |-> q.set]
      BY <1>4, Working DEF Save
    <2>2. q.op = "convert" => q.id \in Leads
      BY <1>4 DEF Save, ConvertsLeads
    <2>3. \/ Goto(r, [q EXCEPT !.pc = "refresh"])
          \/ \E a : Goto(r, [pc |-> "answered", answer |-> a])
      BY <1>4 DEF Save, Answer
    <2>4. [q EXCEPT !.pc = "refresh"].op = q.op /\ [q EXCEPT !.pc = "refresh"].id = q.id
      BY <2>1
    <2>5. ConvertsLeads'
      BY <2>2, <2>3, <2>4, ConvertsKept
    <2> QED BY <1>4, <2>5, SaveTyped
  <1>5. ASSUME NEW r \in Requests, Refresh(r) PROVE TypeOK' /\ ConvertsLeads'
    <2> DEFINE q == request[r]
    <2>1. q = [pc |-> "refresh", op |-> q.op, id |-> q.id, loaded |-> q.loaded,
               set |-> q.set]
      BY <1>5, Working DEF Refresh
    <2>2. PICK state : Goto(r, state) /\ state.pc \in {"answered", "fire", "insert"}
      <3>1. CASE Goto(r, [pc |-> "fire", op |-> q.op, id |-> q.id,
                          loaded |-> q.loaded, set |-> row[q.id]])
        BY <3>1
      <3>2. CASE \E a : Goto(r, [pc |-> "answered", answer |-> a])
        BY <3>2
      <3>3. CASE Goto(r, [pc |-> "insert", lead |-> q.id])
        BY <3>3
      <3> QED BY <1>5, <3>1, <3>2, <3>3 DEF Refresh, Answer
    <2>3. ConvertsLeads'
      BY <2>2, ConvertsKept
    <2> QED BY <1>5, <2>3, RefreshTyped
  <1>6. ASSUME NEW r \in Requests, Fire(r) \/ Flush(r) \/ Close(r) \/ Deliver(r)
        PROVE  TypeOK' /\ ConvertsLeads'
    <2>1. TypeOK'
      BY <1>6, EventTyped
    <2>2. CASE Deliver(r)
      BY <2>1, <2>2 DEF Deliver, ConvertsLeads
    <2>3. CASE Fire(r)
      <3>1. request[r] = [pc |-> "fire", op |-> request[r].op, id |-> request[r].id,
                          loaded |-> request[r].loaded, set |-> request[r].set]
        BY <2>3, Working DEF Fire
      <3>2. [request[r] EXCEPT !.pc = "flush"].pc = "flush"
        BY <3>1
      <3> QED BY <2>1, <2>3, <3>2, ConvertsKept DEF Fire, Answer
    <2>4. CASE Flush(r) \/ Close(r)
      BY <2>1, <2>4, ConvertsKept DEF Flush, Close, Answer
    <2> QED BY <1>6, <2>2, <2>3, <2>4
  <1>7. CASE SwitchEndpoint \/ DeleteEndpoint
    BY <1>7, EndpointTyped DEF SwitchEndpoint, DeleteEndpoint, ConvertsLeads
  <1> QED BY <1>1, <1>2, <1>3, <1>4, <1>5, <1>6, <1>7 DEF Next

\* Type correctness of the tables, the requests and the event deliveries. It
\* needs the fact that only leads are converted: the deal that a conversion
\* inserts refers to the row that was converted.
THEOREM TypeCorrect == Spec => []TypeOK
  <1>1. IInv => TypeOK
    BY DEF IInv
  <1> QED BY <1>1, InitIInv, NextIInv, PTL DEF Spec

-----------------------------------------------------------------------------
(* Deletions stand *)

\* Handlers load rows that are not deleted.
LoadedLive ==
    \A r \in Requests : request[r].pc = "save" => ~request[r].loaded.deleted

LiveInv == IInv /\ LoadedLive

LEMMA InitLiveInv == Init => LiveInv
  BY InitIInv DEF Init, LiveInv, LoadedLive, Unsent

\* Only Load puts a request where it will save.
LEMMA LoadedLiveKept ==
  ASSUME TypeOK, LoadedLive, NEW r \in Requests, NEW state, Goto(r, state),
         state.pc = "save" => ~state.loaded.deleted
  PROVE  LoadedLive'
  BY Moved DEF LoadedLive

LEMMA LoadLive ==
  ASSUME TypeOK, LoadedLive, NEW r \in Requests, NEW o, NEW i, NEW assigned,
         Load(r, o, i, assigned)
  PROVE  LoadedLive'
  BY LoadedLiveKept DEF Load, Live

\* The step of a request that was sent, other than by Load.
LEMMA OtherMoves ==
  ASSUME TypeOK, NEW r \in Requests,
         \/ SendCreateLead(r) \/ SendCreateDeal(r) \/ SendRemove(r) \/ InsertDeal(r)
         \/ Save(r) \/ Remove(r) \/ Refresh(r) \/ Fire(r) \/ Flush(r) \/ Close(r)
  PROVE  \E state : Goto(r, state) /\ state.pc # "save"
  <1> DEFINE q == request[r]
  <1>1. \A a : [pc |-> "answered", answer |-> a].pc # "save"
    OBVIOUS
  <1>2. CASE SendCreateLead(r)
    BY <1>2 DEF SendCreateLead, Inserted
  <1>3. CASE SendCreateDeal(r)
    BY <1>3 DEF SendCreateDeal
  <1>4. CASE SendRemove(r)
    BY <1>4 DEF SendRemove
  <1>5. CASE InsertDeal(r)
    <2>1. CASE \E d : Goto(r, Inserted(d, NewDeal(q.lead)))
      BY <2>1 DEF Inserted
    <2>2. CASE Answer(r, "400")
      BY <1>1, <2>2 DEF Answer
    <2> QED BY <1>5, <2>1, <2>2 DEF InsertDeal
  <1>6. CASE Save(r)
    <2>1. q = [pc |-> "save", op |-> q.op, id |-> q.id, loaded |-> q.loaded,
               set |-> q.set]
      BY <1>6, Working DEF Save
    <2>2. [q EXCEPT !.pc = "refresh"].pc = "refresh"
      BY <2>1
    <2> QED BY <1>1, <1>6, <2>2 DEF Save, Answer
  <1>7. CASE Remove(r)
    BY <1>1, <1>7 DEF Remove, Answer
  <1>8. CASE Refresh(r)
    <2>1. CASE Goto(r, [pc |-> "fire", op |-> q.op, id |-> q.id,
                        loaded |-> q.loaded, set |-> row[q.id]])
      BY <2>1
    <2>2. CASE \E a : Goto(r, [pc |-> "answered", answer |-> a])
      BY <2>2
    <2>3. CASE Goto(r, [pc |-> "insert", lead |-> q.id])
      BY <2>3
    <2> QED BY <1>8, <2>1, <2>2, <2>3 DEF Refresh, Answer
  <1>9. CASE Fire(r)
    <2>1. q = [pc |-> "fire", op |-> q.op, id |-> q.id, loaded |-> q.loaded,
               set |-> q.set]
      BY <1>9, Working DEF Fire
    <2>2. [q EXCEPT !.pc = "flush"].pc = "flush"
      BY <2>1
    <2> QED BY <1>1, <1>9, <2>2 DEF Fire, Answer
  <1>10. CASE Flush(r) \/ Close(r)
    BY <1>1, <1>10 DEF Flush, Close, Answer
  <1> QED BY <1>2, <1>3, <1>4, <1>5, <1>6, <1>7, <1>8, <1>9, <1>10

LEMMA LoadSteps ==
  ASSUME NEW r \in Requests,
         SendUpdate(r) \/ SendClose(r) \/ SendConvert(r) \/ SendDelete(r)
  PROVE  \E o, i, assigned : Load(r, o, i, assigned)
  BY DEF SendUpdate, SendClose, SendConvert, SendDelete

LEMMA NextLiveInv == LiveInv /\ [Next]_vars => LiveInv'
  <1> SUFFICES ASSUME TypeOK, LoadedLive, [Next]_vars PROVE LoadedLive'
    BY NextIInv DEF LiveInv, IInv
  <1>1. CASE UNCHANGED vars
    BY <1>1 DEF vars, LoadedLive
  <1>2. ASSUME NEW r \in Requests,
               SendUpdate(r) \/ SendClose(r) \/ SendConvert(r) \/ SendDelete(r)
        PROVE  LoadedLive'
    BY <1>2, LoadSteps, LoadLive
  <1>3. ASSUME NEW r \in Requests,
               \/ SendCreateLead(r) \/ SendCreateDeal(r) \/ SendRemove(r)
               \/ InsertDeal(r) \/ Save(r) \/ Remove(r) \/ Refresh(r)
               \/ Fire(r) \/ Flush(r) \/ Close(r)
        PROVE  LoadedLive'
    <2>1. PICK state : Goto(r, state) /\ state.pc # "save"
      BY <1>3, OtherMoves
    <2> QED BY <2>1, LoadedLiveKept
  <1>4. ASSUME (\E r \in Requests : Deliver(r)) \/ SwitchEndpoint \/ DeleteEndpoint
        PROVE  LoadedLive'
    BY <1>4 DEF Deliver, SwitchEndpoint, DeleteEndpoint, LoadedLive
  <1> QED BY <1>1, <1>2, <1>3, <1>4 DEF Next

\* Which steps write to the tables.
LEMMA WritingSteps ==
  ASSUME [Next]_vars
  PROVE  \/ UNCHANGED database
         \/ \E r \in Requests :
                SendCreateLead(r) \/ InsertDeal(r) \/ Save(r) \/ Remove(r)
  <1>1. CASE UNCHANGED vars
    BY <1>1 DEF vars
  <1>2. ASSUME NEW r \in Requests,
               SendUpdate(r) \/ SendClose(r) \/ SendConvert(r) \/ SendDelete(r)
        PROVE  UNCHANGED database
    BY <1>2, LoadSteps DEF Load
  <1>3. ASSUME NEW r \in Requests,
               \/ SendCreateDeal(r) \/ SendRemove(r) \/ Refresh(r)
               \/ Fire(r) \/ Flush(r) \/ Close(r) \/ Deliver(r)
        PROVE  UNCHANGED database
    BY <1>3 DEF SendCreateDeal, SendRemove, Refresh, Fire, Flush, Close, Deliver
  <1>4. ASSUME SwitchEndpoint \/ DeleteEndpoint
        PROVE  UNCHANGED database
    BY <1>4 DEF SwitchEndpoint, DeleteEndpoint
  <1> QED BY <1>1, <1>2, <1>3, <1>4 DEF Next

LEMMA SavedRow ==
  ASSUME TypeOK, LoadedLive, NEW r \in Requests, Save(r), NEW i \in Ids
  PROVE  ~Undeleted(i)
  <1> DEFINE q == request[r]
             new == Changed(row[q.id], q.loaded, q.set)
  <1>1. q.id \in Ids /\ q.loaded \in Rows /\ q.set \in Rows
    BY Working DEF Save
  <1>2. CASE UNCHANGED row
    BY <1>2 DEF Undeleted
  <1>3. CASE Exists(q.id) /\ Commit(r, q.id, new)
    <2>1. row[q.id] \in Rows
      BY <1>1, <1>3, RowsAreRows
    <2>2. new.deleted = IF q.set.deleted # q.loaded.deleted
                        THEN q.set.deleted ELSE row[q.id].deleted
      BY <1>1, <2>1, ChangedRow
    <2>3. ~q.loaded.deleted
      BY DEF LoadedLive, Save
    <2>4. row[q.id].deleted => new.deleted
      <3>1. CASE q.set.deleted # q.loaded.deleted
        <4>1. q.set.deleted \in BOOLEAN /\ q.loaded.deleted \in BOOLEAN
          BY <1>1 DEF Rows
        <4>2. q.set.deleted = TRUE
          BY <2>3, <3>1, <4>1
        <4> QED BY <2>2, <3>1, <4>2
      <3>2. CASE q.set.deleted = q.loaded.deleted
        BY <2>2, <3>2
      <3> QED BY <3>1, <3>2
    <2>5. row' = [row EXCEPT ![q.id] = new]
      BY <1>3 DEF Commit
    <2>6. i # q.id => row'[i] = row[i]
      BY <2>5 DEF TypeOK
    <2>7. row'[q.id] = new
      BY <1>1, <2>5 DEF TypeOK
    <2>8. row[q.id] # Gone
      BY <1>3 DEF Exists
    <2> HIDE DEF new
    <2> QED BY <2>4, <2>6, <2>7, <2>8 DEF Undeleted
  <1> QED BY <1>2, <1>3 DEF Save, database

LEMMA StepKeepsDeleted == LiveInv /\ [Next]_vars => NoneUndeleted
  <1> SUFFICES ASSUME TypeOK, LoadedLive, [Next]_vars, NEW i \in Ids
               PROVE  ~Undeleted(i)
    BY DEF LiveInv, IInv, NoneUndeleted
  <1>1. CASE UNCHANGED database
    BY <1>1 DEF database, Undeleted
  <1>2. ASSUME NEW r \in Requests, SendCreateLead(r) \/ InsertDeal(r)
        PROVE  ~Undeleted(i)
    <2>1. CASE UNCHANGED database
      BY <2>1 DEF database, Undeleted
    <2>2. CASE \E j \in Ids : \E new : row[j] = None /\ row' = [row EXCEPT ![j] = new]
      <3>2. row[i] = None \/ row'[i] = row[i]
        BY <2>2 DEF TypeOK
      <3> QED BY <3>2, CrmAssumption DEF Undeleted, Exists
    <2> QED BY <1>2, <2>1, <2>2 DEF SendCreateLead, InsertDeal, Commit, Ids
  <1>3. ASSUME NEW r \in Requests, Remove(r) PROVE ~Undeleted(i)
    <2>1. \/ row'[i] = Gone \/ row'[i] = row[i]
          \/ Exists(i) /\ row'[i] = [row[i] EXCEPT !.lead_id = None]
      BY <1>3 DEF Remove
    <2>2. Exists(i) => [row[i] EXCEPT !.lead_id = None].deleted = row[i].deleted
      BY RowsAreRows DEF Rows
    <2> QED BY <2>1, <2>2 DEF Undeleted, Exists
  <1>4. ASSUME NEW r \in Requests, Save(r) PROVE ~Undeleted(i)
    BY <1>4, SavedRow
  <1> QED BY <1>1, <1>2, <1>3, <1>4, WritingSteps

\* However requests interleave, deleted leads and deals stay deleted: handlers
\* load rows that are not deleted and write only the columns they changed.
THEOREM DeletionsStand == Spec => DeletionStands
  <1> QED BY InitLiveInv, NextLiveInv, StepKeepsDeleted, PTL DEF Spec, DeletionStands

-----------------------------------------------------------------------------
(* No event is delivered *)

\* No record of a delivery is ever committed.
NeverCommitted ==
    /\ posted = {}
    /\ \A r \in Requests : delivery[r] # "committed"

LEMMA NextPostInv == IInv /\ NeverCommitted /\ [Next]_vars => NeverCommitted'
  <1> SUFFICES ASSUME TypeOK, NeverCommitted, [Next]_vars PROVE NeverCommitted'
    BY DEF IInv
  <1>1. CASE UNCHANGED <<posted, delivery>>
    BY <1>1 DEF NeverCommitted
  <1>2. ASSUME NEW r \in Requests, Flush(r) \/ Close(r) \/ Deliver(r)
        PROVE  NeverCommitted'
    <2>1. CASE Flush(r)
      BY <2>1 DEF Flush, NeverCommitted, TypeOK
    <2>2. CASE Close(r)
      BY <2>2 DEF Close, NeverCommitted, TypeOK
    <2>3. CASE Deliver(r)
      BY <2>3 DEF Deliver, NeverCommitted, TypeOK
    <2> QED BY <1>2, <2>1, <2>2, <2>3
  <1>3. ASSUME NEW r \in Requests,
               SendUpdate(r) \/ SendClose(r) \/ SendConvert(r) \/ SendDelete(r)
        PROVE  UNCHANGED <<posted, delivery>>
    BY <1>3, LoadSteps DEF Load, outbound
  <1>4. ASSUME NEW r \in Requests,
               \/ SendCreateLead(r) \/ SendCreateDeal(r) \/ SendRemove(r)
               \/ InsertDeal(r) \/ Save(r) \/ Remove(r) \/ Refresh(r) \/ Fire(r)
        PROVE  UNCHANGED <<posted, delivery>>
    BY <1>4 DEF SendCreateLead, SendCreateDeal, SendRemove, InsertDeal, Save,
                Remove, Refresh, Fire, outbound
  <1>5. ASSUME SwitchEndpoint \/ DeleteEndpoint
        PROVE  UNCHANGED <<posted, delivery>>
    BY <1>5 DEF SwitchEndpoint, DeleteEndpoint
  <1>6. UNCHANGED vars => UNCHANGED <<posted, delivery>>
    BY DEF vars, outbound
  <1> QED BY <1>1, <1>2, <1>3, <1>4, <1>5, <1>6 DEF Next

NothingPosted == posted = {}

\* No outbound event reaches the endpoint, whatever the requests and their
\* interleaving: fire_webhook_event flushes the record of a delivery into the
\* session of the request, which ends without a commit, and the task looks
\* the record up in a session of its own.
THEOREM NoEventIsPosted == Spec => []NothingPosted
  <1> DEFINE Inv == IInv /\ NeverCommitted
  <1>1. Init => Inv
    BY InitIInv DEF Init, NeverCommitted
  <1>2. Inv /\ [Next]_vars => Inv'
    BY NextIInv, NextPostInv
  <1>3. Inv => NothingPosted
    BY DEF NeverCommitted, NothingPosted
  <1> HIDE DEF Inv
  <1> QED BY <1>1, <1>2, <1>3, PTL DEF Spec

-----------------------------------------------------------------------------
(* Events report facts *)

RowsStaged == \A d \in Deals : Exists(d) => row[d].state \in staged[d]

\* What a request about a deal knows of the stages that the deal has had:
\* the one it loaded, and after its commit the one that it will report.
Knows(q) ==
    q.id \in Deals =>
        /\ q.pc = "save" =>
               /\ q.loaded.state \in staged[q.id]
               /\ q.op \in {"win", "lose"} => q.set.state = Reported(q)
        /\ q.pc = "refresh" /\ q.op \in {"win", "lose"} => Reported(q) \in staged[q.id]
        /\ q.pc \in {"fire", "flush"} => Reported(q) \in staged[q.id]

Works(q) == q.pc \in {"save", "refresh", "fire", "flush"}

RequestsKnow == \A r \in Requests : Works(request[r]) => Knows(request[r])

FactInv == IInv /\ RowsStaged /\ RequestsKnow /\ EventsReportFacts

LEMMA InitFactInv == Init => FactInv
  BY InitIInv DEF Init, FactInv, RowsStaged, RequestsKnow, Works, EventsReportFacts,
                  Exists, Unsent, Ids

\* The history of a deal only grows, and it has the stage that a commit sets.
LEMMA CommitStages ==
  ASSUME TypeOK, RowsStaged, NEW r, NEW i \in Ids, NEW new, Commit(r, i, new)
  PROVE  /\ RowsStaged'
         /\ \A d \in Deals : staged[d] \subseteq staged'[d]
         /\ i \in Deals => new.state \in staged'[i]
  <1>1. \A d \in Deals :
            /\ staged[d] \subseteq staged'[d]
            /\ d = i => row'[d] = new /\ new.state \in staged'[d]
            /\ d # i => row'[d] = row[d]
    BY DEF Commit, TypeOK, Ids
  <1> QED BY <1>1 DEF RowsStaged, Exists

LEMMA StagesGrow ==
  ASSUME TypeOK, RowsStaged, [Next]_vars
  PROVE  RowsStaged' /\ \A d \in Deals : staged[d] \subseteq staged'[d]
  <1>1. CASE UNCHANGED database
    BY <1>1 DEF database, RowsStaged, Exists
  <1>2. ASSUME NEW r \in Requests, SendCreateLead(r)
        PROVE  RowsStaged' /\ \A d \in Deals : staged[d] \subseteq staged'[d]
    BY <1>2, CommitStages DEF SendCreateLead, Ids
  <1>3. ASSUME NEW r \in Requests, InsertDeal(r)
        PROVE  RowsStaged' /\ \A d \in Deals : staged[d] \subseteq staged'[d]
    <2>1. CASE \E d \in Deals : Commit(r, d, NewDeal(request[r].lead))
      BY <2>1, CommitStages DEF Ids
    <2> QED BY <1>1, <1>3, <2>1 DEF InsertDeal
  <1>4. ASSUME NEW r \in Requests, Save(r)
        PROVE  RowsStaged' /\ \A d \in Deals : staged[d] \subseteq staged'[d]
    <2> DEFINE q == request[r]
               new == Changed(row[q.id], q.loaded, q.set)
    <2>1. q.id \in Ids
      BY <1>4, Working DEF Save
    <2>2. UNCHANGED database \/ Commit(r, q.id, new)
      BY <1>4 DEF Save
    <2> HIDE DEF new
    <2> QED BY <1>1, <2>1, <2>2, CommitStages
  <1>5. ASSUME NEW r \in Requests, Remove(r)
        PROVE  RowsStaged' /\ \A d \in Deals : staged[d] \subseteq staged'[d]
    <2>1. \A d \in Deals : \/ row'[d] = Gone \/ row'[d] = row[d]
                           \/ Exists(d) /\ row'[d] = [row[d] EXCEPT !.lead_id = None]
      BY <1>5 DEF Remove, Ids
    <2>2. \A d \in Deals :
              Exists(d) => [row[d] EXCEPT !.lead_id = None].state = row[d].state
      BY RowsAreRows DEF Rows, Ids
    <2>3. staged' = staged
      BY <1>5 DEF Remove
    <2> QED BY <2>1, <2>2, <2>3 DEF RowsStaged, Exists
  <1> QED BY <1>1, <1>2, <1>3, <1>4, <1>5, WritingSteps

\* What a request knows stays known.
LEMMA KnownStays ==
  ASSUME NEW q, Knows(q), \A d \in Deals : staged[d] \subseteq staged'[d]
  PROVE  Knows(q)'
  <1> USE DEF Knows
  <1> QED BY DEF Reported

\* Only the request that moves may have to know more.
LEMMA RequestsKnowMore ==
  ASSUME TypeOK, RequestsKnow, \A d \in Deals : staged[d] \subseteq staged'[d],
         NEW r \in Requests, NEW state, Goto(r, state),
         Works(state) => Knows(state)'
  PROVE  RequestsKnow'
  <1>1. ASSUME NEW p \in Requests, Works(request'[p]) PROVE Knows(request[p])'
    <2>1. CASE p = r
      BY <1>1, <2>1, Moved
    <2>2. CASE p # r
      <3>1. request'[p] = request[p]
        BY <2>2, Moved
      <3>2. Knows(request[p])
        BY <1>1, <3>1 DEF RequestsKnow
      <3> QED BY <3>1, <3>2 DEF Knows, Reported
    <2> QED BY <2>1, <2>2
  <1> QED BY <1>1 DEF RequestsKnow, Works

LEMMA LoadKnows ==
  ASSUME TypeOK, RowsStaged, RequestsKnow,
         \A d \in Deals : staged[d] \subseteq staged'[d],
         NEW r \in Requests, NEW o, NEW i \in Ids, NEW assigned,
         Load(r, o, i, assigned),
         o = "win" => assigned.state = "CLOSED_WON",
         o = "lose" => assigned.state = "CLOSED_LOST"
  PROVE  RequestsKnow'
  <1>0. PICK state : state = [pc |-> "save", op |-> o, id |-> i, loaded |-> row[i],
                              set |-> assigned]
    OBVIOUS
  <1>1. i \in Deals => row[i].state \in staged'[i]
    BY DEF Load, Live, RowsStaged
  <1>2. Knows(state)'
    BY <1>0, <1>1 DEF Knows, Reported
  <1>3. Goto(r, state)
    BY <1>0 DEF Load
  <1> QED BY <1>2, <1>3, RequestsKnowMore

LEMMA LoadedKnows ==
  ASSUME TypeOK, RowsStaged, RequestsKnow,
         \A d \in Deals : staged[d] \subseteq staged'[d],
         NEW r \in Requests,
         SendUpdate(r) \/ SendClose(r) \/ SendConvert(r) \/ SendDelete(r)
  PROVE  RequestsKnow'
  <1>1. CASE SendUpdate(r) \/ SendConvert(r) \/ SendDelete(r)
    <2>0. PICK o \in {"edit", "update", "convert", "mark", "delete"}, i \in Ids :
              \E assigned : Load(r, o, i, assigned)
      BY <1>1 DEF SendUpdate, SendConvert, SendDelete, Ids
    <2>1. PICK assigned : Load(r, o, i, assigned)
      BY <2>0
    <2> QED BY <2>1, LoadKnows
  <1>2. CASE SendClose(r)
    <2>1. PICK d \in Deals :
            \/ Load(r, "win", d, Assigned(row[d], "CLOSED_WON"))
            \/ Load(r, "lose", d, Assigned(row[d], "CLOSED_LOST"))
      BY <1>2 DEF SendClose
    <2>2. row[d] \in Rows /\ d \in Ids
      BY <2>1, RowsAreRows DEF Load, Live, Ids
    <2>3. /\ Assigned(row[d], "CLOSED_WON").state = "CLOSED_WON"
          /\ Assigned(row[d], "CLOSED_LOST").state = "CLOSED_LOST"
      <3>1. "CLOSED_WON" # None /\ "CLOSED_LOST" # None
        BY CrmAssumption DEF Stages
      <3> QED BY <2>2, <3>1 DEF Assigned, Rows
    <2> QED BY <2>1, <2>2, <2>3, LoadKnows
  <1> QED BY <1>1, <1>2

LEMMA SavedKnows ==
  ASSUME TypeOK, RowsStaged, RequestsKnow,
         \A d \in Deals : staged[d] \subseteq staged'[d],
         NEW r \in Requests, Save(r)
  PROVE  RequestsKnow'
  <1> DEFINE q == request[r]
             new == Changed(row[q.id], q.loaded, q.set)
  <1>0. PICK next : next = [pc |-> "refresh", op |-> q.op, id |-> q.id,
                            loaded |-> q.loaded, set |-> q.set]
    OBVIOUS
  <1>1. /\ q.id \in Ids /\ q.loaded \in Rows /\ q.set \in Rows
        /\ q = [pc |-> "save", op |-> q.op, id |-> q.id, loaded |-> q.loaded,
                set |-> q.set]
    BY Working DEF Save
  <1>2. CASE \E a : Goto(r, [pc |-> "answered", answer |-> a])
    BY <1>2, RequestsKnowMore DEF Works
  <1>3. CASE Exists(q.id) /\ Commit(r, q.id, new) /\ Goto(r, [q EXCEPT !.pc = "refresh"])
    <2>1. Goto(r, next)
      <3>1. [q EXCEPT !.pc = "refresh"] = next
        BY <1>0, <1>1
      <3> QED BY <1>3, <3>1
    <2>2. row[q.id] \in Rows
      BY <1>1, <1>3, RowsAreRows
    <2>3. new.state = IF q.set.state # q.loaded.state THEN q.set.state
                      ELSE row[q.id].state
      BY <1>1, <2>2, ChangedRow
    <2>4. q.id \in Deals => new.state \in staged'[q.id]
      <3> HIDE DEF new
      <3> QED BY <1>1, <1>3, CommitStages
    <2>5. Knows(q)
      BY DEF RequestsKnow, Save, Works
    <2>6. q.id \in Deals => q.loaded.state \in staged'[q.id]
      BY <2>5 DEF Knows, Save
    <2>7. (q.id \in Deals /\ q.op \in {"win", "lose"}) => q.set.state = Reported(q)
      BY <2>5 DEF Knows, Save
    <2>8. Reported(next) = Reported(q)
      BY <1>0 DEF Reported
    <2>9. (q.id \in Deals /\ q.op \in {"win", "lose"}) => Reported(next) \in staged'[q.id]
      BY <2>3, <2>4, <2>6, <2>7, <2>8
    <2>10. Knows(next)'
      BY <1>0, <2>9 DEF Knows, Reported
    <2> QED BY <2>1, <2>10, RequestsKnowMore
  <1> QED BY <1>2, <1>3 DEF Save, Answer

LEMMA RefreshedKnows ==
  ASSUME TypeOK, RowsStaged, RequestsKnow,
         \A d \in Deals : staged[d] \subseteq staged'[d],
         NEW r \in Requests, Refresh(r)
  PROVE  RequestsKnow'
  <1> DEFINE q == request[r]
  <1>0. PICK next : next = [pc |-> "fire", op |-> q.op, id |-> q.id,
                            loaded |-> q.loaded, set |-> row[q.id]]
    OBVIOUS
  <1>1. CASE \E a : Goto(r, [pc |-> "answered", answer |-> a])
    BY <1>1, RequestsKnowMore DEF Works
  <1>2. CASE Goto(r, [pc |-> "insert", lead |-> q.id])
    BY <1>2, RequestsKnowMore DEF Works
  <1>3. CASE Exists(q.id) /\ Goto(r, next)
    <2>1. Knows(q)
      BY DEF RequestsKnow, Refresh, Works
    <2>2. (q.id \in Deals /\ q.op \in {"win", "lose"}) => Reported(q) \in staged[q.id]
      BY <2>1 DEF Knows, Refresh
    <2>3. q.id \in Deals => row[q.id].state \in staged[q.id]
      BY <1>3 DEF RowsStaged
    <2>4. Reported(next) = IF q.op \in {"win", "lose"} THEN Reported(q)
                           ELSE row[q.id].state
      BY <1>0 DEF Reported
    <2>5. q.id \in Deals => Reported(next) \in staged'[q.id]
      BY <2>2, <2>3, <2>4
    <2>6. Knows(next)'
      BY <1>0, <2>5 DEF Knows, Reported
    <2> QED BY <1>3, <2>6, RequestsKnowMore
  <1> QED BY <1>0, <1>1, <1>2, <1>3 DEF Refresh, Answer

LEMMA FiredKnows ==
  ASSUME TypeOK, RequestsKnow, \A d \in Deals : staged[d] \subseteq staged'[d],
         NEW r \in Requests, Fire(r)
  PROVE  RequestsKnow'
  <1> DEFINE q == request[r]
  <1>0. PICK next : next = [pc |-> "flush", op |-> q.op, id |-> q.id,
                            loaded |-> q.loaded, set |-> q.set]
    OBVIOUS
  <1>1. q = [pc |-> "fire", op |-> q.op, id |-> q.id, loaded |-> q.loaded,
             set |-> q.set]
    BY Working DEF Fire
  <1>2. CASE Answer(r, "done")
    BY <1>2, RequestsKnowMore DEF Works, Answer
  <1>3. CASE Goto(r, [q EXCEPT !.pc = "flush"])
    <2>1. [q EXCEPT !.pc = "flush"] = next
      BY <1>0, <1>1
    <2>2. Knows(q)
      BY DEF RequestsKnow, Fire, Works
    <2>3. q.id \in Deals => Reported(q) \in staged'[q.id]
      BY <2>2 DEF Knows, Fire
    <2>4. Reported(next) = Reported(q)
      BY <1>0 DEF Reported
    <2>5. Knows(next)'
      BY <1>0, <2>3, <2>4 DEF Knows, Reported
    <2>6. Goto(r, next)
      BY <1>3, <2>1
    <2> QED BY <2>5, <2>6, RequestsKnowMore
  <1> QED BY <1>2, <1>3 DEF Fire

LEMMA NextRequestsKnow ==
  ASSUME TypeOK, RowsStaged, RequestsKnow,
         \A d \in Deals : staged[d] \subseteq staged'[d], [Next]_vars
  PROVE  RequestsKnow'
  <1>1. CASE request' = request
    BY <1>1, KnownStays DEF RequestsKnow, Works
  <1>2. ASSUME NEW r \in Requests,
               SendUpdate(r) \/ SendClose(r) \/ SendConvert(r) \/ SendDelete(r)
        PROVE  RequestsKnow'
    BY <1>2, LoadedKnows
  <1>3. ASSUME NEW r \in Requests, SendCreateDeal(r) \/ SendRemove(r)
        PROVE  RequestsKnow'
    BY <1>3, RequestsKnowMore DEF SendCreateDeal, SendRemove, Works
  <1>4. ASSUME NEW r \in Requests, SendCreateLead(r) \/ InsertDeal(r)
        PROVE  RequestsKnow'
    <2>1. CASE \E i, new : Goto(r, Inserted(i, new))
      <3>1. PICK i, new : Goto(r, Inserted(i, new))
        BY <2>1
      <3>2. Knows(Inserted(i, new))'
        BY DEF Inserted, Knows
      <3> QED BY <3>1, <3>2, RequestsKnowMore
    <2>2. CASE Answer(r, "400")
      BY <2>2, RequestsKnowMore DEF Works, Answer
    <2> QED BY <1>4, <2>1, <2>2 DEF SendCreateLead, InsertDeal
  <1>5. ASSUME NEW r \in Requests, Save(r) \/ Refresh(r) \/ Fire(r) PROVE RequestsKnow'
    BY <1>5, SavedKnows, RefreshedKnows, FiredKnows
  <1>6. ASSUME NEW r \in Requests, Remove(r) \/ Flush(r) \/ Close(r) PROVE RequestsKnow'
    <2>1. PICK state : Goto(r, state) /\ state.pc \in {"answered", "close"}
      BY <1>6 DEF Remove, Flush, Close, Answer
    <2> QED BY <2>1, RequestsKnowMore DEF Works
  <1>7. (\E r \in Requests : Deliver(r)) \/ SwitchEndpoint \/ DeleteEndpoint
            => request' = request
    BY DEF Deliver, SwitchEndpoint, DeleteEndpoint
  <1>8. UNCHANGED vars => request' = request
    BY DEF vars
  <1> QED BY <1>1, <1>2, <1>3, <1>4, <1>5, <1>6, <1>7, <1>8 DEF Next

\* What is told changes only when an event is flushed.
LEMMA ToldSteps ==
  ASSUME [Next]_vars
  PROVE  told' = told \/ \E r \in Requests : Flush(r)
  <1>1. ASSUME NEW r \in Requests,
               SendUpdate(r) \/ SendClose(r) \/ SendConvert(r) \/ SendDelete(r)
        PROVE  told' = told
    BY <1>1, LoadSteps DEF Load, outbound
  <1>2. ASSUME NEW r \in Requests,
               \/ SendCreateLead(r) \/ SendCreateDeal(r) \/ SendRemove(r)
               \/ InsertDeal(r) \/ Save(r) \/ Remove(r) \/ Refresh(r) \/ Fire(r)
        PROVE  told' = told
    BY <1>2 DEF SendCreateLead, SendCreateDeal, SendRemove, InsertDeal, Save,
                Remove, Refresh, Fire, outbound
  <1>3. ASSUME NEW r \in Requests, Close(r) \/ Deliver(r) PROVE told' = told
    BY <1>3 DEF Close, Deliver
  <1>4. SwitchEndpoint \/ DeleteEndpoint \/ UNCHANGED vars => told' = told
    BY DEF SwitchEndpoint, DeleteEndpoint, vars, outbound
  <1> QED BY <1>1, <1>2, <1>3, <1>4 DEF Next

LEMMA NextFactInv == FactInv /\ [Next]_vars => FactInv'
  <1> SUFFICES ASSUME IInv, RowsStaged, RequestsKnow, EventsReportFacts, [Next]_vars
               PROVE  FactInv'
    BY DEF FactInv
  <1>1. TypeOK
    BY DEF IInv
  <1>2. RowsStaged' /\ \A d \in Deals : staged[d] \subseteq staged'[d]
    BY <1>1, StagesGrow
  <1>3. RequestsKnow'
    BY <1>1, <1>2, NextRequestsKnow
  <1>4. CASE told' = told
    BY <1>2, <1>3, <1>4, NextIInv DEF EventsReportFacts, FactInv
  <1>5. ASSUME NEW r \in Requests, Flush(r) PROVE EventsReportFacts'
    <2> DEFINE q == request[r]
    <2>1. Knows(q)
      BY <1>5 DEF RequestsKnow, Flush, Works
    <2>2. q.id \in Deals => Reported(q) \in staged[q.id]
      BY <1>5, <2>1 DEF Knows, Flush
    <2>3. \A d \in Deals : \/ told'[d] = told[d]
                           \/ d = q.id /\ told'[d] = Reported(q)
      BY <1>1, <1>5 DEF Flush, TypeOK
    <2> QED BY <1>2, <2>2, <2>3 DEF EventsReportFacts
  <1> QED BY <1>2, <1>3, <1>4, <1>5, ToldSteps, NextIInv DEF FactInv

\* An event reports a stage that the deal has had, however requests
\* interleave. The invariant follows a request from the row it loads, whose
\* stage was committed, over its own commit to the stage that it reports.
THEOREM EventsAreFacts == Spec => []EventsReportFacts
  <1>1. FactInv => EventsReportFacts
    BY DEF FactInv
  <1> QED BY <1>1, InitFactInv, NextFactInv, PTL DEF Spec

-----------------------------------------------------------------------------
(* Errors half way *)

\* A request has not committed before its first statement that does.
NotYetWritten ==
    \A r \in Requests :
        request[r].pc \in {"unsent", "save", "remove"} => r \notin wrote

\* The row that a request works on was inserted, and so was the lead of the
\* deal that it is to insert.
Inserting(q, l) == q.pc = "insert" /\ q.lead = l

RowsThere ==
    \A r \in Requests :
        /\ Works(request[r]) => row[request[r].id] # None
        /\ \A l \in Leads : Inserting(request[r], l) => row[l] # None

ErrorInv == IInv /\ NotYetWritten /\ RowsThere /\ ErrorsNeedRemovals

LEMMA InitErrorInv == Init => ErrorInv
  <1> SUFFICES ASSUME Init PROVE NotYetWritten /\ RowsThere /\ ErrorsNeedRemovals
    BY InitIInv DEF ErrorInv
  <1>1. \A r \in Requests : request[r].pc = "unsent" /\ r \notin wrote
    BY DEF Init, Unsent
  <1> QED
    BY <1>1 DEF NotYetWritten, RowsThere, Works, Inserting, ErrorsNeedRemovals,
                FailedMidway

\* What a write makes of the rows.
LEMMA CommitStays ==
  ASSUME TypeOK, NEW r, NEW i \in Ids, NEW new \in Rows, Commit(r, i, new),
         row[i] # Gone
  PROVE  /\ \A j \in Ids : row[j] # None => row'[j] # None
         /\ \A j \in Ids : row[j] = Gone => row'[j] = Gone
         /\ row'[i] # None
  <1>1. \A j \in Ids : row'[j] = IF j = i THEN new ELSE row[j]
    BY DEF Commit, TypeOK
  <1>2. new # None
    BY CrmAssumption
  <1> QED BY <1>1, <1>2

LEMMA SaveChanges ==
  ASSUME TypeOK, NEW r \in Requests, Save(r)
  PROVE  Changed(row[request[r].id], request[r].loaded, request[r].set) \in Rows
         \/ UNCHANGED database
  BY Working, RowsAreRows, ChangedRow DEF Save

\* No row goes back to before its insertion, and removals are for good.
LEMMA RowsStay ==
  ASSUME TypeOK, [Next]_vars
  PROVE  /\ \A i \in Ids : row[i] # None => row'[i] # None
         /\ Removals => Removals'
  <1> DEFINE Stay == /\ \A i \in Ids : row[i] # None => row'[i] # None
                     /\ \A i \in Ids : row[i] = Gone => row'[i] = Gone
  <1>1. Stay
    <2>1. CASE UNCHANGED database
      BY <2>1 DEF database
    <2>2. ASSUME NEW r \in Requests, SendCreateLead(r) PROVE Stay
      <3>1. PICK l \in Leads : row[l] = None /\ Commit(r, l, NewLead)
        BY <2>2 DEF SendCreateLead
      <3> QED BY <3>1, NewRows, CommitStays, CrmAssumption DEF Ids
    <2>3. ASSUME NEW r \in Requests, InsertDeal(r) PROVE Stay
      <3>1. CASE \E d \in Deals : row[d] = None /\ Commit(r, d, NewDeal(request[r].lead))
        <4>1. PICK d \in Deals : row[d] = None /\ Commit(r, d, NewDeal(request[r].lead))
          BY <3>1
        <4>2. request[r].lead \in Leads \cup {None}
          BY <2>3 DEF TypeOK, RequestStates, InsertDeal, Unsent
        <4> QED BY <4>1, <4>2, NewRows, CommitStays, CrmAssumption DEF Ids
      <3> QED BY <2>1, <2>3, <3>1 DEF InsertDeal
    <2>4. ASSUME NEW r \in Requests, Save(r) PROVE Stay
      <3> DEFINE q == request[r]
                 new == Changed(row[q.id], q.loaded, q.set)
      <3>1. CASE Exists(q.id) /\ Commit(r, q.id, new)
        <4>1. q.id \in Ids /\ q.loaded \in Rows /\ q.set \in Rows
          BY <2>4, Working DEF Save
        <4>2. new \in Rows
          BY <3>1, <4>1, RowsAreRows, ChangedRow
        <4> HIDE DEF new
        <4> QED BY <3>1, <4>1, <4>2, CommitStays DEF Exists
      <3> QED BY <2>1, <2>4, <3>1 DEF Save
    <2>5. ASSUME NEW r \in Requests, Remove(r) PROVE Stay
      <3>1. \A i \in Ids : \/ row'[i] = Gone
                           \/ row'[i] = row[i]
                           \/ Exists(i) /\ row'[i] = [row[i] EXCEPT !.lead_id = None]
        BY <2>5 DEF Remove
      <3>2. \A i \in Ids : Exists(i) => [row[i] EXCEPT !.lead_id = None] \in Rows
        BY RowsAreRows DEF Rows
      <3> QED BY <3>1, <3>2, CrmAssumption DEF Exists
    <2> QED BY <2>1, <2>2, <2>3, <2>4, <2>5, WritingSteps
  <1>2. endpoint = "deleted" => endpoint' = "deleted"
    <2>1. ASSUME NEW r \in Requests,
                 SendUpdate(r) \/ SendClose(r) \/ SendConvert(r) \/ SendDelete(r)
          PROVE  UNCHANGED outbound
      BY <2>1, LoadSteps DEF Load
    <2>2. CASE UNCHANGED endpoint
      BY <2>2
    <2> QED BY <2>1, <2>2
          DEF Next, vars, outbound, SendCreateLead, SendCreateDeal, InsertDeal,
              SendRemove, Save, Remove, Refresh, Fire, Flush, Close, Deliver,
              SwitchEndpoint, DeleteEndpoint
  <1> QED BY <1>1, <1>2 DEF Removals

\* What a step of request r makes of the invariant: it writes when it should,
\* works on rows that are there, and fails by a removal.
Sound(r) ==
    /\ request'[r].pc \in {"unsent", "save", "remove"} => r \notin wrote'
    /\ Works(request'[r]) => row'[request'[r].id] # None
    /\ \A l \in Leads : Inserting(request'[r], l) => row'[l] # None
    /\ FailedMidway(r)' => Removals'

LEMMA SoundMove ==
  ASSUME TypeOK, NEW r \in Requests, NEW state, Goto(r, state),
         state.pc \in {"unsent", "save", "remove"} => r \notin wrote',
         Works(state) => row'[state.id] # None,
         \A l \in Leads : Inserting(state, l) => row'[l] # None,
         state.pc # "answered"
  PROVE  Sound(r)
  BY Moved DEF Sound, FailedMidway

LEMMA SoundAnswer ==
  ASSUME TypeOK, NEW r \in Requests, NEW a, Answer(r, a),
         r \in wrote' /\ a # "done" => Removals'
  PROVE  Sound(r)
  BY Moved DEF Answer, Sound, FailedMidway, Works, Inserting

LEMMA LoadSound ==
  ASSUME ErrorInv, NEW r \in Requests, NEW o, NEW i \in Ids, NEW assigned,
         Load(r, o, i, assigned)
  PROVE  Sound(r)
  <1>1. r \notin wrote' /\ row'[i] # None
    BY DEF Load, Send, ErrorInv, NotYetWritten, database, Live, Exists
  <1> QED BY <1>1, SoundMove DEF Load, ErrorInv, IInv, Works, Inserting

LEMMA LoadsSound ==
  ASSUME ErrorInv, NEW r \in Requests,
         SendUpdate(r) \/ SendClose(r) \/ SendConvert(r) \/ SendDelete(r)
  PROVE  Sound(r)
  <1>1. CASE SendUpdate(r)
    BY <1>1, LoadSound DEF SendUpdate
  <1>2. CASE SendClose(r)
    <2>1. PICK d \in Deals : \E o, assigned : Load(r, o, d, assigned)
      BY <1>2 DEF SendClose
    <2>2. d \in Ids
      BY DEF Ids
    <2> QED BY <2>1, <2>2, LoadSound
  <1>3. CASE SendConvert(r)
    <2>1. PICK l \in Leads : \E o, assigned : Load(r, o, l, assigned)
      BY <1>3 DEF SendConvert
    <2>2. l \in Ids
      BY DEF Ids
    <2> QED BY <2>1, <2>2, LoadSound
  <1>4. CASE SendDelete(r)
    BY <1>4, LoadSound DEF SendDelete
  <1> QED BY <1>1, <1>2, <1>3, <1>4

LEMMA FirstSound ==
  ASSUME ErrorInv, NEW r \in Requests,
         SendCreateLead(r) \/ SendCreateDeal(r) \/ SendRemove(r)
  PROVE  Sound(r)
  <1>0. TypeOK
    BY DEF ErrorInv, IInv
  <1>1. CASE SendCreateLead(r)
    <2>1. PICK l \in Leads : /\ row[l] = None /\ Commit(r, l, NewLead)
                             /\ Goto(r, Inserted(l, NewLead))
      BY <1>1 DEF SendCreateLead
    <2>2. row'[l] # None
      BY <1>0, <2>1, NewRows, CommitStays, CrmAssumption DEF Ids
    <2>3. /\ Inserted(l, NewLead).id = l
          /\ Inserted(l, NewLead).pc = "refresh"
      BY DEF Inserted
    <2> QED BY <1>0, <2>1, <2>2, <2>3, SoundMove DEF Works, Inserting
  <1>2. CASE SendCreateDeal(r)
    <2>1. PICK m \in Leads \cup {None} : /\ m # None => Live(m)
                                         /\ Goto(r, [pc |-> "insert", lead |-> m])
      BY <1>2 DEF SendCreateDeal
    <2>2. \A l \in Leads : l = m => row'[l] # None
      BY <1>2, <2>1, CrmAssumption DEF SendCreateDeal, database, Live, Exists
    <2> QED BY <1>0, <2>1, <2>2, SoundMove DEF Works, Inserting
  <1>3. CASE SendRemove(r)
    <2>1. PICK i \in Ids : Goto(r, [pc |-> "remove", id |-> i])
      BY <1>3 DEF SendRemove
    <2>2. r \notin wrote'
      BY <1>3 DEF SendRemove, Send, database, ErrorInv, NotYetWritten
    <2> QED BY <1>0, <2>1, <2>2, SoundMove DEF Works, Inserting
  <1> QED BY <1>1, <1>2, <1>3

LEMMA InsertSound ==
  ASSUME ErrorInv, NEW r \in Requests, InsertDeal(r)
  PROVE  Sound(r)
  <1> DEFINE m == request[r].lead
  <1>0. TypeOK /\ m \in Leads \cup {None}
    BY DEF ErrorInv, IInv, TypeOK, RequestStates, InsertDeal, Unsent
  <1>1. CASE \E d \in Deals : /\ row[d] = None /\ Commit(r, d, NewDeal(m))
                              /\ Goto(r, Inserted(d, NewDeal(m)))
    <2>1. PICK d \in Deals : /\ row[d] = None /\ Commit(r, d, NewDeal(m))
                             /\ Goto(r, Inserted(d, NewDeal(m)))
      BY <1>1
    <2>2. row'[d] # None
      BY <1>0, <2>1, NewRows, CommitStays, CrmAssumption DEF Ids
    <2>3. Inserted(d, NewDeal(m)).id = d /\ Inserted(d, NewDeal(m)).pc = "refresh"
      BY DEF Inserted
    <2> QED BY <1>0, <2>1, <2>2, <2>3, SoundMove DEF Works, Inserting
  <1>2. CASE ~Referable(m) /\ Answer(r, "400") /\ UNCHANGED database
    <2>1. m \in Leads /\ row[m] # None /\ ~Exists(m)
      BY <1>0, <1>2 DEF Referable, ErrorInv, RowsThere, Inserting, InsertDeal
    <2>2. Removals'
      BY <1>2, <2>1 DEF Exists, database, Removals, Ids
    <2> QED BY <1>0, <1>2, <2>2, SoundAnswer
  <1> QED BY <1>1, <1>2 DEF InsertDeal

LEMMA SaveSound ==
  ASSUME ErrorInv, [Next]_vars, NEW r \in Requests, Save(r)
  PROVE  Sound(r)
  <1> DEFINE q == request[r]
  <1>0. TypeOK
    BY DEF ErrorInv, IInv
  <1>1. CASE Goto(r, [q EXCEPT !.pc = "refresh"])
    <2>1. q = [pc |-> "save", op |-> q.op, id |-> q.id, loaded |-> q.loaded,
               set |-> q.set]
      BY <1>0, Working DEF Save
    <2>2. /\ [q EXCEPT !.pc = "refresh"].pc = "refresh"
          /\ [q EXCEPT !.pc = "refresh"].id = q.id
      BY <2>1
    <2>3. q.id \in Ids /\ row[q.id] # None
      BY <1>0, Working DEF Save, ErrorInv, RowsThere, Works
    <2>4. row'[q.id] # None
      BY <1>0, <2>3, RowsStay
    <2> QED BY <1>0, <1>1, <2>2, <2>4, SoundMove DEF Works, Inserting
  <1>2. CASE UNCHANGED database /\ \E a : Answer(r, a)
    <2>1. r \notin wrote'
      BY <1>2 DEF Save, database, ErrorInv, NotYetWritten
    <2> QED BY <1>0, <1>2, <2>1, SoundAnswer
  <1> QED BY <1>1, <1>2 DEF Save

LEMMA RefreshSound ==
  ASSUME ErrorInv, NEW r \in Requests, Refresh(r)
  PROVE  Sound(r)
  <1> DEFINE q == request[r]
  <1>0. /\ TypeOK /\ q.id \in Ids /\ row[q.id] # None
        /\ UNCHANGED database
    BY Working DEF ErrorInv, IInv, Refresh, RowsThere, Works
  <1>1. CASE ~Exists(q.id) /\ Answer(r, "500")
    <2>1. Removals'
      BY <1>0, <1>1 DEF Exists, database, Removals
    <2> QED BY <1>0, <1>1, <2>1, SoundAnswer
  <1>2. CASE Goto(r, [pc |-> "fire", op |-> q.op, id |-> q.id,
                      loaded |-> q.loaded, set |-> row[q.id]])
    BY <1>0, <1>2, SoundMove DEF database, Works, Inserting
  <1>3. CASE Goto(r, [pc |-> "insert", lead |-> q.id])
    BY <1>0, <1>3, SoundMove DEF database, Works, Inserting
  <1>4. CASE Answer(r, "done")
    BY <1>0, <1>4, SoundAnswer
  <1> QED BY <1>1, <1>2, <1>3, <1>4 DEF Refresh

LEMMA EventSound ==
  ASSUME ErrorInv, NEW r \in Requests, Remove(r) \/ Fire(r) \/ Flush(r) \/ Close(r)
  PROVE  Sound(r)
  <1> DEFINE q == request[r]
  <1>0. TypeOK
    BY DEF ErrorInv, IInv
  <1>1. CASE Answer(r, "done")
    BY <1>0, <1>1, SoundAnswer
  <1>2. CASE Fire(r) /\ Goto(r, [q EXCEPT !.pc = "flush"])
    <2>1. q = [pc |-> "fire", op |-> q.op, id |-> q.id, loaded |-> q.loaded,
               set |-> q.set]
      BY <1>0, <1>2, Working DEF Fire
    <2>2. /\ [q EXCEPT !.pc = "flush"].pc = "flush"
          /\ [q EXCEPT !.pc = "flush"].id = q.id
      BY <2>1
    <2>3. row'[q.id] # None
      BY <1>2 DEF Fire, ErrorInv, RowsThere, Works, database
    <2> QED BY <1>0, <1>2, <2>2, <2>3, SoundMove DEF Works, Inserting
  <1>3. CASE Flush(r) /\ Goto(r, [pc |-> "close"])
    BY <1>0, <1>3, SoundMove DEF Works, Inserting
  <1>4. CASE Flush(r) /\ endpoint = "deleted" /\ Answer(r, "400")
    <2>1. Removals'
      BY <1>4 DEF Flush, Removals
    <2> QED BY <1>0, <1>4, <2>1, SoundAnswer
  <1> QED BY <1>1, <1>2, <1>3, <1>4 DEF Remove, Fire, Flush, Close

RequestStep(r) ==
    \/ SendCreateLead(r) \/ SendCreateDeal(r) \/ InsertDeal(r)
    \/ SendUpdate(r) \/ SendClose(r) \/ SendConvert(r) \/ SendDelete(r)
    \/ SendRemove(r) \/ Save(r) \/ Remove(r) \/ Refresh(r)
    \/ Fire(r) \/ Flush(r) \/ Close(r)

\* A step moves one request and marks no other as having written.
LEMMA OthersRest ==
  ASSUME TypeOK, NEW r \in Requests, RequestStep(r)
  PROVE  /\ \A p \in Requests : p # r => request'[p] = request[p]
         /\ wrote' \subseteq wrote \cup {r}
  <1>1. \E state : Goto(r, state)
    <2>1. CASE SendUpdate(r) \/ SendClose(r) \/ SendConvert(r) \/ SendDelete(r)
      BY <2>1, LoadSteps DEF Load
    <2>2. CASE \/ SendCreateLead(r) \/ SendCreateDeal(r) \/ SendRemove(r)
               \/ InsertDeal(r) \/ Save(r) \/ Remove(r) \/ Refresh(r)
               \/ Fire(r) \/ Flush(r) \/ Close(r)
      BY <2>2, OtherMoves
    <2> QED BY <2>1, <2>2 DEF RequestStep
  <1>2. wrote' \subseteq wrote \cup {r}
    <2>1. CASE SendUpdate(r) \/ SendClose(r) \/ SendConvert(r) \/ SendDelete(r)
      BY <2>1, LoadSteps DEF Load, database
    <2> QED
      BY <2>1 DEF RequestStep, SendCreateLead, SendCreateDeal, SendRemove,
                  InsertDeal, Save, Remove, Refresh, Fire, Flush, Close, Commit, database
  <1> QED BY <1>1, <1>2, Moved

LEMMA NextErrorInv == ErrorInv /\ [Next]_vars => ErrorInv'
  <1> SUFFICES ASSUME ErrorInv, [Next]_vars
               PROVE  NotYetWritten' /\ RowsThere' /\ ErrorsNeedRemovals'
    BY NextIInv DEF ErrorInv
  <1>0. TypeOK
    BY DEF ErrorInv, IInv
  <1>1. ASSUME NEW r \in Requests, RequestStep(r)
        PROVE  NotYetWritten' /\ RowsThere' /\ ErrorsNeedRemovals'
    <2>1. Sound(r)
      BY <1>1, LoadsSound, FirstSound, InsertSound, SaveSound, RefreshSound,
         EventSound DEF RequestStep
    <2>2. /\ \A p \in Requests : p # r => request'[p] = request[p]
          /\ wrote' \subseteq wrote \cup {r}
      BY <1>0, <1>1, OthersRest
    <2>3. NotYetWritten'
      BY <2>1, <2>2 DEF Sound, NotYetWritten, ErrorInv
    <2>4. RowsThere'
      <3>1. ASSUME NEW p \in Requests, p # r, Works(request[p])
            PROVE  row'[request[p].id] # None
        BY <1>0, <3>1, Working, RowsStay DEF Works, ErrorInv, RowsThere
      <3>2. ASSUME NEW p \in Requests, p # r, NEW l \in Leads, Inserting(request[p], l)
            PROVE  row'[l] # None
        BY <1>0, <3>2, RowsStay DEF ErrorInv, RowsThere, Ids
      <3> QED BY <2>1, <2>2, <3>1, <3>2 DEF Sound, RowsThere
    <2>5. ASSUME NEW p \in Requests, FailedMidway(p)' PROVE Removals'
      <3>1. CASE p = r
        BY <2>1, <2>5, <3>1 DEF Sound
      <3>2. CASE p # r
        <4>1. FailedMidway(p)
          BY <2>2, <2>5, <3>2 DEF FailedMidway
        <4> QED BY <1>0, <4>1, RowsStay DEF ErrorInv, ErrorsNeedRemovals
      <3> QED BY <3>1, <3>2
    <2> QED BY <2>3, <2>4, <2>5 DEF ErrorsNeedRemovals
  <1>2. CASE UNCHANGED vars \/ (\E r \in Requests : Deliver(r)) \/ SwitchEndpoint
             \/ DeleteEndpoint
    <2>1. UNCHANGED <<row, wrote, request>>
      BY <1>2 DEF vars, Deliver, SwitchEndpoint, DeleteEndpoint, database
    <2>2. Removals => Removals'
      BY <1>0, RowsStay
    <2> QED
      BY <2>1, <2>2 DEF ErrorInv, NotYetWritten, RowsThere, Works, Inserting,
                        ErrorsNeedRemovals, FailedMidway
  <1> QED BY <1>1, <1>2 DEF Next, RequestStep

\* No interleaving of updates, conversions and soft deletions fails a request
\* that has committed: it met a removal of its row, of its lead or of the
\* endpoint. Of a conversion that fails so, the lead stays converted.
THEOREM ErrorsFollowRemovals == Spec => []ErrorsNeedRemovals
  <1>1. ErrorInv => ErrorsNeedRemovals
    BY DEF ErrorInv
  <1> QED BY <1>1, InitErrorInv, NextErrorInv, PTL DEF Spec

=============================================================================
