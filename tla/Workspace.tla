----------------------------- MODULE Workspace ------------------------------
(***************************************************************************)
(* The records of companies with the lists that read them and the reports  *)
(* that count them, and beside them the custom fields: requests of all     *)
(* sorts, the arrival of calls, leads and deals, and the clock.            *)
(***************************************************************************)
EXTENDS Reports, Fields

vars == <<recordVars, reportVars, fieldVars>>

Init == RecordsInit /\ ReportsInit /\ FieldsInit

Next ==
    \/ (RecordsNext \/ Tick) /\ UNCHANGED <<reportVars, fieldVars>>
    \/ ReportsNext /\ UNCHANGED fieldVars
    \/ FieldsNext /\ UNCHANGED <<recordVars, reportVars>>

Spec == Init /\ [][Next]_vars

=============================================================================
