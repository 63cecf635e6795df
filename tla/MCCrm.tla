------------------------------- MODULE MCCrm -------------------------------
(***************************************************************************)
(* A small instance of Crm.                                                *)
(***************************************************************************)
EXTENDS Crm, TLC

CONSTANTS l1, d1, r1, r2, r3, r4

MCLeads == {l1}
MCDeals == {d1}
MCRequests == {r1, r2, r3, r4}
MCSetState ==
    [i \in Ids |-> IF i \in Leads THEN {"LOST"} ELSE {None, "PROPOSAL"}]

RequestSymmetry == Permutations(MCRequests)

=============================================================================
