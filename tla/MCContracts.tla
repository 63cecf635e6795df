---------------------------- MODULE MCContracts ----------------------------
(***************************************************************************)
(* A small instance of Contracts.                                          *)
(***************************************************************************)
EXTENDS Contracts

CONSTANTS c1, c2, r1, r2, r3, r4, r5

MCContracts == {c1, c2}
MCRequests == {r1, r2, r3, r4, r5}
MCSetStatus == {None, "WARNING", "SUSPENDED"}

=============================================================================
