------------------------------ MODULE MCAccess ------------------------------
(***************************************************************************)
(* A small instance of Access.                                             *)
(***************************************************************************)
EXTENDS Access, TLC

CONSTANTS u1, s1, g1, k1, k2, r1, r2, r3

MCUsers == {u1, s1}
MCGroups == {g1}
MCKeys == {k1, k2}
MCRequests == {r1, r2, r3}
MCChanges == {NoChange, [NoChange EXCEPT !.group = g1],
              [NoChange EXCEPT !.group = g1, !.suspended = TRUE],
              [NoChange EXCEPT !.suspended = FALSE, !.grants = FALSE]}

Symmetry == Permutations(MCKeys) \cup Permutations(MCRequests)

=============================================================================
