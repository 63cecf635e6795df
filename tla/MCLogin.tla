------------------------------ MODULE MCLogin ------------------------------
(***************************************************************************)
(* A small instance of Login.                                              *)
(***************************************************************************)
EXTENDS Login, TLC

CONSTANTS u1, u2, o1, c1, s1, s2, v1, v2, p1, p2, p3

MCUsers == {u1, u2}
MCOwners == {o1}
MCChallenges == {c1}
MCStarts == {s1, s2}
MCVerifications == {v1, v2}
MCPasswords == {p1, p2, p3}

Symmetry == 
    Permutations(MCUsers) \cup Permutations(MCStarts)
        \cup Permutations(MCVerifications)

\* Codes and passwords share no state, either kind alone is enough.
CodesOrPasswords ==
    \/ \A c \in Challenges : challenge[c] = None
    \/ \A p \in Passwords : At(p, "unsent")

=============================================================================
