--------------------------- MODULE MCRegistration ---------------------------
(***************************************************************************)
(* Small instances of Registration.                                        *)
(***************************************************************************)
EXTENDS Registration

CONSTANTS i1, i2, h1, h2, a1, a2, p1, p2, r1, r2, r3

MCOneInvite == {i1}
MCInvites == {i1, i2}
MCChallenges == {h1, h2}
MCAccounts == {a1, a2}
MCPhones == {p1, p2}
MCInvitePhones == {p1, NoPhone}
MCFormPhones == {p2, NoPhone}
MCRequests == {r1, r2, r3}

=============================================================================
