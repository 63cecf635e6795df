---------------------------- MODULE MCEscalation ----------------------------
(***************************************************************************)
(* A small instance of Escalation: two calls of one customer. The          *)
(* durations keep the order of the real ones, tier 1 < tier 2 < tier 3 <   *)
(* cutoff < life of a key.                                                 *)
(***************************************************************************)
EXTENDS Escalation, TLC

CONSTANTS c1, c2, w1, w2, p1

MCCalls == {c1, c2}
MCSameCustomer == [c \in MCCalls |-> p1]
MCTwoWorkers == {w1, w2}
MCSymmetry == Permutations(MCTwoWorkers) \union Permutations(MCCalls)
MCThreshold == <<0, 1, 2>>

=============================================================================
