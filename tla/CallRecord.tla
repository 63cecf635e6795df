----------------------------- MODULE CallRecord -----------------------------
(***************************************************************************)
(* What the rest of the program may rely on about the state of a call that *)
(* only webhooks report: it goes from no row, or from RINGING, to a        *)
(* terminal state, and never back to RINGING.                              *)
(***************************************************************************)

CONSTANT Calls            \* calls of one company
VARIABLE record           \* record[c]: the state of the row of c

Terminal == {"ANSWER", "NOANSWER", "CHANUNAVAIL"}

Init == record = [c \in Calls |-> "ABSENT"]

\* A call is first heard of, perhaps only when it is over.
Appear(c) ==
    /\ record[c] = "ABSENT"
    /\ \E s \in {"RINGING"} \union Terminal : record' = [record EXCEPT ![c] = s]

\* Transfers and late answers may change one terminal state into another.
Finish(c) ==
    /\ record[c] # "ABSENT"
    /\ \E s \in Terminal : record' = [record EXCEPT ![c] = s]

Next == \E c \in Calls : Appear(c) \/ Finish(c)

Spec == Init /\ [][Next]_record

=============================================================================
