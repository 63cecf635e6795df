--------------------------- MODULE MCCallEvents ----------------------------
(***************************************************************************)
(* Small instances of CallEvents: an inbound call i1 that the company may  *)
(* miss, and an outbound call o1 to the same customer. The instance for    *)
(* liveness starts when i1 has been missed, recorded by its hang-up (which *)
(* overtook its other webhooks) and put on the callback list, and when the *)
(* hang-up is on its way once more: the end of o1 locks the row of i1 that *)
(* the handler of the repeated hang-up waits for.                          *)
(***************************************************************************)
EXTENDS CallEvents, TLC

CONSTANTS i1, o1, h1, h2

MCBoth == {i1, o1}
MCOnlyInbound == {i1}
MCOnlyOutbound == {o1}
MCNone == {}
MCCustomer == [c \in {i1, o1} |-> "customer"]

MCOneHandler == {h1}
MCTwoHandlers == {h1, h2}
MCHandlerSymmetry == Permutations(MCTwoHandlers)

MCAllHangups == {"ANSWER", "NOANSWER", "CHANUNAVAIL"}
MCPlainHangups == {"ANSWER", "NOANSWER"}

MCHangup == Hangup(i1, "NOANSWER", FALSE)

MCMissedInit ==
    /\ line = [c \in Calls |-> IF c = i1 THEN "over" ELSE "idle"]
    /\ network = {MCHangup}
    /\ calls = [c \in Calls |-> IF c = i1 THEN NewRow(MCHangup) ELSE NoRow]
    /\ handler = [h \in Handlers |-> Free]
    /\ request = [c \in Calls |-> "none"]
    /\ stale = {}
    /\ scheduled = {MCHangup}

MCMissedSpec == MCMissedInit /\ [][Next]_vars /\ Fairness

=============================================================================
