----------------------------- MODULE MCTelegram -----------------------------
(***************************************************************************)
(* Small instances of Telegram.                                            *)
(***************************************************************************)
EXTENDS Telegram, TLC

CONSTANTS c1, c2, g1, g2, r1, r2, n1, n2, n3, t1, u1, p1, p2

MCCompanies == {c1, c2}
MCEvents == {"call_completed", "call_missed"}
MCGroups == {g1, g2}
MCRequests == {r1, r2}
MCEdits ==
    LET on(e, b) == [x \in {e} |-> b]
    IN  {[enabled |-> None, digest |-> None, on |-> on(e, FALSE)] : e \in MCEvents}
        \cup {[enabled |-> FALSE, digest |-> FALSE, on |-> <<>>]}
MCNotices == {n1, n2, n3}
MCThings ==
    LET thing(e, p, i) ==
            [company |-> c1, event |-> e, phone |-> p, user |-> None, inbound |-> i]
    IN  {thing("call_missed", t1, TRUE), thing("call_completed", None, FALSE)}
MCIds == 1 .. 3
MCPhones == {t1}
MCUsers == {u1}
MCProcs == {p1, p2}

Symmetry == Permutations(MCGroups) \cup Permutations(MCRequests)
    \cup Permutations(MCNotices) \cup Permutations(MCProcs)

\* The three parts meet in the row and the chat alone. With more than one request
\* there are neither messages nor digests, and never both; messages are to one
\* company. Beside three messages there is at most a setup, and then they are told
\* one after the other and nothing fails. Messages of the administrator's chat
\* have numbers without gaps.
OnePartAtATime ==
    LET sent == {r \in Requests : ~At(r, "unsent")}
        told1 == {n \in Notices : ~Now(n, "none")}
    IN  /\ Cardinality(sent) <= 1 \/ (told1 = {} /\ day = 0)
        /\ told1 = {} \/ day = 0
        /\ day > 1 => sent = {}
        /\ told # {} => Cardinality(told1) = 1
        /\ \A p \in DOMAIN posts : p[1] = Manual /\ p[2] > 1 =>
                <<Manual, p[2] - 1>> \in DOMAIN posts
        /\ \A r \in sent :
            /\ request[r].company = c1
            /\ told1 # {} => request[r].op \in {"update", "setup"}
            /\ Cardinality(told1) > 2 =>
                /\ request[r].op = "setup"
                /\ faulty = {}
                /\ Cardinality({n \in Notices : AtWork(n)}) <= 1
            /\ day > 0 => request[r].op = "delete"
        /\ told1 # {} \/ sent # {} \/ day > 1 => config[c2] = None
        /\ person = [u \in Users |-> [active |-> TRUE, wants |-> TRUE, quiet |-> FALSE]]

=============================================================================
