---------------------------- MODULE MCWorkspace -----------------------------
(***************************************************************************)
(* Small instances of Workspace.                                           *)
(***************************************************************************)
EXTENDS Workspace

CONSTANTS c1, c2, u1, u2, m1, w1, s1, f1, f2, n1, n2

MCBatches == {<<m1, m1>>, <<m1, None>>}
MCEdits == [contact |-> {[email |-> m1]}, task |-> {[place |-> 2]}]
MCCompanyOf == [u \in {u1, u2} |-> c1]
MCQuestions ==
    LET ask(about, u, c, ps) ==
            {[about |-> about, user |-> u, company |-> c, period |-> p] : p \in ps}
    IN  ask("me", u1, None, {"week"}) \cup ask("operator", u1, None, {None})
        \cup ask("admin", u2, None, {None}) \cup ask("team", None, c1, {"today", "month"})
        \cup ask("platform", None, None, {"year"})
        \cup ask("owner", None, None, {None})
MCCounted == <<"call">>

MCCountedOfAll == <<"call", "deal">>
\* The week begins with the second day, the month with the first.
MCPeriodStart ==
    [p \in Periods |-> [d \in Days |-> IF p \in {"month", "year"} THEN 0 ELSE d]]
MCOrders == {<<f1, f2>>, <<f2, f1>>}

Idle(state) == \A x \in DOMAIN state : state[x].pc = "unsent"

\* Requests are numbered in the order in which they are sent.
InTurn(state, x) == \A y \in DOMAIN state : y < x => state[y].pc # "unsent"

Standing == {x \in Ids : Stands(x)}

\* The parts are looked at one at a time: records and lists; reports, while
\* calls and deals arrive; and fields.
MCNext ==
    \/ /\ Idle(query) /\ now = 0 /\ Idle(editor)
       /\ \/ \E j \in Jobs : InTurn(job, j) /\ Requests(j, c1)
          \/ \E k \in {"call", "lead", "deal"} : Arrive(k, c1, u1)
          \/ \E w \in Walks : ReadLists(w)
       /\ UNCHANGED <<reportVars, fieldVars>>
    \/ /\ Idle(job) /\ Idle(walk) /\ Idle(editor)
       /\ \/ Tick /\ UNCHANGED reportVars
          \/ /\ \/ \E c \in Companies : Arrive("call", c, u1)
                \/ Arrive("deal", c1, u1)
             /\ UNCHANGED reportVars
          \/ \E q \in Queries : InTurn(query, q) /\ Report(q)
       /\ UNCHANGED fieldVars
    \/ /\ Standing = {} /\ now = 0 /\ Idle(job) /\ Idle(walk) /\ Idle(query)
       /\ \E e \in Editors : InTurn(editor, e) /\ Edit(e)
       /\ UNCHANGED <<recordVars, reportVars>>

MCSpec == Init /\ [][MCNext]_vars

Sent == {q \in Queries : ~Stage(q, "unsent")}

Asking == {q \in Queries : query[q].pc \in {"counting", "storing", "answered"}}

Long(q) == query[q].ask.about \in {"operator", "admin", "owner"}

\* Records are of one kind and of one company unless they are calls and deals
\* that reports count, two at most; one report is counted at a time. Of the
\* requests about fields the first two have ended when a third is sent.
Bounds ==
    /\ ~Is(3, "unsent") => \A e \in {1, 2} : editor[e].pc \in {"done", "refused"}
    /\ \/ \A x, y \in Standing : row[x].kind = row[y].kind /\ row[x].company = c1
       \/ /\ Idle(job) /\ Idle(walk)
          /\ Cardinality(Standing) <= 2
          /\ \A x \in Standing :
            /\ row[x].kind \in {"call", "deal"}
            /\ row[x].kind = "deal" => Cardinality(Standing) = 1
    /\ \A w \in Walks, x \in Standing : ~Idle(walk) =>
        row[x].kind = walk[w].kind /\ row[x].owner \in {None, u1}
    \* a reader meets three rows, or two and two requests that change them; of
    \* three requests the first has ended when the last is sent
    /\ ~Idle(walk) /\ ~At(2, "unsent") => Cardinality(Standing) < 3
    /\ ~At(3, "unsent") => Idle(walk) /\ At(1, "answered")
    /\ now > 0 \/ ~Idle(query) =>
        /\ Standing \in {{}, {1}, {1, 2}}
        /\ \A x \in Standing : row[x].kind \in {"call", "deal"}
    \* two requests are looked at with one row, three with none
    /\ Sent # {} => Cardinality(Standing) <= 3 - Cardinality(Sent)
    /\ \A q \in Asking : Long(q) => Cardinality(Standing) < 2
    /\ \A q \in Asking, r \in Asking : Long(q) => query[q].ask = query[r].ask
    /\ Cardinality(Sent) = 3 =>
        now < MaxTime /\ Cardinality(Asking) < 3 /\ \A q \in Asking : ~Long(q)
    /\ Cardinality({q \in Queries : Stage(q, "counting") \/ Stage(q, "storing")}) <= 1

=============================================================================
