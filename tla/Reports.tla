------------------------------ MODULE Reports ------------------------------
(***************************************************************************)
(* The analytics of companies and of the platform, and their cache         *)
(* (company/analytics.py, owner/analytics.py, analytics_service.py,        *)
(* cache_service.py). A report counts period by period, in a statement for *)
(* each kind of record, while rows come and go; it is stored under a key   *)
(* and given to whoever asks for that key until it expires or is cleared.  *)
(* A number is modelled as the set of the rows it counts; sums, rates and  *)
(* rankings, which follow from such sets, are left out. All companies are  *)
(* of one owner.                                                           *)
(***************************************************************************)
EXTENDS Records

CONSTANTS
    Owner,          \* the owner of the companies
    CompanyOf,      \* CompanyOf[u]: the company of a user
    Queries,        \* requests for reports, each sent at most once
    Questions,      \* what they ask for
    Stores,         \* one with Redis, one for each process without it
    Counted,        \* the kinds of records counted of a company, in their order
    CountedOfAll,   \* those counted of all companies
    PeriodStart,    \* PeriodStart[p][d]: the first day of day d's period p
    TicksPerDay, TrendDays, MaxTime,
    TTL_SHORT, TTL_MEDIUM       \* how long a report may be given (60, 300 s)

Periods == {"today", "week", "month", "year"}

Days == 0 .. MaxTime \div TicksPerDay

\* What a request may ask for: a report of a user, of a company or of all.
Askable(a) ==
    /\ a.about \in {"me", "operator", "admin", "team", "platform", "owner"}
    /\ a.about \in {"me", "team", "platform"} => a.period \in Periods
    /\ a.about = "team" => a.company \in Companies

ASSUME ReportsAssumption ==
    /\ TicksPerDay \in Nat \ {0} /\ TrendDays \in Nat \ {0} /\ MaxTime \in Nat
    /\ TTL_SHORT \in Nat /\ TTL_MEDIUM \in Nat
    /\ \A a \in Questions : Askable(a)
    /\ Owner \notin Companies \cup Periods \cup {"analytics", "team"}
    /\ Counted \in Seq({"call", "lead", "deal", "task"}) \ {<<>>}
    /\ CountedOfAll \in Seq({"call", "lead", "deal"}) \ {<<>>}
    /\ PeriodStart \in [Periods -> [Days -> Days]]
    /\ \A d, e \in Days : \A p \in Periods :
        PeriodStart[p][d] <= d /\ (d <= e => PeriodStart[p][d] <= PeriodStart[p][e])
    /\ \A d \in Days : PeriodStart["today"][d] = d /\ PeriodStart["year"][d] <= PeriodStart["month"][d]

VARIABLES
    cache,      \* cache[s]: from keys to values and when they expire
    query,      \* query[q]: how far a request is
    purged      \* history: the requests whose reports a clearing removed

reportVars == <<cache, query, purged>>

ReportsInit ==
    /\ cache = [s \in Stores |-> <<>>]
    /\ query = [q \in Queries |-> [pc |-> "unsent"]]
    /\ purged = {}

Tick ==
    /\ now < MaxTime
    /\ now' = now + 1
    /\ UNCHANGED <<row, serial, job, walk, raced>>

-----------------------------------------------------------------------------
(* Statements.                                                              *)

DayOf(t) == t \div TicksPerDay

PeriodDates(p, t) == [from |-> PeriodStart[p][DayOf(t)], to |-> DayOf(t)]

\* Rows of a kind of the companies cs, of user u if given, created in a span
\* of days. Leads, deals and tasks have a deleted_at.
Created(k, cs, u, span) ==
    {x \in Ids :
        /\ Stands(x)
        /\ row[x].kind = k
        /\ row[x].company \in cs
        /\ u \in {None, row[x].owner}
        /\ DayOf(row[x].born) \in span.from .. span.to}

CallStats(cs, u, span) == Created("call", cs, u, span)

LeadStats(cs, u, span) == Created("lead", cs, u, span) \cap {x \in Ids : Live(x)}

DealStats(cs, u, span) == Created("deal", cs, u, span) \cap {x \in Ids : Live(x)}

TaskStats(cs, u, span) == Created("task", cs, u, span) \cap {x \in Ids : Live(x)}

LastDays(t) ==
    [from |-> IF DayOf(t) < TrendDays THEN 0 ELSE DayOf(t) - TrendDays + 1,
     to |-> DayOf(t)]

CallsTrend(cs) == CallStats(cs, None, LastDays(now))

RevenueTrend(cs) == DealStats(cs, None, LastDays(now))

\* By the hour of day, since the same time some days ago.
HourlyCalls(cs) ==
    {x \in CallStats(cs, None, [from |-> 0, to |-> DayOf(now)]) :
        row[x].born + TrendDays * TicksPerDay >= now}

\* Without a lead in the period the deals are not looked at.
ConversionFunnel(cs, span, leads) ==
    IF leads = {} THEN {} ELSE DealStats(cs, None, span)

PipelineHealth(cs) == DealStats(cs, None, [from |-> 0, to |-> DayOf(now)])

-----------------------------------------------------------------------------
(* Questions: what they count, in order, and the key of the answer.         *)

AllOf(p, kinds) == [i \in DOMAIN kinds |-> <<p, kinds[i]>>]

OperatorAnalytics(p) == AllOf(p, Counted)

PlatformStats(p) == AllOf(p, CountedOfAll)

\* Mutant: the periods are counted from the longest to the shortest.
LongestFirst ==
    OperatorAnalytics("month") \o OperatorAnalytics("week") \o OperatorAnalytics("today")

DashboardPlan ==
    OperatorAnalytics("today") \o OperatorAnalytics("week") \o OperatorAnalytics("month")

AdminPlan ==
    DashboardPlan \o OperatorAnalytics("year") \o
    <<<<"month", "funnelLeads">>, <<"month", "funnel">>, <<"month", "pipeline">>,
      <<"month", "callsTrend">>, <<"month", "revenueTrend">>, <<"month", "hours">>>>

OwnerPlan ==
    PlatformStats("today") \o PlatformStats("week") \o PlatformStats("month")
        \o PlatformStats("year")

Plan(a) ==
    CASE a.about = "me" -> OperatorAnalytics(a.period)
      [] a.about = "operator" -> DashboardPlan
      [] a.about = "team" -> OperatorAnalytics(a.period)
      [] a.about = "admin" -> AdminPlan
      [] a.about = "platform" -> PlatformStats(a.period)
      [] a.about = "owner" -> OwnerPlan

\* The companies and the user whose rows are counted. A dashboard of an
\* operator is of the whole company.
Scope(a) ==
    CASE a.about \in {"operator", "admin"} -> {CompanyOf[a.user]}
      [] a.about = "me" -> {CompanyOf[a.user]}
      [] a.about = "team" -> {a.company}
      [] a.about \in {"platform", "owner"} -> Companies

Counts(a) == IF a.about = "me" THEN a.user ELSE None

\* What a statement of a plan counts; f holds the figures so far.
Count(a, step, span, f) ==
    LET cs == Scope(a)
        u == Counts(a)
    IN  CASE step[2] = "call" -> CallStats(cs, u, span)
          [] step[2] \in {"lead", "funnelLeads"} -> LeadStats(cs, u, span)
          [] step[2] = "deal" -> DealStats(cs, u, span)
          [] step[2] = "task" -> TaskStats(cs, u, span)
          [] step[2] = "funnel" ->
                ConversionFunnel(cs, span, f[<<"month", "funnelLeads">>])
          [] step[2] = "pipeline" -> PipelineHealth(cs)
          [] step[2] = "callsTrend" -> CallsTrend(cs)
          [] step[2] = "revenueTrend" -> RevenueTrend(cs)
          [] step[2] = "hours" -> HourlyCalls(cs)

\* Mutant: the reports of all periods are stored under one key.
TeamKeyOfAll(c, p) == <<"analytics", "team", c>>

TeamKey(c, p) == <<"analytics", "team", c, p>>

PlatformKey(p) == <<"analytics", "platform", Owner, p>>

DashboardKey(kind, id) == <<"dashboard", kind, id>>

Key(a) ==
    CASE a.about = "team" -> TeamKey(a.company, a.period)
      [] a.about = "platform" -> PlatformKey(a.period)
      [] a.about \in {"operator", "admin"} -> DashboardKey(a.about, a.user)
      [] a.about = "owner" -> DashboardKey("owner", Owner)

Ttl(a) == IF a.about = "operator" THEN TTL_SHORT ELSE TTL_MEDIUM

-----------------------------------------------------------------------------
(* The cache.                                                               *)

Cached(s, key) == key \in DOMAIN cache[s] /\ now <= cache[s][key].until

CacheSet(s, key, value, ttl) ==
    cache' = [cache EXCEPT ![s] =
        [k \in DOMAIN cache[s] \cup {key} |->
            IF k = key THEN [value |-> value, until |-> now + ttl] ELSE cache[s][k]]]

CacheDelete(s, keys) ==
    cache' = [cache EXCEPT ![s] = [k \in DOMAIN cache[s] \ keys |-> cache[s][k]]]

Matching(s, id) == {k \in DOMAIN cache[s] : id \in Range(k)}

-----------------------------------------------------------------------------
(* Requests for reports.                                                    *)

Stage(q, pc) == query[q].pc = pc

\* Personal reports are not stored.
Ask(q, a, s) ==
    /\ Stage(q, "unsent")
    /\ query' = [query EXCEPT ![q] =
            IF a.about # "me" /\ Cached(s, Key(a))
            THEN [pc |-> "answered", ask |-> a, store |-> s, asked |-> now,
                  purged |-> purged, value |-> cache[s][Key(a)].value]
            ELSE [pc |-> "counting", ask |-> a, store |-> s, asked |-> now,
                  purged |-> purged, at |-> 1, span |-> 0, begun |-> now,
                  there |-> {<<x, row[x]>> : x \in {x \in Ids : Live(x)}},
                  figures |-> <<>>]]
    /\ UNCHANGED <<recordVars, cache, purged>>

Noted(f, step, S) ==
    [x \in DOMAIN f \cup {step} |-> IF x = step THEN S ELSE f[x]]

\* The dates of a period are those of its first statement.
SpanAt(q) ==
    LET plan == Plan(query[q].ask)
        at == query[q].at
    IN  IF at = 1 \/ plan[at - 1][1] # plan[at][1]
        THEN PeriodDates(plan[at][1], now)
        ELSE query[q].span

\* The rows that were there when counting began and are as they were.
StillThere(q) == {e \in query[q].there : row[e[1]] = e[2]}

CountNext(q) ==
    LET a == query[q].ask
        at == query[q].at
        plan == Plan(a)
        span == SpanAt(q)
        f == query[q].figures
        g == Noted(f, plan[at], Count(a, plan[at], span, f))
        value == [figures |-> g, by |-> q, begun |-> query[q].begun, ended |-> now,
                  stored |-> now, there |-> StillThere(q)]
    IN  /\ Stage(q, "counting")
        /\ query' = [query EXCEPT ![q] =
            IF at < Len(plan)
            THEN [query[q] EXCEPT !.at = at + 1, !.span = span, !.figures = g,
                                  !.there = StillThere(q)]
            ELSE [pc |-> IF a.about = "me" THEN "answered" ELSE "storing",
                  ask |-> a, store |-> query[q].store, asked |-> query[q].asked,
                  purged |-> query[q].purged, value |-> value]]
        /\ UNCHANGED <<recordVars, cache, purged>>

Store(q) ==
    LET a == query[q].ask
    IN  /\ Stage(q, "storing")
        /\ CacheSet(query[q].store, Key(a), [query[q].value EXCEPT !.stored = now], Ttl(a))
        /\ query' = [query EXCEPT ![q].pc = "answered"]
        /\ UNCHANGED <<recordVars, purged>>

\* A store that does not answer ends the request in an error. When it does so
\* at once, nothing has happened.
CacheFails(q) ==
    /\ query[q].pc \in {"storing", "clearing", "emptying"}
    /\ query' = [query EXCEPT ![q] = [pc |-> "failed"]]
    /\ UNCHANGED <<recordVars, cache, purged>>

\* The dashboards of an operator and an administrator, the reports of a team
\* and of a person, and those of the owner.
MyAnalytics(q, a, s) == a.about = "me" /\ Ask(q, a, s)

MyDashboard(q, a, s) == a.about = "operator" /\ Ask(q, a, s)

TeamAnalytics(q, a, s) == a.about = "team" /\ Ask(q, a, s)

AdminDashboard(q, a, s) == a.about = "admin" /\ Ask(q, a, s)

PlatformAnalytics(q, a, s) == a.about = "platform" /\ Ask(q, a, s)

OwnerDashboard(q, a, s) == a.about = "owner" /\ Ask(q, a, s)

-----------------------------------------------------------------------------
(* Clearing.                                                                *)

\* The requests whose stored reports tell of the company, or of the owner.
Telling(s, who) ==
    {cache[s][k].value.by : k \in {k \in DOMAIN cache[s] :
        \/ who \in Range(k)
        \/ k[2] \in {"operator", "admin"} /\ CompanyOf[k[3]] = who}}

\* Redis is asked for the keys with the company's id and then to delete them.
ClearCompany(q) ==
    \/ /\ Stage(q, "unsent")
       /\ \E c \in Companies, s \in Stores :
            query' = [query EXCEPT ![q] =
                [pc |-> "clearing", store |-> s, keys |-> Matching(s, c),
                 old |-> Telling(s, c)]]
       /\ UNCHANGED <<recordVars, cache, purged>>
    \/ /\ Stage(q, "clearing")
       /\ CacheDelete(query[q].store, query[q].keys)
       /\ purged' = purged \cup query[q].old
       /\ query' = [query EXCEPT ![q] = [pc |-> "cleared"]]
       /\ UNCHANGED recordVars

\* Mutant: the report of the year is forgotten.
OwnerKeysButYear ==
    <<PlatformKey("today"), PlatformKey("week"), PlatformKey("month"),
      DashboardKey("owner", Owner)>>

OwnerKeys ==
    <<PlatformKey("today"), PlatformKey("week"), PlatformKey("month"),
      PlatformKey("year"), DashboardKey("owner", Owner)>>

\* Key by key.
ClearOwner(q) ==
    \/ /\ Stage(q, "unsent")
       /\ \E s \in Stores :
            query' = [query EXCEPT ![q] =
                [pc |-> "emptying", store |-> s, at |-> 1,
                 old |-> Telling(s, Owner)]]
       /\ UNCHANGED <<recordVars, cache, purged>>
    \/ /\ Stage(q, "emptying")
       /\ CacheDelete(query[q].store, {OwnerKeys[query[q].at]})
       /\ IF query[q].at < Len(OwnerKeys)
          THEN /\ query' = [query EXCEPT ![q].at = @ + 1]
               /\ UNCHANGED purged
          ELSE /\ query' = [query EXCEPT ![q] = [pc |-> "cleared"]]
               /\ purged' = purged \cup query[q].old
       /\ UNCHANGED recordVars

Report(q) ==
    \/ \E a \in Questions, s \in Stores :
        \/ MyAnalytics(q, a, s) \/ MyDashboard(q, a, s)
        \/ TeamAnalytics(q, a, s) \/ AdminDashboard(q, a, s)
        \/ PlatformAnalytics(q, a, s) \/ OwnerDashboard(q, a, s)
    \/ CountNext(q) \/ Store(q) \/ CacheFails(q)
    \/ ClearCompany(q) \/ ClearOwner(q)

ReportsNext == \E q \in Queries : Report(q)

-----------------------------------------------------------------------------
(* Properties.                                                              *)

Answered(q) == Stage(q, "answered")

\* A row that belongs in a figure of a report that counts on day d.
Meant(a, step, r, d) ==
    /\ r.kind = step[2]
    /\ r.company \in Scope(a)
    /\ Counts(a) \in {None, r.owner}
    /\ DayOf(r.born) >= PeriodStart[step[1]][d]

\* Each figure has every row of the kind, the companies and the period that
\* stood unchanged while it was counted, and no row of others.
CountsWhatIsMeant(a, v) ==
    /\ DOMAIN v.figures = Range(Plan(a))
    /\ \A step \in DOMAIN v.figures, e \in v.there : step[2] \in Kinds =>
        /\ Meant(a, step, e[2], DayOf(v.ended)) => e[1] \in v.figures[step]
        /\ e[1] \in v.figures[step] => Meant(a, step, e[2], DayOf(v.begun))

\* Periods and those that a plan counts after them.
CountedAfter ==
    {<<"today", "week">>, <<"today", "month">>, <<"today", "year">>,
     <<"week", "month">>, <<"week", "year">>, <<"month", "year">>}

\* The calls of a period are among those of any that is counted later and
\* begins no later, however many come in while the report is counted within
\* one day.
PeriodsNest(f, d) ==
    \A p, r \in Periods :
        /\ <<p, r>> \in CountedAfter
        /\ {<<p, "call">>, <<r, "call">>} \subseteq DOMAIN f
        /\ PeriodStart[r][d] <= PeriodStart[p][d]
        => f[<<p, "call">>] \subseteq f[<<r, "call">>]

\* A report, counted now or taken from the cache, is about what was asked for,
\* its figures agree, and from the cache it was stored no longer ago than such
\* reports may be given (company/analytics.py:84, 277; owner/analytics.py:51).
AnswersTheQuestion ==
    \A q \in Queries : Answered(q) =>
        LET a == query[q].ask
            v == query[q].value
        IN  /\ CountsWhatIsMeant(a, v)
            /\ DayOf(v.begun) = DayOf(v.ended) => PeriodsNest(v.figures, DayOf(v.begun))
            /\ v.by # q => query[q].asked <= v.stored + Ttl(a)

\* Who asks for the report of a team, or for a report of the owner, after it
\* was cleared is not given one that was stored when the clearing began
\* (company/analytics.py:543, owner/analytics.py:297).
ClearedIsFresh ==
    \A q \in Queries :
        Answered(q) /\ query[q].ask.about \in {"team", "platform", "owner"} =>
            query[q].value.by \notin query[q].purged

\* Stated, not kept: clearing a company's cache, to be used "when you need
\* fresh data" (company/analytics.py:549-551), clears its dashboards as well;
\* their keys hold the id of a user, not the company's.
DashboardCleared ==
    \A q \in Queries :
        Answered(q) /\ query[q].ask.about \in {"operator", "admin"} =>
            query[q].value.by \notin query[q].purged

=============================================================================
