------------------------------ MODULE MCReports ------------------------------
(***************************************************************************)
(* Two companies; the pinned definition of a request has been superseded,  *)
(* pages and batches hold two rows, and the first thread may get any call.  *)
(***************************************************************************)
EXTENDS Reports

MCProfiles ==
    {[user |-> "ann", role |-> "admin", company |-> "c", department |-> "it", rank |-> 1],
     [user |-> "bob", role |-> "approver", company |-> "c", department |-> "it", rank |-> 2],
     [user |-> "eve", role |-> "employee", company |-> "c", department |-> "hr", rank |-> 3],
     [user |-> "zoe", role |-> "admin", company |-> "d", department |-> "it", rank |-> 4]}

Doc(id, company, active, first, hours) ==
    [id |-> id, company |-> company, type |-> "leave", active |-> active,
     stages |-> <<[name |-> "review", hours |-> hours, to |-> first, role |-> Unset],
                  [name |-> "sign", hours |-> NoHours, to |-> Unset, role |-> "admin"]>>]

MCDefinitions == {Doc(1, "c", FALSE, "bob", 1), Doc(2, "c", TRUE, "bob", 3), Doc(3, "d", TRUE, "zoe", 1)}

Row(id, company, requester, department, definition, status, created, completed, text) ==
    [id |-> id, company |-> company, requester |-> requester, department |-> department, type |-> "leave",
     status |-> status, created |-> created, completed |-> completed, deleted |-> FALSE,
     definition |-> definition, text |-> text]

Stage(request, order, name, company, status, created, decided, to, role, by) ==
    [id |-> 10 * request + order, request |-> request, order |-> order, name |-> name, company |-> company,
     status |-> status, created |-> created, decided |-> decided, to |-> to, role |-> role, by |-> by]

\* One request waits under the old version, one has ended, one is half-way; the
\* other company has one that has ended.
MCDatabase ==
    [requests |->
        {Row(1, "c", "eve", "hr", 1, "pending", 3, Never, "hit"),
         Row(2, "c", "eve", Unset, 1, "completed", 0, 3, "near"),
         Row(3, "c", "bob", "it", 2, "in_review", 1, Never, "hit"),
         Row(4, "d", "zoe", "it", 3, "completed", 2, 4, "hit")},
     stages |->
        {Stage(1, 1, "review", "c", "pending", 3, Never, "bob", Unset, Unset),
         Stage(2, 1, "review", "c", "approved", 0, 2, "bob", Unset, "bob"),
         Stage(2, 2, "sign", "c", "approved", 2, 3, Unset, "admin", "ann"),
         Stage(3, 1, "review", "c", "approved", 1, 3, "bob", Unset, "bob"),
         Stage(3, 2, "sign", "c", "pending", 3, Never, Unset, "admin", Unset),
         Stage(4, 1, "review", "d", "approved", 2, 3, "zoe", Unset, "zoe"),
         Stage(4, 2, "sign", "d", "approved", 3, 4, Unset, "admin", "zoe")},
     definitions |-> MCDefinitions,
     audit |->
        {[id |-> 1, company |-> Unset, action |-> "STAGE_APPROVED", actor |-> "bob", request |-> 2, created |-> 2],
         [id |-> 2, company |-> Unset, action |-> "STAGE_APPROVED", actor |-> "ann", request |-> 2, created |-> 3],
         [id |-> 3, company |-> Unset, action |-> "STAGE_APPROVED", actor |-> "bob", request |-> 3, created |-> 3]}]

MCDatabases == {MCDatabase}

MCArrivals == {[company |-> "c", requester |-> "eve", department |-> "hr", type |-> "leave", text |-> "hit"]}

Scopes(company) ==
    {Whole(company), [Whole(company) EXCEPT !.department = "hr"],
     [Whole(company) EXCEPT !.after = 1, !.before = 3]}

K(method, scope) ==
    [method |-> method, scope |-> scope, sla |-> NoHours, limit |-> 0, granularity |-> Anything,
     user |-> Anything, types |-> {}]

Day(method, scope) == [K(method, scope) EXCEPT !.granularity = "day"]

\* Every report for an administrator
Reporting(c) ==
    {K(m, s) : m \in {"get_dashboard_metrics", "get_sla_metrics", "get_executive_kpis"}, s \in Scopes(c)}
    \cup {Day(m, s) : m \in {"get_trends", "get_request_trend"}, s \in Scopes(c)}
    \cup {[K(m, s) EXCEPT !.limit = 1] : m \in {"get_approval_delays", "get_bottlenecks"}, s \in Scopes(c)}
    \cup {[K("get_sla_metrics", Whole(c)) EXCEPT !.sla = 2],
          [K("get_user_metrics", Whole(c)) EXCEPT !.user = "bob"],
          [K("build_user_summary", Whole(c)) EXCEPT !.user = "bob"],
          [K("get_trends", [Whole(c) EXCEPT !.after = 3, !.before = 1]) EXCEPT !.granularity = "week"],
          K("get_workload_summary", Whole(c)), K("get_workload_report", Whole(c)),
          K("get_approval_metrics", [Whole(c) EXCEPT !.type = "leave"]),
          K("get_workflow_metrics", [Whole(c) EXCEPT !.type = "leave"]),
          K("build_executive_summary", Whole(c)), K("build_operational_summary", Whole(c)),
          K("build_workflow_summary", [Whole(c) EXCEPT !.type = "leave"])}
    \cup {K(m, [Whole(c) EXCEPT !.department = "hr"]) :
             m \in {"get_department_metrics", "get_department_analytics", "build_department_summary",
                    "get_workload_report"}}

\* What everybody may ask
Looking(c) ==
    {[K("search", Whole(c)) EXCEPT !.types = types] :
        types \in {{"request", "approval"}, {"audit_entry", "department"}, {"comment", "user"},
                   {"attachment", "workflow"}, {"notification"}}}
    \cup {K("get_dashboard_summary", Whole(c))}

By(user, keys) == [user : {user}, bound : {TRUE}, key : keys]

\* No client could be made for the caller.
Unbound(user, keys) == [user : {user}, bound : {FALSE}, key : keys]

First ==
    By("ann", Reporting("c")) \cup UNION {By(u, Looking("c")) : u \in {"ann", "bob", "eve"}}
    \cup By("bob", {K("get_sla_metrics", Whole("c")), [K("get_bottlenecks", Whole("c")) EXCEPT !.limit = 1],
                    [K("get_user_metrics", Whole("c")) EXCEPT !.user = "ann"]})
    \cup By("zoe", {K("get_sla_metrics", Whole("d")), [K("get_user_metrics", Whole("d")) EXCEPT !.user = "bob"]})
    \cup By("zoe", Looking("d"))
    \cup Unbound("ann", {q \in Looking("c") : q.types \in {{"comment", "user"}, {"attachment", "workflow"}}})
    \cup Unbound("bob", {q \in Looking("c") : q.types = {"attachment", "workflow"}} \cup {K("get_sla_metrics", Whole("c"))})

\* Reports that meet in the cache: the second is the first one's, or a part of it.
Meeting ==
    {<<"ann", Day("get_trends", Whole("c")), Day("get_request_trend", Whole("c"))>>,
     <<"ann", Day("get_trends", Whole("c")), Day("get_trends", Whole("c"))>>,
     <<"ann", K("get_sla_metrics", Whole("c")), K("get_sla_metrics", Whole("c"))>>,
     <<"zoe", Day("get_request_trend", Whole("d")), Day("get_request_trend", Whole("c"))>>}

Asked(user, key) == [user |-> user, bound |-> TRUE, key |-> key]

MCLoads ==
    {[t1 |-> <<ask>>, t2 |-> <<>>] : ask \in First}
    \cup {[t1 |-> <<Asked(m[1], m[2])>>, t2 |-> <<Asked("bob", m[3])>>] : m \in Meeting}
=============================================================================
