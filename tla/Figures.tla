------------------------------- MODULE Figures -------------------------------
(***************************************************************************)
(* The arithmetic of the analytics layer, on lists of rows that have been  *)
(* fetched.  A rate or an average is a fraction <<numerator, denominator>> *)
(* and Nothing where the code answers None; a dict is a function.  The     *)
(* lists may be stale or hold a row twice: what is computed from them here *)
(* is what the code computes.                                              *)
(***************************************************************************)
EXTENDS ReportQueries

CONSTANTS
    DayHours,    \* hours in a day (24)
    MonthFirsts  \* the days, counted from a Monday, that begin a month

ASSUME CalendarAssumption ==
    DayHours \in Nat \ {0} /\ MonthFirsts \subseteq Nat /\ 0 \in MonthFirsts /\ IsFiniteSet(MonthFirsts)

Nothing == <<>>

SumOf(list) == FoldSeq(LAMBDA x, y : x + y, 0, list)

MapSeq(list, Op(_)) == [i \in DOMAIN list |-> Op(list[i])]

\* The elements at some places of a list, sorted; equals stay as they are.
Arranged(list, places, Before(_, _)) ==
    MapSeq(Sorted(places, LAMBDA i, j : Before(list[i], list[j]) \/ (~Before(list[j], list[i]) /\ i < j)),
           LAMBDA i : list[i])

Top(list, limit) == SubSeq(list, 1, IF limit < Len(list) THEN limit ELSE Len(list))

Lesser(a, b) == a[1] * b[2] < b[1] * a[2]

-----------------------------------------------------------------------------
(* metrics.py                                                              *)

average(values) == IF values = <<>> THEN Nothing ELSE <<SumOf(values), Len(values)>>

median(values) ==
    LET sorted == Arranged(values, DOMAIN values, <)
        half == Len(values) \div 2
    IN  IF values = <<>> THEN Nothing
        ELSE IF Len(values) % 2 = 1 THEN <<sorted[half + 1], 1>>
        ELSE <<sorted[half] + sorted[half + 1], 2>>

_ACTIVE_STATUSES == {"pending", "in_review"}

CountOf(counts, key) == IF key \in DOMAIN counts THEN counts[key] ELSE 0

total_requests(counts) == MapThenSumSet(LAMBDA status : counts[status], DOMAIN counts)

active_requests(counts) ==
    MapThenSumSet(LAMBDA status : counts[status], DOMAIN counts \cap _ACTIVE_STATUSES)

completed_requests(counts) == CountOf(counts, "completed")

rejected_requests(counts) == CountOf(counts, "rejected")

\* completion_rate, and rejection_rate and compliance_rate with the roles swapped
ShareOf(part, rest) == IF part + rest = 0 THEN Nothing ELSE <<part, part + rest>>

completion_rate(completed, rejected) == ShareOf(completed, rejected)

rejection_rate(completed, rejected) == ShareOf(rejected, completed)

compliance_rate(inSla, breached) == ShareOf(inSla, breached)

\* A period, as a fraction of hours over the hours of a day, is at least one day.
period_days(scope) ==
    IF scope.after = Unbounded \/ scope.before = Unbounded THEN Nothing
    ELSE IF scope.before - scope.after < DayHours THEN <<1, 1>>
    ELSE <<scope.before - scope.after, DayHours>>

workflow_throughput_per_day(completed, period) ==
    IF period = Nothing THEN Nothing ELSE <<completed * period[2], period[1]>>

efficiency_score(completion, compliance) ==
    IF completion = Nothing \/ compliance = Nothing THEN Nothing
    ELSE <<completion[1] * compliance[1], completion[2] * compliance[2]>>

-----------------------------------------------------------------------------
(* aggregations.py                                                         *)

\* keys: the key of each item
CountAggregator(keys) == [k \in ToSet(keys) |-> Cardinality({i \in DOMAIN keys : keys[i] = k})]

by_actor(entries) ==
    CountAggregator(SelectSeq(MapSeq(entries, LAMBDA e : e.actor), LAMBDA user : user # Unset))

by_assignee(stages) ==
    CountAggregator(SelectSeq(MapSeq(stages, LAMBDA s : s.to), LAMBDA user : user # Unset))

\* The period an instant falls in: [start, end).
_period_bounds(instant, granularity) ==
    LET day == instant \div DayHours
        monday == day - (day % 7)
        first == Max({d \in MonthFirsts : d <= day})
        next == {d \in MonthFirsts : d > day}
    IN  CASE granularity = "day" -> [start |-> day * DayHours, end |-> (day + 1) * DayHours]
          [] granularity = "week" -> [start |-> monday * DayHours, end |-> (monday + 7) * DayHours]
          [] granularity = "month" -> [start |-> first * DayHours,
                                       end |-> IF next = {} THEN Never ELSE Min(next) * DayHours]

Buckets(points) == Sorted(points, LAMBDA a, b : a.start < b.start)

build_time_series(instants, granularity) ==
    LET count == CountAggregator(MapSeq(instants, LAMBDA i : _period_bounds(i, granularity)))
    IN  Buckets({[start |-> p.start, end |-> p.end, value |-> count[p]] : p \in DOMAIN count})

\* entries: [at, value]
build_average_time_series(entries, granularity) ==
    LET Period(e) == _period_bounds(e.at, granularity)
        In(p) == SelectSeq(entries, LAMBDA e : Period(e) = p)
    IN  Buckets({[start |-> p.start, end |-> p.end,
                  value |-> average(MapSeq(In(p), LAMBDA e : e.value))] :
                 p \in {Period(entries[i]) : i \in DOMAIN entries}})

-----------------------------------------------------------------------------
(* The analytics engine                                                    *)

\* _compute_approval_metrics: what a scope leaves unknown is Nothing.
_compute_approval_metrics(got, scope) ==
    LET completed == completed_requests(got.status)
        rejected == rejected_requests(got.status)
    IN  [completed |-> completed, rejected |-> rejected,
         rate |-> completion_rate(completed, rejected),
         average |-> IF scope.department = Anything THEN got.throughput.average ELSE Nothing,
         escalations |-> IF scope.department = Anything /\ scope.type = Anything
                         THEN <<got.escalations, 1>> ELSE Nothing]

get_dashboard_metrics(got, scope) ==
    [total |-> total_requests(got.breakdown), active |-> active_requests(got.breakdown),
     completed |-> completed_requests(got.breakdown), rejected |-> rejected_requests(got.breakdown),
     approval |-> _compute_approval_metrics(got, scope)]

get_workflow_metrics(got, scope) ==
    [counts |-> got.breakdown, approval |-> _compute_approval_metrics(got, scope),
     throughput |-> workflow_throughput_per_day(completed_requests(got.breakdown), period_days(scope))]

get_department_metrics(got, scope) ==
    [counts |-> got.breakdown, approval |-> _compute_approval_metrics(got, scope),
     workload |-> active_requests(got.breakdown)]

\* A profile of another company is answered as if there were none.
get_user_metrics(got) ==
    [approved |-> got.approved, rejected |-> got.rejected, pending |-> got.assigned_count]

\* One row per approver and administrator, from the lists of everybody's
\* decisions and pending stages.
get_workload_summary(got) ==
    LET approved == by_actor(got.approvals)
        rejected == by_actor(got.rejections)
        pending == by_assignee(got.pending)
    IN  MapSeq(got.approvers \o got.admins,
            LAMBDA p : [user |-> p.user, approved |-> CountOf(approved, p.user),
                        rejected |-> CountOf(rejected, p.user), pending |-> CountOf(pending, p.user)])

get_request_trend(got, granularity) ==
    build_time_series(MapSeq(got.matching, LAMBDA r : r.created), granularity)

-----------------------------------------------------------------------------
(* The operational engine                                                  *)

\* requests_by_id and definitions_by_id: one of the fetched rows of that id.
Known(rows, id) == \E i \in DOMAIN rows : rows[i].id = id
Find(rows, id)  == rows[Max({i \in DOMAIN rows : rows[i].id = id})]

_find_stage_definition(got, stage) ==
    LET request == Find(got.requests, stage.request)
    IN  IF /\ Known(got.requests, stage.request)
           /\ Known(got.definitions, request.definition)
           /\ stage.order \in DOMAIN Find(got.definitions, request.definition).stages
        THEN <<Find(got.definitions, request.definition).stages[stage.order]>>
        ELSE Nothing

\* override is the sla_hours a caller may give.
_effective_sla_hours(got, stage, override) ==
    LET found == _find_stage_definition(got, stage)
    IN  IF override # NoHours THEN override
        ELSE IF found = Nothing THEN NoHours ELSE found[1].hours

\* EscalationManager.is_eligible: past the deadline, not at it.
is_stage_escalation_eligible(created, hours, instant) == created + hours < instant

Late(got, stage, override, instant) ==
    LET hours == _effective_sla_hours(got, stage, override)
    IN  hours # NoHours /\ is_stage_escalation_eligible(stage.created, hours, instant)

\* _filter_pending_scope of _build_pending_approval_ages: a pending stage whose
\* request was not found is left out.
_build_pending_approval_ages(got, scope, override, now) ==
    LET known == SelectSeq(got.pending, LAMBDA s : Known(got.requests, s.request))
        Age(s) == LET request == Find(got.requests, s.request)
                  IN  [stage |-> s.id, request |-> s.request, name |-> s.name,
                       department |-> request.department, type |-> request.type,
                       filed |-> request.created, age |-> now - s.created,
                       overdue |-> Late(got, s, override, now)]
    IN  SelectSeq(MapSeq(known, Age),
            LAMBDA p : Given(scope.department, p.department) /\ Given(scope.type, p.type))

_filter_decided_scope(got, scope) ==
    SelectSeq(got.decided,
        LAMBDA s : /\ Known(got.requests, s.request)
                   /\ LET request == Find(got.requests, s.request)
                      IN  Given(scope.department, request.department) /\ Given(scope.type, request.type))

_scope_requests(requests, scope) == SelectSeq(requests, LAMBDA r : InScope(r, scope))

Finished(requests) == SelectSeq(requests, LAMBDA r : r.completed # Never)

\* keys: the key of each stage.  Slowest average first.
_duration_buckets(stages, keys) ==
    LET decided == {i \in DOMAIN stages : stages[i].decided # Never}
        Of(k) == {i \in decided : keys[i] = k}
        Bucket(k) == [key |-> k, count |-> Cardinality(Of(k)),
                      average |-> <<MapThenSumSet(LAMBDA i : stages[i].decided - stages[i].created, Of(k)),
                                    Cardinality(Of(k))>>]
    IN  Sorted({Bucket(keys[i]) : i \in decided}, LAMBDA a, b : Lesser(b.average, a.average))

StageNames(stages) == MapSeq(stages, LAMBDA s : s.name)

Departments(got, stages) ==
    LET Of(s) == Find(got.requests, s.request).department
    IN  MapSeq(stages, LAMBDA s : IF Of(s) = Unset THEN "unspecified" ELSE Of(s))

RequestTypes(got, stages) == MapSeq(stages, LAMBDA s : Find(got.requests, s.request).type)

get_sla_metrics(got, scope, override, now) ==
    LET ages == _build_pending_approval_ages(got, scope, override, now)
        overdue == SelectSeq(ages, LAMBDA p : p.overdue)
        judged == SelectSeq(_filter_decided_scope(got, scope),
                      LAMBDA s : s.decided # Never /\ _effective_sla_hours(got, s, override) # NoHours)
        breached == SelectSeq(judged, LAMBDA s : Late(got, s, override, s.decided))
        completed == Finished(_scope_requests(got.completed, scope))
    IN  [pending |-> Len(ages), overdue |-> Len(overdue),
         overdueRequests |-> Cardinality({overdue[i].request : i \in DOMAIN overdue}),
         averageAge |-> average(MapSeq(ages, LAMBDA p : p.age)),
         decided |-> Len(judged), breaches |-> Len(breached),
         compliance |-> compliance_rate(Len(judged) - Len(breached), Len(breached)),
         averageTotal |-> average(MapSeq(completed, LAMBDA r : r.completed - r.created)),
         averageApproval |-> IF scope.department = Anything THEN got.throughput.average ELSE Nothing]

\* The first pending stage of each request
FirstOfRequest(ages) ==
    LET first == {i \in DOMAIN ages : \A j \in 1 .. i - 1 : ages[j].request # ages[i].request}
    IN  {ages[i] : i \in first}

get_approval_delays(got, scope, now, limit) ==
    LET ages == _build_pending_approval_ages(got, scope, NoHours, now)
        decided == _filter_decided_scope(got, scope)
        durations == MapSeq(SelectSeq(decided, LAMBDA s : s.decided # Never), LAMBDA s : s.decided - s.created)
    IN  [longest |-> Top(Arranged(ages, DOMAIN ages, LAMBDA a, b : a.age > b.age), limit),
         oldest |-> Top(Sorted(FirstOfRequest(ages), LAMBDA a, b : a.filed < b.filed), limit),
         average |-> average(durations), median |-> median(durations),
         byStage |-> _duration_buckets(decided, StageNames(decided)),
         byDepartment |-> _duration_buckets(decided, Departments(got, decided)),
         byWorkflow |-> _duration_buckets(decided, RequestTypes(got, decided))]

\* A dict of counts as buckets, the largest first.
CountBuckets(counts) ==
    Sorted({[key |-> k, count |-> counts[k]] : k \in DOMAIN counts}, LAMBDA a, b : a.count > b.count)

\* How often each stage rejects, the largest share first.
RejectionBuckets(stages) ==
    LET of == CountAggregator(StageNames(stages))
        no == CountAggregator(StageNames(SelectSeq(stages, LAMBDA s : s.status = "rejected")))
    IN  Sorted({[key |-> k, decided |-> of[k], rejected |-> CountOf(no, k)] : k \in DOMAIN of},
            LAMBDA a, b : Lesser(<<b.rejected, b.decided>>, <<a.rejected, a.decided>>))

get_bottlenecks(got, scope, now, limit) ==
    LET decided == _filter_decided_scope(got, scope)
        overdue == SelectSeq(_build_pending_approval_ages(got, scope, NoHours, now), LAMBDA p : p.overdue)
        summary == get_workload_summary(got)
    IN  [slowestStages |-> Top(_duration_buckets(decided, StageNames(decided)), limit),
         slowestWorkflows |-> Top(_duration_buckets(decided, RequestTypes(got, decided)), limit),
         slowDepartments |-> Top(_duration_buckets(decided, Departments(got, decided)), limit),
         queues |-> Top(Arranged(summary, DOMAIN summary, LAMBDA a, b : a.pending > b.pending), limit),
         overdueStages |-> Top(CountBuckets(CountAggregator(StageNames(overdue))), limit),
         rejections |-> Top(RejectionBuckets(decided), limit)]

get_workload_report(got, scope, now) ==
    LET InDepartment(s) ==
            Known(got.requests, s.request) /\ Find(got.requests, s.request).department = scope.department
        pending == IF scope.department = Anything THEN got.pending ELSE SelectSeq(got.pending, InDepartment)
        finished == Finished(SelectSeq(got.completed, LAMBDA r : Given(scope.department, r.department)))
        Since(instant) == Len(SelectSeq(finished, LAMBDA r : r.completed >= instant))
    IN  [summary |-> get_workload_summary(got),
         byDepartment |-> got.byDepartment, byWorkflow |-> got.byType,
         today |-> Since(now - (now % DayHours)), week |-> Since(now - 7 * DayHours),
         month |-> Since(now - 30 * DayHours),
         active |-> got.get_dashboard_metrics.active, completed |-> got.get_dashboard_metrics.completed,
         pending |-> Len(pending)]

get_trends(got, scope, granularity) ==
    LET completed == Finished(_scope_requests(got.completed, scope))
    IN  [volume |-> got.get_request_trend,
         completion |-> build_time_series(MapSeq(completed, LAMBDA r : r.completed), granularity),
         approval |-> build_time_series(MapSeq(got.approvals, LAMBDA e : e.created), granularity),
         rejection |-> build_time_series(MapSeq(got.rejections, LAMBDA e : e.created), granularity),
         duration |-> build_average_time_series(
             MapSeq(completed, LAMBDA r : [at |-> r.completed, value |-> r.completed - r.created]), granularity)]

get_executive_kpis(got, scope) ==
    LET dashboard == got.get_dashboard_metrics
        sla == got.get_sla_metrics
    IN  [approval |-> sla.averageApproval, total |-> sla.averageTotal, compliance |-> sla.compliance,
         active |-> dashboard.active, completed |-> dashboard.completed,
         pending |-> sla.pending, overdue |-> sla.overdue,
         rejections |-> rejection_rate(dashboard.completed, dashboard.rejected),
         throughput |-> workflow_throughput_per_day(dashboard.completed, period_days(scope)),
         efficiency |-> efficiency_score(dashboard.approval.rate, sla.compliance)]

get_department_analytics(got, scope) ==
    LET of == got.get_department_metrics
        sla == got.get_sla_metrics
    IN  [throughput |-> workflow_throughput_per_day(completed_requests(of.counts), period_days(scope)),
         compliance |-> sla.compliance, average |-> sla.averageApproval,
         workload |-> of.workload, backlog |-> sla.overdue]
=============================================================================
