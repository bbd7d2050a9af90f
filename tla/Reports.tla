------------------------------- MODULE Reports -------------------------------
(***************************************************************************)
(* Reports and searches while the company works.  A call of an analytics   *)
(* engine is a frame: it looks into the cache, waits for the lock of its   *)
(* key, reads page by page, may call another report, and stores what it    *)
(* has computed.  Between any two of its reads requests are submitted,     *)
(* decided, escalated or withdrawn.  A search and the dashboard summary    *)
(* read in parallel and are not cached.                                    *)
(***************************************************************************)
EXTENDS Search

CONSTANTS
    Threads,     \* threads that serve calls
    Loads,       \* the loads to consider: the calls [user, bound, key] each thread gets, in order
    Backends,    \* the caches to consider: "ttl" (TTLCache), "redis" (RedisCache)
    Databases,   \* the databases a run may begin with
    Arrivals,    \* [company, requester, department, type, text] that may be submitted
    TTL,         \* _ANALYTICS_CACHE_TTL_SECONDS, in units of the clock
    Begin,       \* the instant a run begins
    MaxChanges,  \* bound: passing hours and writes to the database
    MaxFaults    \* bound: reads that fail, caches that do not answer

VARIABLES
    db,          \* the tables, see ReportQueries
    now,         \* the clock
    changes,     \* counts writes and hours: two states with the same count have the same db and now
    backend,     \* the cache in use
    store,       \* the cache: key -> [expires, value, asOf, clean, by]; by: the callers it was computed for
    locked,      \* the keys whose lock is held
    coming,      \* coming[t]: the calls that will be handed to thread t
    frames,      \* frames[t]: the calls thread t is in, the innermost last
    answer,      \* answer[t]: what the last call of t was answered
    faults       \* counts the faults

vars == <<db, now, changes, backend, store, locked, coming, frames, answer, faults>>
world == <<db, now, changes>>

NoAnswer == [state |-> "none"]

\* create_request gives a request and its first stage the company of its
\* requester, _decide_stage the next stage that of its request.
Sound(tables) ==
    /\ DOMAIN tables = {"requests", "stages", "definitions", "audit"}
    /\ \A name \in DOMAIN tables : IsFiniteSet(tables[name])
    /\ \A r \in tables.requests :
           /\ {"id", "company", "requester"} \subseteq DOMAIN r
           /\ \A p \in Profiles : p.user = r.requester => p.company = r.company
    /\ \A s \in tables.stages :
           /\ {"request", "company"} \subseteq DOMAIN s
           /\ \E r \in tables.requests : r.id = s.request /\ r.company = s.company

\* A user whose token is accepted has a profile.
HasProfile(user) == \E p \in Profiles : p.user = user

ASSUME TablesAssumption == \A tables \in Databases : Sound(tables)

ASSUME ArrivalsAssumption ==
    \A a \in Arrivals, p \in Profiles : p.user = a.requester => p.company = a.company

ASSUME LoadsAssumption ==
    \A load \in Loads :
        /\ DOMAIN load = Threads
        /\ \A t \in Threads :
               /\ load[t] \in Seq(ToSet(load[t]))
               /\ \A ask \in ToSet(load[t]) : HasProfile(ask.user)

ASSUME ClockAssumption == TTL \in Int /\ Begin \in Int

-----------------------------------------------------------------------------
(* Calls.  key: [method, scope, sla, limit, granularity, user, types].     *)

\* AnalyticsEngine and OperationalAnalyticsEngine decorate with cached_method.
CachedMethods ==
    {"get_dashboard_metrics", "get_approval_metrics", "get_workflow_metrics", "get_department_metrics",
     "get_user_metrics", "get_workload_summary", "get_request_trend", "get_sla_metrics",
     "get_approval_delays", "get_bottlenecks", "get_workload_report", "get_trends",
     "get_executive_kpis", "get_department_analytics"}

\* The calls that read on a pool of threads
Pooled == {"search", "get_dashboard_summary"}

\* _require_analytics_access and _require_self_or_admin
Allowed(me, key) ==
    \/ key.method \in Pooled
    \/ /\ me.role \in {"approver", "admin"}
       /\ key.method \in {"get_user_metrics", "build_user_summary"} => me.role = "admin" \/ key.user = me.user

\* cached_method: the name and every argument
CacheKey(key) == key

\* validate_date_range; get_user_metrics knows the users of the company only.
Refuses(key) ==
    \/ key.scope.after # Unbounded /\ key.scope.before # Unbounded /\ key.scope.after > key.scope.before
    \/ /\ key.method = "get_user_metrics"
       /\ ~\E p \in Profiles : p.user = key.user /\ p.company = key.scope.company

\* What a report asks of another: build_*_summary choose the granularity.
Nested(key, method) ==
    [key EXCEPT !.method = method, !.sla = NoHours, !.limit = 0, !.types = {},
        !.granularity = CASE method # "get_request_trend" -> Anything
                          [] key.method = "build_executive_summary" -> "month"
                          [] key.method = "build_operational_summary" -> "day"
                          [] key.method \in {"build_workflow_summary", "build_department_summary"} -> "week"
                          [] OTHER -> key.granularity,
        !.scope = IF key.method = "get_workload_report"
                  THEN [Whole(@.company) EXCEPT !.department = key.scope.department] ELSE @]

-----------------------------------------------------------------------------
(* What each call reads, in order.  A step is [read, for, page, at, ids,   *)
(* free]: free means that no ids restrict the read.                        *)

Step(read, for) == [read |-> read, for |-> for, page |-> 1, at |-> Never, ids |-> {}, free |-> TRUE]
Reads(names) == MapSeq(names, LAMBDA name : Step(name, name))
Calls(method) == <<Step("call", method)>>
If(condition, steps) == IF condition THEN steps ELSE <<>>

\* Reads whose pages are gathered by _fetch_all
PagedReads ==
    {"pending", "decided", "requests", "definitions", "completed", "matching", "approvers", "admins",
     "approvals", "rejections"}

ApprovalReads(scope) ==
    Reads(<<"status">>)
    \o If(scope.department = Anything, Reads(<<"throughput">>))
    \o If(scope.department = Anything /\ scope.type = Anything, Reads(<<"escalations">>))

SummaryReads == Reads(<<"approvers", "admins", "approvals", "rejections">>)

\* _search_*: a caller who is restricted reads the ids first.
SearchRead(me, kind) ==
    CASE kind = "request" -> Step(IF me.role = "approver" THEN "assigned" ELSE "request", kind)
      [] kind \in ScopedKinds ->
             Step(IF Unrestricted(me) THEN kind
                  ELSE IF me.role = "approver" THEN "assigned" ELSE "visible", kind)
      [] kind = "approval" -> Step("queue", kind)
      [] OTHER -> Step(kind, kind)

\* An employee has no queue to search.
Searched(me, types) ==
    {kind \in Planned(me, types) : kind = "approval" => me.role \in {"approver", "admin"}}

\* The report each summary of the reporting engine is written from
SummaryOf ==
    [build_executive_summary |-> "get_dashboard_metrics", build_operational_summary |-> "get_dashboard_metrics",
     build_workflow_summary |-> "get_workflow_metrics", build_department_summary |-> "get_department_metrics",
     build_user_summary |-> "get_user_metrics"]

\* Every summary but the one of a user has a trend beside it.
SummaryCalls(method) ==
    Calls(SummaryOf[method]) \o If(method # "build_user_summary", Calls("get_request_trend"))

Plan(key, me) ==
    LET scope == key.scope IN
    CASE key.method \in {"get_dashboard_metrics", "get_workflow_metrics", "get_department_metrics"} ->
             Reads(<<"breakdown">>) \o ApprovalReads(scope)
      [] key.method = "get_approval_metrics" -> ApprovalReads(scope)
      [] key.method = "get_user_metrics" -> Reads(<<"approved", "rejected", "assigned_count">>)
      [] key.method = "get_workload_summary" -> SummaryReads \o Reads(<<"pending">>)
      [] key.method = "get_request_trend" -> Reads(<<"matching">>)
      [] key.method = "get_sla_metrics" ->
             Reads(<<"pending", "decided", "contexts", "completed">>)
             \o If(scope.department = Anything, Reads(<<"throughput">>))
      [] key.method = "get_approval_delays" -> Reads(<<"pending", "decided", "contexts">>)
      [] key.method = "get_bottlenecks" -> Reads(<<"pending", "decided", "contexts">>) \o SummaryReads
      [] key.method = "get_workload_report" ->
             Calls("get_dashboard_metrics") \o Reads(<<"pending">>) \o SummaryReads
             \o Reads(<<"byDepartment", "byType", "completed">>)
             \o If(scope.department # Anything, Reads(<<"contexts">>))
      [] key.method = "get_trends" ->
             Calls("get_request_trend") \o Reads(<<"completed", "approvals", "rejections">>)
      [] key.method = "get_executive_kpis" -> Calls("get_dashboard_metrics") \o Calls("get_sla_metrics")
      [] key.method = "get_department_analytics" ->
             Calls("get_department_metrics") \o Calls("get_sla_metrics")
      [] key.method \in DOMAIN SummaryOf -> SummaryCalls(key.method)
      [] key.method = "get_dashboard_summary" ->
             <<Step(IF me.role = "approver" THEN "assigned" ELSE "recent", "recent"), Step("unread", "unread")>>
             \o If(me.role \in {"approver", "admin"}, Reads(<<"queue_count", "breakdown", "throughput">>))
      [] key.method = "search" ->
             Listed({SearchRead(me, kind) : kind \in Searched(me, key.types)})

-----------------------------------------------------------------------------
(* One read                                                                *)

\* The rows a paged read matches now; the pages of "pending" share one cutoff.
Rows(key, me, step) ==
    LET scope == key.scope
        company == scope.company
        \* the workload summary inside get_bottlenecks is not restricted in time
        period == IF key.method = "get_trends" THEN [Whole(company) EXCEPT !.after = scope.after, !.before = scope.before]
                  ELSE Whole(company)
    IN  CASE step.read = "pending" -> list_overdue_stages(db, company, step.at)
          [] step.read = "decided" -> list_decided(db, scope)
          [] step.read = "requests" ->
                 list_requests(db, Whole(company), Anything, Anything, step.ids, TRUE)
          [] step.read = "definitions" -> list_by_ids(db, me, company, step.ids)
          [] step.read = "completed" ->
                 list_requests(db, Whole(company), "completed", Anything, RequestIds(db), FALSE)
          [] step.read = "matching" -> list_requests(db, scope, Anything, Anything, RequestIds(db), FALSE)
          [] step.read = "approvers" -> list_by_role("approver", company, scope.department)
          [] step.read = "admins" -> list_by_role("admin", company, scope.department)
          [] step.read = "approvals" -> list_all(db, period, "STAGE_APPROVED", Anything)
          [] step.read = "rejections" -> list_all(db, period, "STAGE_REJECTED", Anything)

\* _is_assigned_to_any_stage of the request, and the rule about viewing it
Sees(me, r) ==
    _authorize_view([user |-> me.user, role |-> me.role, company |-> me.company, expired |-> FALSE], r,
                    {s \in db.stages : s.request = r.id})

\* A read that is one statement; ids are the requests it is restricted to.
Answered(key, me, step, got) ==
    LET scope == key.scope
        ids == IF step.free THEN RequestIds(db) ELSE step.ids
        Count(action) == Len(list_all(db, Whole(scope.company), action, key.user))
    IN  CASE step.read \in {"status", "breakdown"} -> count_requests_by_status(db, scope)
          [] step.read = "throughput" -> approval_throughput(db, scope)
          [] step.read = "byDepartment" -> count_requests_by_department(db, Whole(scope.company))
          [] step.read = "byType" -> count_requests_by_type(db, scope)
          [] step.read = "escalations" ->
                 Len(list_all(db, [scope EXCEPT !.department = Anything], "STAGE_ESCALATED", Anything))
          [] step.read = "approved" -> Count("STAGE_APPROVED")
          [] step.read = "rejected" -> Count("STAGE_REJECTED")
          [] step.read = "assigned_count" ->
                 Len(list_pending_for_approver(db, scope.company, key.user, "no role"))
          [] step.read = "queue_count" -> Len(list_pending_for_approver(db, me.company, me.user, me.role))
          [] step.read = "queue" -> FirstPage(list_pending_for_approver(db, me.company, me.user, me.role))
          [] step.read = "unread" -> Len(_search_notifications(db, me))
          [] step.read = "recent" ->
                 Len(list_requests(db, Whole(me.company), Anything, Mine(me), ids, FALSE))
          [] step.read = "request" -> _search_requests(db, me, ids)
          [] step.read = "approval" -> _search_approvals(db, got.queue)
          [] step.read = "workflow" -> _search_workflows(db, me)
          [] step.read = "user" -> _search_users(me)
          [] step.read = "department" -> _search_departments(me)
          [] step.read \in {"comment", "attachment"} -> Material(db, me, step.read, ids)
          [] step.read = "audit_entry" ->
                 _search_audit_entries(db, IF step.free THEN ids \cup {0} ELSE ids)
          [] step.read = "notification" -> _search_notifications(db, me)

\* What takes the place of a step that has been made; ids the caller turns out
\* not to have end the part.
Following(step, key, me, got) ==
    LET batches(read, ids) ==
            MapSeq(_chunked(ids), LAMBDA batch : [Step(read, read) EXCEPT !.ids = batch, !.free = FALSE])
        restricted(read, ids) ==
            If(ids # {}, <<[Step(read, step.for) EXCEPT !.ids = ids, !.free = FALSE]>>)
        visible == {r.id : r \in ToSet(FirstPage(list_requests(db, Whole(me.company), Anything, Mine(me),
                        IF step.free THEN RequestIds(db) ELSE step.ids, FALSE)))}
    IN  CASE step.read \in PagedReads ->
                 If(~LastPage(Rows(key, me, step), step.page), <<[step EXCEPT !.page = @ + 1]>>)
          [] step.read = "contexts" ->
                 batches("requests", {s.request : s \in ToSet(got.pending \o got.decided)})
                 \o Reads(<<"definition_contexts">>)
          [] step.read = "definition_contexts" ->
                 batches("definitions", {r.definition : r \in ToSet(got.requests)})
          [] step.read = "assigned" ->
                 restricted(IF step.for \in ScopedKinds THEN "visible" ELSE step.for, AssignedRequests(db, me))
          [] step.read = "visible" -> restricted(step.for, visible)
          [] step.read = "queue" -> If(got.queue # <<>>, <<Step("approval", "approval")>>)
          [] OTHER -> <<>>

Empty == [name \in PagedReads |-> <<>>]

\* An assignment to one key of a dict
Having(dict, key, value) == [k \in DOMAIN dict \cup {key} |-> IF k = key THEN value ELSE dict[k]]

Gathered(key, me, step, got) ==
    CASE step.read \in PagedReads ->
             [got EXCEPT ![step.read] = @ \o paginate(Rows(key, me, step), step.page, PageSize)]
      [] step.read \in {"contexts", "definition_contexts", "assigned", "visible"} -> got
      [] OTHER -> Having(got, step.read, Answered(key, me, step, got))

-----------------------------------------------------------------------------
(* What a call makes of what it has read                                   *)

Found(got, kind) == IF kind \in DOMAIN got THEN got[kind] ELSE <<>>

\* The futures are collected in the order of the plan.
SearchResult(got) ==
    Merged(Found(got, "request") \o Found(got, "approval") \o Found(got, "workflow") \o Found(got, "user")
           \o Found(got, "department") \o Found(got, "comment") \o Found(got, "audit_entry")
           \o Found(got, "notification") \o Found(got, "attachment"))

get_dashboard_summary(got) ==
    [open |-> IF "recent" \in DOMAIN got THEN got.recent ELSE 0, unread |-> got.unread,
     pending |-> IF "queue_count" \in DOMAIN got THEN got.queue_count ELSE 0,
     breakdown |-> IF "breakdown" \in DOMAIN got THEN got.breakdown ELSE Nothing]

Result(f) ==
    LET key == f.key
        got == f.got
        scope == key.scope
    IN  CASE key.method = "get_dashboard_metrics" -> get_dashboard_metrics(got, scope)
          [] key.method = "get_approval_metrics" -> _compute_approval_metrics(got, scope)
          [] key.method = "get_workflow_metrics" -> get_workflow_metrics(got, scope)
          [] key.method = "get_department_metrics" -> get_department_metrics(got, scope)
          [] key.method = "get_user_metrics" -> get_user_metrics(got)
          [] key.method = "get_workload_summary" -> get_workload_summary(got)
          [] key.method = "get_request_trend" -> get_request_trend(got, key.granularity)
          [] key.method = "get_sla_metrics" -> get_sla_metrics(got, scope, key.sla, f.started)
          [] key.method = "get_approval_delays" -> get_approval_delays(got, scope, f.started, key.limit)
          [] key.method = "get_bottlenecks" -> get_bottlenecks(got, scope, f.started, key.limit)
          [] key.method = "get_workload_report" -> get_workload_report(got, scope, f.started)
          [] key.method = "get_trends" -> get_trends(got, scope, key.granularity)
          [] key.method = "get_executive_kpis" -> get_executive_kpis(got, scope)
          [] key.method = "get_department_analytics" -> get_department_analytics(got, scope)
          [] key.method = "get_dashboard_summary" -> get_dashboard_summary(got)
          [] key.method = "search" -> SearchResult(got)
          \* the build_ summaries hold the reports they are written from
          [] OTHER -> got

-----------------------------------------------------------------------------
(* The calls                                                               *)

ProfileOf(user) == CHOOSE p \in Profiles : p.user = user

\* bind_tenant_database_client: ask.bound tells whether the client could be made.
Caller(ask) ==
    [user |-> ask.user, role |-> ProfileOf(ask.user).role, company |-> ProfileOf(ask.user).company,
     bound |-> ask.bound]

\* The caller the thread serves
me(t) == answer[t].caller

Inner(t) == frames[t][Len(frames[t])]
Working(f) == f.phase = "work"

Frame(key) ==
    [key |-> key, phase |-> "look", todo |-> <<>>, got |-> Empty, started |-> Never,
     version |-> changes, clean |-> TRUE, sight |-> {}, by |-> {}, keep |-> FALSE]

\* TTLCache._read and the expiry of a Redis key
Live(key) == CacheKey(key) \in DOMAIN store /\ store[CacheKey(key)].expires > now

SetTop(t, f) == frames' = [frames EXCEPT ![t] = [@ EXCEPT ![Len(@)] = f]]

\* The innermost call of t returns: to the call it was made from, or to the asker.
Return(t, value, asOf, clean, by) ==
    LET stack == frames[t]
        outer == stack[Len(stack) - 1]
    IN  IF Len(stack) = 1
        THEN /\ frames' = [frames EXCEPT ![t] = <<>>]
             /\ answer' = [answer EXCEPT ![t] =
                    [state |-> "done", caller |-> @.caller, key |-> Inner(t).key, value |-> value,
                     asOf |-> asOf, clean |-> clean, by |-> by, sight |-> Inner(t).sight]]
        ELSE /\ frames' = [frames EXCEPT ![t] = Append(SubSeq(stack, 1, Len(stack) - 2),
                    [outer EXCEPT !.got = Having(@, Inner(t).key.method, value), !.todo = Tail(@),
                                  !.by = @ \cup by, !.clean = @ /\ clean /\ asOf = outer.version])]
             /\ UNCHANGED answer

\* The call begins to compute a value that is kept or not.
Work(t, keep) ==
    SetTop(t, [Inner(t) EXCEPT !.phase = "work", !.keep = keep, !.started = now, !.version = changes, !.clean = TRUE,
                  !.todo = Plan(Inner(t).key, me(t))])

\* An exception leaves every call of the thread, and with them their locks.
Raise(t) ==
    /\ frames' = [frames EXCEPT ![t] = <<>>]
    /\ answer' = [answer EXCEPT ![t] = [state |-> "error", caller |-> @.caller, key |-> frames[t][1].key]]

HeldBy(t) == {CacheKey(f.key) : f \in {g \in ToSet(frames[t]) : Working(g)}}

\* A route hands a call to a thread, unless the caller may not make it.
Ask(t) ==
    /\ frames[t] = <<>> /\ coming[t] # <<>>
    /\ LET ask == Head(coming[t])
           caller == Caller(ask)
       IN  \/ /\ Allowed(caller, ask.key)
              /\ frames' = [frames EXCEPT ![t] = <<Frame(ask.key)>>]
              /\ answer' = [answer EXCEPT ![t] = [state |-> "asked", caller |-> caller]]
           \/ /\ ~Allowed(caller, ask.key)
              /\ answer' = [answer EXCEPT ![t] = [state |-> "error", caller |-> caller, key |-> ask.key]]
              /\ UNCHANGED frames
    /\ coming' = [coming EXCEPT ![t] = Tail(@)]
    /\ UNCHANGED <<world, backend, store, locked, faults>>

\* get_or_compute up to the lock: a live entry is the answer.
Hit(t) ==
    LET entry == store[CacheKey(Inner(t).key)]
    IN  Live(Inner(t).key) /\ Return(t, entry.value, entry.asOf, entry.clean, entry.by)

Look(t) ==
    /\ frames[t] # <<>> /\ Inner(t).phase = "look"
    /\ IF Inner(t).key.method \notin CachedMethods THEN Work(t, FALSE) /\ UNCHANGED answer
       ELSE \/ Hit(t)
            \/ ~Live(Inner(t).key) /\ backend = "ttl"
               /\ SetTop(t, [Inner(t) EXCEPT !.phase = "wait"]) /\ UNCHANGED answer
            \/ ~Live(Inner(t).key) /\ backend = "redis" /\ Work(t, TRUE) /\ UNCHANGED answer
    /\ UNCHANGED <<world, backend, coming, store, locked, faults>>

\* RedisCache: when the cache cannot be read the value is computed and not kept.
LookFails(t) ==
    /\ frames[t] # <<>> /\ Inner(t).phase = "look" /\ Inner(t).key.method \in CachedMethods
    /\ backend = "redis" /\ faults < MaxFaults
    /\ faults' = faults + 1
    /\ Work(t, FALSE)
    /\ UNCHANGED <<world, backend, coming, store, locked, answer>>

\* Mutant: what another thread has just stored is not looked at again.
LockBlindly(t) ==
    /\ frames[t] # <<>> /\ Inner(t).phase = "wait" /\ CacheKey(Inner(t).key) \notin locked
    /\ locked' = locked \cup {CacheKey(Inner(t).key)}
    /\ Work(t, TRUE)
    /\ UNCHANGED <<world, backend, coming, store, answer, faults>>

\* The lock of the key, and the second look under it
Lock(t) ==
    /\ frames[t] # <<>> /\ Inner(t).phase = "wait" /\ CacheKey(Inner(t).key) \notin locked
    /\ \/ Hit(t) /\ UNCHANGED locked
       \/ /\ ~Live(Inner(t).key)
          /\ locked' = locked \cup {CacheKey(Inner(t).key)}
          /\ Work(t, TRUE)
          /\ UNCHANGED answer
    /\ UNCHANGED <<world, backend, coming, store, faults>>

\* The step of the plan that is made next; a pool makes them in any order.
Ready(f) == IF f.key.method \in Pooled THEN DOMAIN f.todo ELSE {1}

Viewable(caller) == {r.id : r \in {q \in db.requests : Sees(caller, q)}}

\* One statement; the page after it, or what it calls for, takes its place.
Fetch(t) ==
    /\ frames[t] # <<>> /\ Working(Inner(t)) /\ Inner(t).todo # <<>> /\ ~Refuses(Inner(t).key)
    /\ \E i \in Ready(Inner(t)) :
         LET f == Inner(t)
             step == IF f.todo[i].page = 1 THEN [f.todo[i] EXCEPT !.at = now] ELSE f.todo[i]
             got == Gathered(f.key, me(t), step, f.got)
         IN  /\ step.read # "call"
             /\ SetTop(t, [f EXCEPT !.got = got,
                    !.todo = SubSeq(@, 1, i - 1) \o Following(step, f.key, me(t), got) \o SubSeq(@, i + 1, Len(@)),
                    !.sight = IF f.key.method = "search" THEN @ \cup Viewable(me(t)) ELSE @])
    /\ UNCHANGED <<world, backend, coming, store, locked, answer, faults>>

\* A report asks another report.
Enter(t) ==
    /\ frames[t] # <<>> /\ Working(Inner(t)) /\ Inner(t).todo # <<>> /\ ~Refuses(Inner(t).key)
    /\ Head(Inner(t).todo).read = "call"
    /\ frames' = [frames EXCEPT ![t] = Append(@, Frame(Nested(Inner(t).key, Head(Inner(t).todo).for)))]
    /\ UNCHANGED <<world, backend, coming, store, locked, answer, faults>>

\* The value is stored when it is complete; Redis may fail to take it.
Finish(t) ==
    /\ frames[t] # <<>> /\ Working(Inner(t)) /\ Inner(t).todo = <<>> /\ ~Refuses(Inner(t).key)
    /\ LET f == Inner(t)
           key == CacheKey(f.key)
           clean == f.clean /\ f.version = changes
           entry == [expires |-> now + TTL, value |-> Result(f), asOf |-> f.version, clean |-> clean,
                     by |-> f.by \cup {me(t)}]
       IN  /\ Return(t, entry.value, f.version, clean, entry.by)
           /\ locked' = locked \ {key}
           /\ \/ /\ f.keep
                 /\ store' = Having(store, key, entry)
                 /\ UNCHANGED faults
              \/ /\ ~f.keep
                 /\ UNCHANGED <<store, faults>>
              \/ /\ f.keep /\ backend = "redis" /\ faults < MaxFaults
                 /\ faults' = faults + 1
                 /\ UNCHANGED store
    /\ UNCHANGED <<world, backend, coming>>

\* Mutant: only the innermost call gives its lock back.
LeavesLocks(t) == locked \ {CacheKey(Inner(t).key)}

Unlocked(t) == locked \ HeldBy(t)

\* validate_date_range, or a profile that is not there
Refused(t) ==
    /\ frames[t] # <<>> /\ Working(Inner(t)) /\ Refuses(Inner(t).key)
    /\ Raise(t)
    /\ locked' = Unlocked(t)
    /\ UNCHANGED <<world, backend, coming, store, faults>>

\* A read fails: DatabaseError, which nothing here survives.
Fail(t) ==
    /\ frames[t] # <<>> /\ Working(Inner(t)) /\ Inner(t).todo # <<>> /\ ~Refuses(Inner(t).key)
    /\ Head(Inner(t).todo).read # "call"
    /\ faults < MaxFaults
    /\ faults' = faults + 1
    /\ Raise(t)
    /\ locked' = Unlocked(t)
    /\ UNCHANGED <<world, backend, coming, store>>

-----------------------------------------------------------------------------
(* What goes on meanwhile: the writes of a request's life that the reports *)
(* read, each as the whole of what a successful call leaves behind.        *)

Log(action, actor, request) ==
    [id |-> Cardinality(db.audit) + 1, company |-> Unset, action |-> action, actor |-> actor,
     request |-> request, created |-> now]

\* The version of the definition that a request is pinned to
DefinitionOf(r) == CHOOSE d \in db.definitions : d.id = r.definition

StageRow(r, definition, order) ==
    LET s == definition.stages[order]
    IN  [id |-> 10 * r.id + order, request |-> r.id, order |-> order, name |-> s.name,
         company |-> r.company, status |-> "pending", created |-> now, decided |-> Never,
         to |-> s.to, role |-> s.role, by |-> Unset]

Written(tables) ==
    /\ changes < MaxChanges
    /\ db' = tables
    /\ changes' = changes + 1
    /\ UNCHANGED <<now, backend, coming, store, locked, frames, answer, faults>>

create_request ==
    \E a \in Arrivals, d \in {e \in db.definitions : e.active} :
        LET r == [id |-> Cardinality(db.requests) + 1, company |-> a.company, requester |-> a.requester,
                  department |-> a.department, type |-> a.type, status |-> "pending", created |-> now,
                  completed |-> Never, deleted |-> FALSE, definition |-> d.id, text |-> a.text]
        IN  /\ d.company = a.company /\ d.type = a.type
            /\ Written([db EXCEPT !.requests = @ \cup {r}, !.stages = @ \cup {StageRow(r, d, 1)},
                                  !.audit = @ \cup {Log("REQUEST_CREATED", a.requester, r.id)}])

\* approve_stage and reject_stage by someone the stage is for
Decide ==
    \E s \in db.stages, p \in Profiles, status \in {"approved", "rejected"} :
        LET r == RequestOf(db, s.request)
            d == DefinitionOf(r)
            more == status = "approved" /\ s.order < Len(d.stages)
            ended == [r EXCEPT !.status = IF status = "approved" THEN "completed" ELSE "rejected", !.completed = now]
        IN  /\ s.status = "pending" /\ p.company = s.company /\ p.role # "employee"
            /\ s.to = p.user \/ s.role = p.role
            /\ Written([db EXCEPT
                   !.stages = (@ \ {s}) \cup {[s EXCEPT !.status = status, !.decided = now, !.by = p.user]}
                              \cup (IF more THEN {StageRow(r, d, s.order + 1)} ELSE {}),
                   !.requests = (@ \ {r}) \cup {IF more THEN [r EXCEPT !.status = "in_review"] ELSE ended},
                   !.audit = @ \cup {Log(IF status = "approved" THEN "STAGE_APPROVED" ELSE "STAGE_REJECTED",
                                         p.user, r.id)}])

\* A late stage goes to the administrators.
escalate_stage ==
    \E s \in db.stages :
        LET d == DefinitionOf(RequestOf(db, s.request))
            hours == d.stages[s.order].hours
        IN  /\ s.status = "pending" /\ s.role # "admin" /\ hours # NoHours
            /\ is_stage_escalation_eligible(s.created, hours, now)
            /\ Written([db EXCEPT
                   !.stages = (@ \ {s}) \cup {[s EXCEPT !.to = Unset, !.role = "admin"]},
                   !.audit = @ \cup {Log("STAGE_ESCALATED", Unset, s.request)}])

withdraw_request ==
    \E r \in db.requests :
        /\ r.status = "pending" /\ ~r.deleted
        /\ Written([db EXCEPT !.requests = (@ \ {r}) \cup {[r EXCEPT !.deleted = TRUE]},
                              !.audit = @ \cup {Log("REQUEST_WITHDRAWN", r.requester, r.id)}])

\* Another version of a request type becomes the active one.
activate_definition ==
    \E d \in db.definitions :
        /\ ~d.active
        /\ Written([db EXCEPT !.definitions =
               {[e EXCEPT !.active = IF e.company = d.company /\ e.type = d.type THEN e.id = d.id ELSE @] :
                e \in @}])

Tick ==
    /\ changes < MaxChanges
    /\ now' = now + 1
    /\ changes' = changes + 1
    /\ UNCHANGED <<db, backend, coming, store, locked, frames, answer, faults>>

-----------------------------------------------------------------------------
Init ==
    /\ db \in Databases
    /\ now = Begin /\ changes = 0
    /\ backend \in Backends
    /\ store = <<>> /\ locked = {}
    /\ coming \in Loads
    /\ frames = [t \in Threads |-> <<>>]
    /\ answer = [t \in Threads |-> NoAnswer]
    /\ faults = 0

Proceed(t) == Look(t) \/ LookFails(t) \/ Lock(t) \/ Fetch(t) \/ Enter(t) \/ Finish(t) \/ Refused(t) \/ Fail(t)

Write == create_request \/ Decide \/ escalate_stage \/ withdraw_request \/ activate_definition

Next == (\E t \in Threads : Ask(t) \/ Proceed(t)) \/ Write \/ Tick

\* ENABLED Proceed(t): a thread stands still only before a lock that is held.
CanProceed(t) ==
    frames[t] # <<>> /\ (Inner(t).phase = "wait" => CacheKey(Inner(t).key) \notin locked)

\* A thread that serves a call goes on with it, WF_vars(Proceed(t)) written out
\* (nothing but Proceed(t) changes a call under way); writes and the clock owe
\* nothing.
Fairness == \A t \in Threads : []<>~CanProceed(t) \/ []<><<frames[t] # <<>> /\ frames'[t] # frames[t]>>_vars

Spec == Init /\ [][Next]_vars /\ Fairness

-----------------------------------------------------------------------------
(* The figures, said of the tables themselves                              *)

Requests(scope) == {r \in db.requests : r.company = scope.company /\ InScope(r, scope)}

StageIn(scope, s) ==
    LET r == RequestOf(db, s.request)
    IN  s.company = scope.company /\ Given(scope.department, r.department) /\ Given(scope.type, r.type)

Awaiting(scope) == {s \in db.stages : s.status = "pending" /\ StageIn(scope, s)}

Settled(scope) ==
    {s \in db.stages : s.status \in {"approved", "rejected"} /\ StageIn(scope, s) /\ InRange(s.created, scope)}

Alive(scope) == {r \in Requests(scope) : ~r.deleted}
In(scope, status) == {r \in Alive(scope) : r.status = status}

\* The hours a stage may take, as far as the caller can read the definition.
HoursFor(caller, s) ==
    LET d == DefinitionOf(RequestOf(db, s.request))
    IN  IF Reaches("workflow_definitions", caller.bound, workflow_definitions_select(caller, d))
        THEN d.stages[s.order].hours ELSE NoHours

Exceeds(caller, s, sla, instant) ==
    LET hours == IF sla = NoHours THEN HoursFor(caller, s) ELSE sla
    IN  hours # NoHours /\ instant - s.created > hours

Overdue(caller, scope, sla) == {s \in Awaiting(scope) : Exceeds(caller, s, sla, now)}

Taken(s) == s.decided - s.created

\* The average over a set, or that there is nothing to average
AverageTrue(v, set, Of(_)) ==
    v = IF set = {} THEN Nothing ELSE <<MapThenSumSet(Of, set), Cardinality(set)>>

ShareTrue(v, part, whole) == v = IF whole = {} THEN Nothing ELSE <<Cardinality(part), Cardinality(whole)>>

\* Completed requests per day of a bounded period of at least one day
PaceTrue(v, scope) ==
    LET hours == scope.before - scope.after
    IN  IF scope.after = Unbounded \/ scope.before = Unbounded THEN v = Nothing
        ELSE v[1] * (IF hours < DayHours THEN DayHours ELSE hours)
                 = Cardinality(In(scope, "completed")) * DayHours * v[2]

\* The time a decision of a request of the scope took; unknown for a department.
ApprovalTimeTrue(v, scope) ==
    IF scope.department # Anything THEN v = Nothing
    ELSE AverageTrue(v, {s \in db.stages : s.status # "pending" /\ RequestOf(db, s.request) \in Alive(scope)}, Taken)

\* All approval metrics but the escalations
ApprovalTrue(scope, v) ==
    /\ v.completed = Cardinality(In(scope, "completed"))
    /\ v.rejected = Cardinality(In(scope, "rejected"))
    /\ ShareTrue(v.rate, In(scope, "completed"), In(scope, "completed") \cup In(scope, "rejected"))
    /\ ApprovalTimeTrue(v.average, scope)

\* A dict of counts names every status once.
BreakdownTrue(scope, counts) ==
    \A status \in {r.status : r \in db.requests} \cup DOMAIN counts :
        CountOf(counts, status) = Cardinality(In(scope, status))

Workload(scope) == In(scope, "pending") \cup In(scope, "in_review")

SlaTrue(key, v, caller) ==
    LET judged == {s \in Settled(key.scope) : key.sla # NoHours \/ HoursFor(caller, s) # NoHours}
        breached == {s \in judged : Exceeds(caller, s, key.sla, s.decided)}
        overdue == Overdue(caller, key.scope, key.sla)
    IN  /\ v.pending = Cardinality(Awaiting(key.scope))
        /\ v.overdue = Cardinality(overdue)
        /\ v.overdueRequests = Cardinality({s.request : s \in overdue})
        /\ AverageTrue(v.averageAge, Awaiting(key.scope), LAMBDA s : now - s.created)
        /\ v.decided = Cardinality(judged) /\ v.breaches = Cardinality(breached)
        /\ ShareTrue(v.compliance, judged \ breached, judged)
        /\ AverageTrue(v.averageTotal, In(key.scope, "completed"), LAMBDA r : r.completed - r.created)
        /\ ApprovalTimeTrue(v.averageApproval, key.scope)

\* The median splits the decisions in halves; nothing left out has waited longer.
DelaysTrue(key, v) ==
    LET settled == Settled(key.scope)
        listed == {v.longest[i].stage : i \in DOMAIN v.longest}
    IN  /\ settled # {} =>
            /\ v.average = <<MapThenSumSet(Taken, settled), Cardinality(settled)>>
            /\ 2 * Cardinality({s \in settled : Taken(s) * v.median[2] < v.median[1]}) <= Cardinality(settled)
            /\ 2 * Cardinality({s \in settled : Taken(s) * v.median[2] > v.median[1]}) <= Cardinality(settled)
        /\ \A s \in Awaiting(key.scope) :
               s.id \in listed \/ \A o \in Awaiting(key.scope) : o.id \in listed => o.created <= s.created
        /\ SumOf(MapSeq(v.byStage, LAMBDA b : b.count)) = Cardinality(settled)
        /\ SumOf(MapSeq(v.byDepartment, LAMBDA b : b.count)) = Cardinality(settled)

SummaryTrue(company, rows) ==
    \A i \in DOMAIN rows :
        rows[i].pending = Cardinality({s \in db.stages : s.company = company /\ s.status = "pending" /\ s.to = rows[i].user})

BottlenecksTrue(key, v, caller) ==
    LET late == Overdue(caller, key.scope, NoHours)
    IN  /\ SummaryTrue(key.scope.company, v.queues)
        /\ \A i \in DOMAIN v.overdueStages :
               v.overdueStages[i].count = Cardinality({s \in late : s.name = v.overdueStages[i].key})
        /\ \A i \in DOMAIN v.rejections :
               v.rejections[i].rejected = Cardinality({s \in Settled(key.scope) :
                                              s.name = v.rejections[i].key /\ s.status = "rejected"})

\* A series counts every instant once, in periods that follow each other.
SeriesTrue(series, instants) ==
    /\ \A i \in DOMAIN series : i > 1 => series[i - 1].end <= series[i].start
    /\ \A i \in DOMAIN series :
           series[i].value =
               Cardinality({r \in instants : /\ series[i].start <= r[2]
                                             /\ r[2] < series[i].end \/ series[i].end = Never})
    /\ SumOf(MapSeq(series, LAMBDA p : p.value)) = Cardinality(instants)

DashboardTrue(scope, v) ==
    /\ v.total = Cardinality(Alive(scope))
    /\ v.active = Cardinality({r \in Alive(scope) : r.completed = Never})
    /\ v.completed = Cardinality(In(scope, "completed"))
    /\ v.total = v.active + v.completed + v.rejected
    /\ ApprovalTrue(scope, v.approval)

WorkloadReportTrue(scope, v) ==
    LET all == [Whole(scope.company) EXCEPT !.department = scope.department]
    IN  /\ SummaryTrue(scope.company, v.summary)
        /\ v.pending = Cardinality(Awaiting(all))
        /\ v.active = Cardinality(Workload(all)) /\ v.completed = Cardinality(In(all, "completed"))
        /\ v.today <= v.week /\ v.week <= v.month /\ v.month <= v.completed
        /\ \A type \in DOMAIN v.byWorkflow :
               v.byWorkflow[type] = Cardinality(Alive([all EXCEPT !.type = type]))

ExecutiveTrue(key, v, caller) ==
    LET completed == In(key.scope, "completed")
        rejected == In(key.scope, "rejected")
    IN  /\ v.pending = Cardinality(Awaiting(key.scope))
        /\ v.overdue = Cardinality(Overdue(caller, key.scope, NoHours))
        /\ v.active = Cardinality(Workload(key.scope)) /\ v.completed = Cardinality(completed)
        /\ ShareTrue(v.rejections, rejected, completed \cup rejected)
        /\ PaceTrue(v.throughput, key.scope)

\* What a report says is so, for a caller it was computed for.  What is counted
\* from audit entries is not looked at: the decisions of a user in the user
\* metrics and the workload summary, the series of approvals and rejections in
\* the trends, the escalations in the approval metrics.
ReportTrue(key, v, caller) ==
    CASE key.method = "get_sla_metrics" -> SlaTrue(key, v, caller)
      [] key.method = "get_approval_delays" -> DelaysTrue(key, v)
      [] key.method = "get_bottlenecks" -> BottlenecksTrue(key, v, caller)
      [] key.method = "get_workload_summary" -> SummaryTrue(key.scope.company, v)
      [] key.method = "get_workload_report" -> WorkloadReportTrue(key.scope, v)
      [] key.method = "get_trends" ->
             /\ SeriesTrue(v.completion, {<<r.id, r.completed>> : r \in In(key.scope, "completed")})
             /\ SeriesTrue(v.volume, {<<r.id, r.created>> : r \in Alive(key.scope)})
      [] key.method = "get_request_trend" -> SeriesTrue(v, {<<r.id, r.created>> : r \in Alive(key.scope)})
      [] key.method = "get_dashboard_metrics" -> DashboardTrue(key.scope, v)
      [] key.method = "get_approval_metrics" -> ApprovalTrue(key.scope, v)
      [] key.method = "get_workflow_metrics" ->
             /\ BreakdownTrue(key.scope, v.counts) /\ ApprovalTrue(key.scope, v.approval)
             /\ PaceTrue(v.throughput, key.scope)
      [] key.method = "get_department_metrics" ->
             /\ BreakdownTrue(key.scope, v.counts) /\ ApprovalTrue(key.scope, v.approval)
             /\ v.workload = Cardinality(Workload(key.scope))
      [] key.method = "get_user_metrics" ->
             v.pending = Cardinality({s \in db.stages :
                             s.company = key.scope.company /\ s.status = "pending" /\ s.to = key.user})
      [] key.method = "get_executive_kpis" -> ExecutiveTrue(key, v, caller)
      [] key.method = "get_department_analytics" ->
             /\ v.workload = Cardinality(Workload(key.scope))
             /\ v.backlog = Cardinality(Overdue(caller, key.scope, NoHours))
             /\ ApprovalTimeTrue(v.average, key.scope) /\ PaceTrue(v.throughput, key.scope)

ReportMethods == CachedMethods \cup DOMAIN SummaryOf

\* A summary is true when the reports it is written from are.
Truthful(key, v, caller) ==
    IF key.method \in CachedMethods THEN ReportTrue(key, v, caller)
    ELSE \A method \in {SummaryOf[key.method], "get_request_trend"} \cap DOMAIN v :
             ReportTrue(Nested(key, method), v[method], caller)

-----------------------------------------------------------------------------
(* Properties                                                              *)

\* A call of t is answered in this step.
Answering(t) == frames[t] # <<>> /\ frames'[t] = <<>> /\ answer'[t].state = "done"

\* Every report of the two engines, and every summary written from them, whose
\* reads saw one state of the tables says of the company it is asked about what
\* the tables say, in all figures ReportTrue looks at, however it was paged,
\* batched, joined, cached and put together; as long as nothing has changed, a
\* cached one does so too.
AnswersExact ==
    [][\A t \in Threads :
        Answering(t) /\ answer'[t].key.method \in ReportMethods /\ answer'[t].clean /\ answer'[t].asOf = changes
            => \E caller \in answer'[t].by : Truthful(answer'[t].key, answer'[t].value, caller)]_vars

\* TTLCache: a value is computed only when no live one is stored and nobody else
\* is computing it; the others wait and take what was stored.
Computing(t) == {i \in DOMAIN frames[t] : Working(frames[t][i]) /\ frames[t][i].key.method \in CachedMethods}

NoStampede ==
    [][backend = "ttl" =>
        \A t \in Threads : \A i \in Computing(t)' \ Computing(t) :
            LET key == CacheKey(frames'[t][i].key)
            IN  /\ key \in DOMAIN store => store[key].expires <= now
                /\ \A o \in Threads \ {t} : \A j \in Computing(o) : CacheKey(frames[o][j].key) # key]_vars

\* A call that has been taken is answered: reports that wait for each other's
\* keys, one inside another, do not wait for ever, also when one of them fails.
EveryAskAnswered == \A t \in Threads : frames[t] # <<>> ~> frames[t] = <<>>

\* A search shows a caller only items of requests that were the caller's to see
\* at some time during the search, and items of the own company that belong to
\* no request, although the ids and the rows are read in different statements on
\* different clients.  Two things an administrator finds are not held by that:
\* the audit entries, and, in a call without a client of its own, comments and
\* attachments; SearchWithinCompany is about them.
SearchWithinSight ==
    \A t \in Threads :
        answer[t].state = "done" /\ answer[t].key.method = "search" =>
            \A i \in DOMAIN answer[t].value :
                LET item == answer[t].value[i]
                IN  \/ item.request \in answer[t].sight
                    \/ item.request = 0 /\ item.company = me(t).company
                    \/ item.kind = "audit_entry" /\ me(t).role = "admin"
                    \/ item.kind \in {"comment", "attachment"} /\ me(t).role = "admin" /\ ~me(t).bound

-----------------------------------------------------------------------------
(* What the documentation says and the code does not keep                  *)

\* get_workload_summary: the decisions of each user are counted.
DecisionsCounted ==
    \A t \in Threads :
        answer[t].state = "done" /\ answer[t].clean /\ answer[t].asOf = changes
        /\ answer[t].key.method = "get_workload_summary"
            => \A i \in DOMAIN answer[t].value :
                   LET row == answer[t].value[i]
                   IN  row.approved = Cardinality({s \in db.stages : s.by = row.user /\ s.status = "approved"})

\* search_service: a search "never grants a caller visibility into a request they
\* could not already reach"; at least, with a client of the caller's own, whatever
\* it finds of a request is of a request of the caller's company.
SearchWithinCompany ==
    \A t \in Threads :
        answer[t].state = "done" /\ answer[t].key.method = "search" /\ me(t).bound =>
            \A i \in DOMAIN answer[t].value :
                LET request == answer[t].value[i].request
                IN  request # 0 => RequestOf(db, request).company = me(t).company

\* TTLCache.get_or_compute: every caller of a key wants the identical result.
SameForEveryCaller ==
    \A t \in Threads :
        answer[t].state = "done" /\ answer[t].key.method \in ReportMethods
        /\ answer[t].clean /\ answer[t].asOf = changes
            => Truthful(answer[t].key, answer[t].value, me(t))
=============================================================================
