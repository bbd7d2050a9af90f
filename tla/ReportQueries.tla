---------------------------- MODULE ReportQueries ----------------------------
(***************************************************************************)
(* What the dashboards, the analytics engines and the search read.  db is  *)
(* the part of the database they read:                                     *)
(*   requests     [id, company, requester, department, type, status,       *)
(*                 created, completed, deleted, definition, text]          *)
(*   stages       [id, request, order, name, company, status, created,     *)
(*                 decided, to, role, by]                                  *)
(*   definitions  [id, company, type, active, stages: Seq([name, hours,    *)
(*                 to, role])]                                             *)
(*   audit        [id, company, action, actor, request, created]           *)
(* A caller is [user, role, company, bound]: bound tells whether a client  *)
(* for the caller could be made; without it every repository runs on the   *)
(* service role.  Instants are whole hours; a list a query orders is ordered here by the  *)
(* same column, rows of one instant by id.                                 *)
(***************************************************************************)
EXTENDS RowPolicies, Integers, FiniteSets, Sequences, SequencesExt

CONSTANTS
    Profiles,      \* [user, role, company, department, rank]: the accounts
    PageSize,      \* page_size of _fetch_all (100 in the code)
    BatchSize,     \* _ID_FILTER_BATCH_SIZE (50 in the code)
    MAX_PAGE_SIZE  \* the longest page a single read may ask for (100 in the code)

ASSUME PageAssumption == {PageSize, BatchSize, MAX_PAGE_SIZE} \subseteq Nat \ {0}

Anything  == "any"  \* a filter that is not given
Unset     == "none" \* a column that is null
Unbounded == -1     \* created_after or created_before that is not given
Never     == -1     \* completed_at or decided_at that is null
NoHours   == -1     \* escalation_hours that is null

\* profiles.role is an enumeration; user ids are no filters.
ASSUME ProfilesAssumption ==
    /\ IsFiniteSet(Profiles)
    /\ \A p \in Profiles : p.role \in UserRole /\ p.user # Anything

-----------------------------------------------------------------------------
(* Pages                                                                   *)

\* A row behind all those of a sorted list that it does not come before
Inserted(list, row, before) ==
    LET k == Cardinality({i \in DOMAIN list : ~before[<<row, list[i]>>]})
    IN  SubSeq(list, 1, k) \o <<row>> \o SubSeq(list, k + 1, Len(list))

\* A set of rows as a list that is sorted, and as a list in any order
SortedBy(rows, before) == FoldSet(LAMBDA row, list : Inserted(list, row, before), <<>>, rows)
Sorted(rows, Before(_, _)) == SortedBy(rows, [pair \in rows \X rows |-> Before(pair[1], pair[2])])
Listed(rows) == Sorted(rows, LAMBDA a, b : FALSE)

Oldest(rows) == Sorted(rows, LAMBDA a, b : a.created < b.created \/ (a.created = b.created /\ a.id < b.id))
Newest(rows) == Sorted(rows, LAMBDA a, b : a.created > b.created \/ (a.created = b.created /\ a.id < b.id))
ById(rows)   == Sorted(rows, LAMBDA a, b : a.id < b.id)

\* paginate: the items of one page; total_pages rounds up.
paginate(rows, number, size) ==
    SubSeq(rows, (number - 1) * size + 1, IF number * size < Len(rows) THEN number * size ELSE Len(rows))

total_pages(total, size) == (total + size - 1) \div size

\* Mutant: the last page is never asked for.
StopsEarly(rows, number) ==
    \/ paginate(rows, number, PageSize) = <<>>
    \/ number + 1 >= total_pages(Len(rows), PageSize)

\* _fetch_all: whether the page just read was the last one to read.
LastPage(rows, number) ==
    \/ paginate(rows, number, PageSize) = <<>>
    \/ number >= total_pages(Len(rows), PageSize)

\* _chunked, of a set of ids
_chunked(ids) ==
    LET all == Sorted(ids, <)
    IN  [i \in 1 .. total_pages(Len(all), BatchSize) |-> ToSet(paginate(all, i, BatchSize))]

-----------------------------------------------------------------------------
(* Filters.  scope: [company, department, type, after, before].            *)

Given(filter, value) == filter = Anything \/ filter = value

InRange(created, scope) ==
    /\ scope.after = Unbounded \/ created >= scope.after
    /\ scope.before = Unbounded \/ created <= scope.before

InScope(request, scope) ==
    /\ Given(scope.department, request.department)
    /\ Given(scope.type, request.type)
    /\ InRange(request.created, scope)

OfCompany(rows, company) == {row \in rows : row.company = company}

Whole(company) ==
    [company |-> company, department |-> Anything, type |-> Anything,
     after |-> Unbounded, before |-> Unbounded]

-----------------------------------------------------------------------------
(* Repository reads                                                        *)

Requested(db, scope, status, mine, ids, include_deleted) ==
    {r \in OfCompany(db.requests, scope.company) :
        /\ InScope(r, scope)
        /\ Given(status, r.status)
        /\ Given(mine, r.requester)
        /\ r.id \in ids
        /\ include_deleted \/ ~r.deleted}

list_requests(db, scope, status, mine, ids, include_deleted) ==
    Newest(Requested(db, scope, status, mine, ids, include_deleted))

RequestIds(db) == {r.id : r \in db.requests}

\* ilike and the word index find the rows whose text holds the query.
search_requests(db, company, mine, ids) ==
    Newest({r \in Requested(db, Whole(company), Anything, mine, ids, FALSE) : r.text = "hit"})

list_overdue_stages(db, company, created_before) ==
    Oldest({s \in OfCompany(db.stages, company) : s.status = "pending" /\ s.created <= created_before})

list_pending_for_approver(db, company, assigned_to, assigned_role) ==
    Oldest({s \in OfCompany(db.stages, company) :
                s.status = "pending" /\ (s.to = assigned_to \/ s.role = assigned_role)})

list_decided(db, scope) ==
    Newest({s \in OfCompany(db.stages, scope.company) :
                s.status \in {"approved", "rejected"} /\ InRange(s.created, scope)})

\* list_by_ids runs on the client of the caller, if there is one: its policy applies.
list_by_ids(db, me, company, ids) ==
    ById({d \in OfCompany(db.definitions, company) :
              d.id \in ids /\ Reaches("workflow_definitions", me.bound, workflow_definitions_select(me, d))})

search_definitions(db, me, is_active) ==
    ById({d \in OfCompany(db.definitions, me.company) :
              /\ is_active => d.active
              /\ Reaches("workflow_definitions", me.bound, workflow_definitions_select(me, d))})

list_by_role(role, company, department) ==
    Sorted({p \in OfCompany(Profiles, company) : p.role = role /\ Given(department, p.department)},
                 LAMBDA a, b : a.rank < b.rank)

\* AuditRepository.list_all
list_all(db, scope, action, actor) ==
    Newest({e \in OfCompany(db.audit, scope.company) :
                e.action = action /\ Given(actor, e.actor) /\ InRange(e.created, scope)})

-----------------------------------------------------------------------------
(* The aggregation functions of migration 0022                             *)

CountBy(rows, Key(_)) ==
    [k \in {Key(row) : row \in rows} |-> Cardinality({row \in rows : Key(row) = k})]

Counted(db, scope) == {r \in OfCompany(db.requests, scope.company) : ~r.deleted /\ InScope(r, scope)}

count_requests_by_status(db, scope) == CountBy(Counted(db, scope), LAMBDA r : r.status)

count_requests_by_type(db, scope) ==
    CountBy(Counted(db, [scope EXCEPT !.type = Anything]), LAMBDA r : r.type)

count_requests_by_department(db, scope) ==
    CountBy(Counted(db, [scope EXCEPT !.department = Anything]),
            LAMBDA r : IF r.department = Unset THEN "unspecified" ELSE r.department)

\* The stages are those of requests in scope; an average is <<sum, count>>, or
\* <<>> when there is nothing to average.
approval_throughput(db, scope) ==
    LET requests == Counted(db, [scope EXCEPT !.department = Anything])
        stages == {s \in OfCompany(db.stages, scope.company) :
                       /\ s.status \in {"approved", "rejected"} /\ s.decided # Never
                       /\ s.request \in {r.id : r \in requests}}
    IN  [completed |-> Cardinality({r \in requests : r.status = "completed"}),
         rejected |-> Cardinality({r \in requests : r.status = "rejected"}),
         average |-> IF stages = {} THEN <<>>
                     ELSE <<MapThenSumSet(LAMBDA s : s.decided - s.created, stages), Cardinality(stages)>>]

-----------------------------------------------------------------------------
(* Lists of the services that are scoped by the caller                     *)

\* _visible_request_ids_for_approver, one bounded page
AssignedRequests(db, me) ==
    {s.request : s \in ToSet(paginate(
        list_pending_for_approver(db, me.company, me.user, me.role), 1, MAX_PAGE_SIZE))}

\* RequestService.list_requests and search_requests: whose requests are listed.
Mine(me) == IF me.role = "employee" THEN me.user ELSE Anything
=============================================================================
