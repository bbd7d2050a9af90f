------------------------------- MODULE Gateway -------------------------------
(***************************************************************************)
(* What happens to an HTTP request between its arrival and its answer: the *)
(* dependencies of the router (the token, the general rate limiter, the    *)
(* caller's own database client), the narrower limiter of the route, the   *)
(* handler with its check of the caller, its statement, and the teardown.  *)
(* Requests are tasks of one process, interleaved between these steps.     *)
(*                                                                         *)
(* The claims of a token are cached by the verifier; a role changed since  *)
(* is seen by the row policies, which read the profile, before it is seen  *)
(* by the checks.  A token's client is cached as well.                     *)
(***************************************************************************)
EXTENDS Endpoints, ApiErrors, RowPolicies, Integers, Sequences, FiniteSets

CONSTANTS
    Tasks,
    Requester, Approver, Admin, Foreigner, Operator,
        \* Foreigner: an administrator of another company; Operator: a platform administrator
    None,
    Menu, Callers,      \* the routes that may be asked of a task, and the users who ask
    Changing,           \* the users whose role may change
    Rounds,             \* Rounds[t]: how many requests it serves
    Limits,             \* Limits[l]: what limiter l admits in the window looked at
    MaxClients,         \* _USER_CLIENT_CACHE_MAX_ENTRIES
    MaxChanges, MaxOutages, MaxLapses

Users == {Requester, Approver, Admin, Foreigner, Operator}

Limiters == {"read", "write", "upload", "poll", "search", "ai", "invitation"}

ASSUME GatewayAssumption ==
    /\ Cardinality(Users \cup {None}) = 6
    /\ IsFiniteSet(Tasks)
    /\ \A t \in Tasks : Menu[t] \subseteq Endpoints /\ Callers[t] \subseteq Users /\ Rounds[t] \in Nat
    /\ Changing \subseteq Users
    /\ \A l \in Limiters : Limits[l] \in Nat
    /\ {MaxClients, MaxChanges, MaxOutages, MaxLapses} \subseteq Nat

VARIABLES
    profile,    \* profile[u]: the row of u
    claims,     \* claims[u]: the cached claims of u's token, or None
    clients,    \* the client cache, by age: [token, fresh]
    hits,       \* hits[l]: how often each user was admitted by limiter l
    task,       \* task[t]: [pc, user, route, id, answer, rounds]
    bound,      \* bound[t]: whose client is bound in t's context, or None
    served,     \* served[l]: the statements executed for each user behind limiter l
                \* (history variable)
    budget

vars == <<profile, claims, clients, hits, task, bound, served, budget>>

NoRoute == [name |-> "none", area |-> "none", verb |-> "none", guard |-> "none",
            narrow |-> "none", table |-> "service"]

Free == [pc |-> "idle", user |-> None, route |-> NoRoute, id |-> None, answer |-> 0]

At(t, pc) == task[t].pc = pc

Goto(t, pc) == task' = [task EXCEPT ![t].pc = pc]

\* An exception goes through the teardown of the dependencies to its handler.
Fail(t, status) == task' = [task EXCEPT ![t].pc = "unbind", ![t].answer = status]

-----------------------------------------------------------------------------
(* The caller and the row                                                  *)

from_claims(u, row) ==
    [user |-> u, role |-> row.role, company |-> row.company, platform |-> row.platform,
     expired |-> FALSE]

Request == [requester |-> Requester, company |-> "own", status |-> "pending"]

Stages == {[to |-> Approver, role |-> "none"]}

\* The attachment in question was uploaded by the requester.
RowGuard(guard, id) ==
    /\ Request.company = id.company
    /\ CASE guard = "view" -> _authorize_view(id, Request, Stages)
         [] guard = "edit" -> authorize_request_edit(id, Request.requester = id.user, TRUE)
         [] guard = "withdraw" -> authorize_request_withdrawal(id, Request.requester = id.user, TRUE)
         [] guard = "audit" -> authorize_audit_trail_view(id, Request.requester = id.user,
                                                          _is_assigned_to_any_stage(id, Stages))
         [] guard = "decide" -> authorize_stage_decision(id, id.user = Approver, FALSE, TRUE)
         [] guard = "moderate" -> authorize_comment_moderation(id)
         [] guard = "remove" -> authorize_attachment_removal(id, Request.requester = id.user, TRUE)

RowGuards == {"view", "edit", "withdraw", "audit", "decide", "moderate", "remove"}

require_role(id, allowed) == id.role \in allowed

_require_analytics_access(id) == require_role(id, {"approver", "admin"})

_require_self_or_admin(id, about) == _require_analytics_access(id) /\ (id.role = "admin" \/ id.user = about)

\* Mutant: the role check of an administrator's route is missing.
AdminUnchecked(guard, id, about) == TRUE

RoleGuard(guard, id, about) ==
    CASE guard \in {"any", "none"} -> TRUE
      [] guard = "own" -> id.user = about
      [] guard = "define" -> authorize_workflow_definition_management(id)
      [] guard = "users" -> authorize_user_role_management(id)
      [] guard = "admin" -> require_role(id, {"admin"})
      [] guard = "invite" -> require_role(id, {"admin"}) \/ id.platform
      [] guard = "analyst" -> _require_analytics_access(id)
      [] guard = "self" -> _require_self_or_admin(id, about)
      [] guard = "platform" -> authorize_platform_admin(id)

Granted(route, id, about) ==
    IF route.guard \in RowGuards THEN RowGuard(route.guard, id) ELSE RoleGuard(route.guard, id, about)

-----------------------------------------------------------------------------
(* Dependencies of the router                                              *)

Public(route) == route.guard = "none"

extract_bearer_token(header) ==
    CASE header = "none" -> "MissingCredentials"
      [] header = "malformed" -> "MalformedAuthorizationHeader"
      [] header = "bearer" -> "ok"

\* AuthenticationMiddleware.process: the claims come from the verifier's cache or from the
\* profile.
process(u) == IF claims[u] = None THEN from_claims(u, profile[u]) ELSE claims[u]

\* A request of u comes in and is authenticated; without a usable token it ends there.
Authenticate(t, u, route) ==
    /\ At(t, "idle") /\ budget.rounds[t] > 0 /\ route \in Menu[t]
    /\ LET new == [Free EXCEPT !.user = u, !.route = route] IN
       \/ /\ Public(route)
          /\ task' = [task EXCEPT ![t] = [new EXCEPT !.pc = "narrow"]]
          /\ UNCHANGED claims
       \/ \E header \in {"none", "malformed", "bearer"} :
          LET result == extract_bearer_token(header) IN
          /\ ~Public(route)
          /\ task' = [task EXCEPT ![t] =
               IF result = "ok" THEN [new EXCEPT !.pc = "limit", !.id = process(u)]
               ELSE [new EXCEPT !.pc = "unbind", !.answer = _handle_auth_error(result)]]
          /\ claims' = IF result = "ok" THEN [claims EXCEPT ![u] = process(u)] ELSE claims
    /\ budget' = [budget EXCEPT !.rounds[t] = @ - 1]
    /\ UNCHANGED <<profile, clients, hits, bound, served>>

Admits(l, u) == hits[l][u] < Limits[l]

\* Mutant: the hit is not recorded.
HitNotRecorded(l, u) == UNCHANGED hits

Hit(l, u) == hits' = [hits EXCEPT ![l][u] = @ + 1]

\* enforce_rate_limit
GeneralLimiter(route) == IF route.verb = "GET" THEN "read" ELSE "write"

Limit(t) ==
    /\ At(t, "limit")
    /\ LET l == GeneralLimiter(task[t].route) IN
       IF Admits(l, task[t].user)
       THEN Hit(l, task[t].user) /\ Goto(t, "bind")
       ELSE Fail(t, 429) /\ UNCHANGED hits
    /\ UNCHANGED <<profile, claims, clients, bound, served, budget>>

\* _prune_user_client_cache: what has expired, and the oldest of what is too many.
Pruned(cache) ==
    LET fresh == SelectSeq(cache, LAMBDA e : e.fresh)
        over == Len(fresh) - MaxClients
    IN  IF over > 0 THEN SubSeq(fresh, over + 1, Len(fresh)) ELSE fresh

Cached(u) == \E k \in DOMAIN clients : clients[k].token = u /\ clients[k].fresh

\* Mutant: the client is bound for every request that is being served.
BindForAll(t, u) == bound' = [s \in Tasks |-> u]

\* The context variable is set in the context of the request's own task.
bind_current_tenant_client(t, u) == bound' = [bound EXCEPT ![t] = u]

\* bind_tenant_database_client runs on the event loop from the look into the cache to the
\* binding.  When no client can be constructed the repositories stay on their own.
Bind(t) ==
    /\ At(t, "bind") /\ Goto(t, "narrow")
    /\ LET u == task[t].user IN
       \/ Cached(u) /\ bind_current_tenant_client(t, u) /\ UNCHANGED <<clients, budget>>
       \/ /\ ~Cached(u) /\ bind_current_tenant_client(t, u)
          /\ clients' = Append(Pruned(clients), [token |-> u, fresh |-> TRUE])
          /\ UNCHANGED budget
       \/ /\ ~Cached(u) /\ budget.outages > 0
          /\ budget' = [budget EXCEPT !.outages = @ - 1]
          /\ UNCHANGED <<bound, clients>>
    /\ UNCHANGED <<profile, claims, hits, served>>

\* The limiter of the route or of its router; the public ones go by address.
Narrow(t) ==
    /\ At(t, "narrow")
    /\ LET l == task[t].route.narrow IN
       IF l = "none" THEN Goto(t, "check") /\ UNCHANGED hits
       ELSE IF Admits(l, task[t].user) THEN Hit(l, task[t].user) /\ Goto(t, "check")
       ELSE Fail(t, 429) /\ UNCHANGED hits
    /\ UNCHANGED <<profile, claims, clients, bound, served, budget>>

-----------------------------------------------------------------------------
(* The handler                                                             *)

\* about: whose figures, notification or filter the path names
Check(t, about) ==
    /\ At(t, "check")
    /\ IF Granted(task[t].route, task[t].id, about) THEN Goto(t, "execute")
       ELSE Fail(t, _handle_eah_error(translate_auth_error("PermissionDenied")))
    /\ UNCHANGED <<profile, claims, clients, hits, bound, served, budget>>

Me(u) == [user |-> u, role |-> profile[u].role, company |-> profile[u].company]

\* The policies of the table, for the profile as it is now.
Policy(route, me) ==
    CASE route.table = "workflow_definitions" ->
            CASE route.verb = "GET" -> TRUE
              [] route.verb = "DELETE" -> workflow_definitions_delete
              [] OTHER -> workflow_definitions_write_admin(me, [company |-> me.company])
      [] route.table = "comments" ->
            CASE route.verb = "GET" -> material_select(me, Request, Stages)
              [] route.verb = "POST" -> material_insert(me, me.user, Request, Stages)
              [] OTHER -> material_moderate_admin(me, Request)
      [] route.table = "attachments" ->
            CASE route.verb = "GET" -> material_select(me, Request, Stages)
              [] route.verb \in {"POST", "PUT"} -> material_insert(me, me.user, Request, Stages)
              [] OTHER -> \/ material_moderate_admin(me, Request)
                          \/ attachments_soft_delete_uploader(me, Request.requester, Request)
      [] OTHER -> own_rows(me, me.user)

LimitersOf(route) == {GeneralLimiter(route)} \cup ({route.narrow} \ {"none"})

\* What a statement on a row out of reach leads to: a policy refuses an insertion, a missing
\* grant the statement as such, and any other statement finds nothing.
OutOfReach(route) ==
    IF route.verb \in {"POST", "PUT"} \/ (route.table = "workflow_definitions" /\ route.verb = "DELETE")
    THEN _translate_and_raise("policy") ELSE "RecordNotFound"

\* The statement runs on the client that is bound now, or fails on the way.
Execute(t) ==
    /\ At(t, "execute")
    /\ LET route == task[t].route
           reached == Reaches(route.table, bound[t] # None,
                              bound[t] # None /\ Policy(route, Me(bound[t])))
       IN  \/ /\ task' = [task EXCEPT ![t].pc = "unbind",
                        ![t].answer = IF reached THEN 200
                                      ELSE _handle_eah_error(translate_database_error(OutOfReach(route)))]
              /\ served' = IF Public(route) THEN served
                           ELSE [l \in Limiters |-> IF l \in LimitersOf(route)
                                   THEN [served[l] EXCEPT ![task[t].user] = @ + 1] ELSE served[l]]
              /\ UNCHANGED budget
           \/ /\ budget.outages > 0
              /\ budget' = [budget EXCEPT !.outages = @ - 1]
              /\ Fail(t, _handle_eah_error(translate_database_error(_translate_and_raise("transport"))))
              /\ UNCHANGED served
    /\ UNCHANGED <<profile, claims, clients, hits, bound>>

\* The finally of the dependency, then the handlers of exceptions and the answer.
Respond(t) ==
    /\ At(t, "unbind")
    /\ bound' = [bound EXCEPT ![t] = None]
    /\ task' = [task EXCEPT ![t] = Free]
    /\ UNCHANGED <<profile, claims, clients, hits, served, budget>>

-----------------------------------------------------------------------------
(* What changes meanwhile                                                  *)

\* UserService.update_role, by an administrator who is served elsewhere
ChangeRole(u, role) ==
    /\ budget.changes > 0 /\ profile[u].role # role
    /\ budget' = [budget EXCEPT !.changes = @ - 1]
    /\ profile' = [profile EXCEPT ![u].role = role]
    /\ UNCHANGED <<claims, clients, hits, task, bound, served>>

\* What is cached for some time lapses.
Lapse == budget.lapses > 0 /\ budget' = [budget EXCEPT !.lapses = @ - 1]

ClaimsExpire(u) ==
    /\ claims[u] # None /\ Lapse
    /\ claims' = [claims EXCEPT ![u] = None]
    /\ UNCHANGED <<profile, clients, hits, task, bound, served>>

\* The oldest client that is fresh is no longer.
ClientExpires(k) ==
    /\ k \in DOMAIN clients /\ clients[k].fresh /\ Lapse
    /\ \A j \in 1 .. k - 1 : ~clients[j].fresh
    /\ clients' = [clients EXCEPT ![k].fresh = FALSE]
    /\ UNCHANGED <<profile, claims, hits, task, bound, served>>

-----------------------------------------------------------------------------
Init ==
    /\ profile = [u \in Users |->
         [role |-> IF u = Requester THEN "employee" ELSE IF u = Approver THEN "approver" ELSE "admin",
          company |-> IF u = Foreigner THEN "other" ELSE "own",
          platform |-> u = Operator]]
    /\ claims = [u \in Users |-> None]
    /\ clients = <<>>
    /\ hits = [l \in Limiters |-> [u \in Users |-> 0]]
    /\ task = [t \in Tasks |-> Free]
    /\ bound = [t \in Tasks |-> None]
    /\ served = [l \in Limiters |-> [u \in Users |-> 0]]
    /\ budget = [rounds |-> Rounds, changes |-> MaxChanges, outages |-> MaxOutages,
                 lapses |-> MaxLapses]

Done == \A t \in Tasks : At(t, "idle") /\ budget.rounds[t] = 0

Next ==
    \/ \E t \in Tasks :
        \/ \E u \in Callers[t], route \in Menu[t] : Authenticate(t, u, route)
        \/ Limit(t) \/ Bind(t) \/ Narrow(t)
        \/ \E about \in {task[t].user, Requester} : Check(t, about)
        \/ Execute(t) \/ Respond(t)
    \/ \E u \in Changing, role \in UserRole : ChangeRole(u, role)
    \/ \E u \in Users : ClaimsExpire(u)
    \/ \E k \in DOMAIN clients : ClientExpires(k)
    \/ Done /\ UNCHANGED vars

Spec == Init /\ [][Next]_vars

-----------------------------------------------------------------------------
(* Properties                                                              *)

Executes(t) == At(t, "execute") /\ task'[t].pc = "unbind"

Succeeds(t) == Executes(t) /\ task'[t].answer = 200

\* However requests interleave, a statement runs on the client of the caller it is for, or,
\* if none could be constructed, on the repository's own; never on another caller's.
OwnClientOnly == [][\A t \in Tasks : Executes(t) => bound[t] \in {None, task[t].user}]_vars

\* A role that was taken away ends at the row policies while the claims still carry it: the
\* definitions of a company are changed, and its comments and files removed, only by those
\* who are administrators of it at that moment, or uploaded the file.
StaleRoleStopsAtPolicies ==
    [][\A t \in Tasks : Succeeds(t) /\ bound[t] # None /\ task[t].route.verb \in {"PATCH", "DELETE"} =>
        LET now == profile[task[t].user] IN
        /\ task[t].route.table = "workflow_definitions" => now.role = "admin"
        /\ task[t].route.table \in {"comments", "attachments"} =>
            /\ now.company = Request.company
            /\ now.role = "admin" \/ (task[t].route.table = "attachments" /\ task[t].user = Requester)]_vars

\* No route of the administration, of the figures or of the platform is served to a caller
\* whose token did not carry the role for it, and no route about a request to one of another
\* company, whichever of the handlers, services and limiters the check was left to.
EntitledOnly ==
    [][\A t \in Tasks : Succeeds(t) =>
        LET id == task[t].id
            route == task[t].route
        IN  /\ route.area = "admin" => id.role = "admin" \/ id.platform
            /\ route.area = "figures" => id.role # "employee"
            /\ route.area = "platform" => id.platform
            /\ route.guard \in RowGuards => id.company = Request.company]_vars

\* In one window no caller gets more executed than each limiter on the way admits, the
\* general one and the narrow one together.
QuotaHolds == \A l \in Limiters : \A u \in Users : served[l][u] <= Limits[l]
=============================================================================
