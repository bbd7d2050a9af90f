---------------------------- MODULE GatewayProofs ----------------------------
(***************************************************************************)
(* Proofs about Gateway, for any number of tasks that may be asked any     *)
(* route of the API by anybody, and for any limits.                        *)
(***************************************************************************)
EXTENDS Gateway, FiniteSetTheorems, TLAPS

-----------------------------------------------------------------------------
(* What the tables of routes have in common                                *)

Narrows == {"none", "upload", "poll", "search", "ai", "invitation"}

IsRoute(e) ==
    /\ e = [name |-> e.name, area |-> e.area, verb |-> e.verb, guard |-> e.guard,
            narrow |-> e.narrow, table |-> e.table]
    /\ e.narrow \in Narrows

\* The guards behind which the parts of the API lie.
AreaGuards(area) ==
    CASE area = "admin" -> {"admin", "users", "invite"}
      [] area = "figures" -> {"analyst", "self", "admin"}
      [] area = "platform" -> {"platform"}

Guarded(e) == IsRoute(e) /\ (e.area \in {"admin", "figures", "platform"} => e.guard \in AreaGuards(e.area))

LEMMA RouteShape ==
    ASSUME NEW verb, NEW guard, NEW names, NEW e \in Routes(verb, guard, names)
    PROVE  IsRoute(e) /\ e.area = "app" /\ e.guard = guard /\ e.narrow = "none"
BY DEF Routes, IsRoute, Narrows

LEMMA UnderShape ==
    ASSUME NEW area, NEW routes, NEW e \in Under(area, routes), \A r \in routes : IsRoute(r)
    PROVE  \E r \in routes : IsRoute(e) /\ e.area = area /\ e.guard = r.guard /\ e.narrow = r.narrow
BY DEF Under, IsRoute

LEMMA BehindShape ==
    ASSUME NEW limiter \in Narrows, NEW routes, NEW e \in Behind(limiter, routes),
           \A r \in routes : IsRoute(r)
    PROVE  \E r \in routes : IsRoute(e) /\ e.area = r.area /\ e.guard = r.guard
BY DEF Behind, IsRoute

LEMMA OnShape ==
    ASSUME NEW table, NEW routes, NEW e \in On(table, routes), \A r \in routes : IsRoute(r)
    PROVE  \E r \in routes : IsRoute(e) /\ e.area = r.area /\ e.guard = r.guard
BY DEF On, IsRoute

\* Routes of no area of their own.
Plain(e) == IsRoute(e) /\ e.area = "app"

LEMMA PlainRoutes ==
    /\ \A e \in RequestRoutes \cup RequestProgressRoutes \cup InboxRoutes \cup DecisionRoutes : Plain(e)
    /\ \A e \in BulkDecisionRoutes \cup MeRoute \cup SummaryRoute \cup ActivityRoute : Plain(e)
BY RouteShape
   DEF Plain, RequestRoutes, RequestProgressRoutes, InboxRoutes, DecisionRoutes, BulkDecisionRoutes,
       MeRoute, SummaryRoute, ActivityRoute, Get, Post, Patch, Delete

LEMMA PlainTables ==
    \A e \in CommentRoutes \cup DefinitionRoutes \cup PreferenceRoutes : Plain(e)
<1>1. ASSUME NEW e \in CommentRoutes PROVE Plain(e)
  <2> DEFINE R == Get("view", {"list_comments"}) \cup Post("view", {"add_comment"})
                  \cup Delete("moderate", {"remove_comment"})
  <2>1. e \in On("comments", R)
    BY <1>1 DEF CommentRoutes
  <2>2. \A r \in R : Plain(r)
    BY RouteShape DEF Plain, Get, Post, Delete
  <2> HIDE DEF R
  <2> QED BY <2>1, <2>2, OnShape DEF Plain
<1>2. ASSUME NEW e \in DefinitionRoutes PROVE Plain(e)
  <2> DEFINE R == Get("any", {"list_workflow_definitions"})
                  \cup Post("define", {"create_workflow_definition", "activate_workflow_definition"})
                  \cup Patch("define", {"update_workflow_definition_draft"})
                  \cup Delete("define", {"delete_workflow_definition_draft"})
  <2>1. e \in On("workflow_definitions", R)
    BY <1>2 DEF DefinitionRoutes
  <2>2. \A r \in R : Plain(r)
    BY RouteShape DEF Plain, Get, Post, Patch, Delete
  <2> HIDE DEF R
  <2> QED BY <2>1, <2>2, OnShape DEF Plain
<1>3. ASSUME NEW e \in PreferenceRoutes PROVE Plain(e)
  <2> DEFINE R == Get("any", {"list_notification_preferences"})
                  \cup Patch("any", {"update_notification_preference"})
  <2>1. e \in On("notification_preferences", R)
    BY <1>3 DEF PreferenceRoutes
  <2>2. \A r \in R : Plain(r)
    BY RouteShape DEF Plain, Get, Patch
  <2> HIDE DEF R
  <2> QED BY <2>1, <2>2, OnShape DEF Plain
<1> QED BY <1>1, <1>2, <1>3

LEMMA PlainBehindLimiters ==
    \A e \in AttachmentRoutes \cup NotificationRoutes \cup SearchRoutes : Plain(e)
<1>1. ASSUME NEW e \in AttachmentRoutes PROVE Plain(e)
  <2> DEFINE U == Post("view", {"upload_attachment"}) \cup Put("remove", {"replace_attachment"})
             R == Get("view", {"list_attachments", "get_download_url"}) \cup Behind("upload", U)
                  \cup Delete("remove", {"remove_attachment"})
  <2>1. e \in On("attachments", R)
    BY <1>1 DEF AttachmentRoutes
  <2>2. \A r \in U : Plain(r)
    BY RouteShape DEF Plain, Post, Put
  <2> HIDE DEF U
  <2>3. \A r \in Behind("upload", U) : Plain(r)
    BY <2>2, BehindShape DEF Plain, Narrows
  <2>4. \A r \in R : Plain(r)
    BY <2>3, RouteShape DEF Plain, Get, Delete
  <2> HIDE DEF R
  <2> QED BY <2>1, <2>4, OnShape DEF Plain
<1>2. ASSUME NEW e \in NotificationRoutes PROVE Plain(e)
  <2> DEFINE P == Get("any", {"get_unread_count"})
  <2>1. \A r \in P : Plain(r)
    BY RouteShape DEF Plain, Get
  <2> HIDE DEF P
  <2>2. \A r \in Behind("poll", P) : Plain(r)
    BY <2>1, BehindShape DEF Plain, Narrows
  <2> QED BY <1>2, <2>2, RouteShape DEF Plain, NotificationRoutes, Get, Post, P
<1>3. ASSUME NEW e \in SearchRoutes PROVE Plain(e)
  <2> DEFINE S == Get("any", {"search"})
             F == Get("any", {"list_saved_filters"}) \cup Post("any", {"create_saved_filter"})
                  \cup Delete("own", {"delete_saved_filter"})
             H == Get("any", {"list_search_history"}) \cup Delete("any", {"clear_search_history"})
  <2>1. e \in Behind("search", S) \/ e \in On("saved_filters", F) \/ e \in On("search_history", H)
    BY <1>3 DEF SearchRoutes
  <2>2. \A r \in S \cup F \cup H : Plain(r)
    BY RouteShape DEF Plain, Get, Post, Delete
  <2> HIDE DEF S, F, H
  <2>3. CASE e \in Behind("search", S)
    BY <2>2, <2>3, BehindShape DEF Plain, Narrows
  <2>4. CASE e \in On("saved_filters", F)
    BY <2>2, <2>4, OnShape DEF Plain
  <2>5. CASE e \in On("search_history", H)
    BY <2>2, <2>5, OnShape DEF Plain
  <2> QED BY <2>1, <2>3, <2>4, <2>5
<1> QED BY <1>1, <1>2, <1>3

\* The routers of the areas, before they are included under their paths.
LEMMA AdminGuards ==
    \A r \in AdminRoutes : IsRoute(r) /\ r.guard \in AreaGuards("admin")
BY RouteShape
   DEF AdminRoutes, UserRoutes, UserActivityRoute, RoleRoute, DepartmentRoutes, SettingsRoute,
       AdminDashboardRoute, InvitationRoutes, JobRoutes, ScheduledJobRoutes, AreaGuards,
       Get, Post, Patch, Delete

FigureRoutes == MetricRoutes \cup WorkloadRoutes \cup ReportRoutes \cup OversightRoutes \cup OperationalRoutes

LEMMA FigureGuards ==
    \A r \in FigureRoutes : IsRoute(r) /\ r.guard \in AreaGuards("figures")
BY RouteShape
   DEF FigureRoutes, MetricRoutes, WorkloadRoutes, ReportRoutes, OversightRoutes, OperationalRoutes,
       AreaGuards, Get

LEMMA PlatformGuards ==
    \A r \in CompanyRoutes \cup FlagRoutes \cup PlatformRoutes :
        IsRoute(r) /\ r.guard \in AreaGuards("platform")
BY RouteShape
   DEF CompanyRoutes, FlagRoutes, PlatformRoutes, AreaGuards, Get, Post, Patch, Delete

LEMMA PublicShape ==
    \A r \in PublicInvitationRoutes \cup HealthRoutes \cup MetricsRoute : IsRoute(r)
<1> DEFINE I == Get("none", {"validate_invitation"}) \cup Post("none", {"accept_invitation"})
<1>1. \A r \in I : IsRoute(r)
  BY RouteShape DEF Get, Post
<1> HIDE DEF I
<1>2. \A r \in Behind("invitation", I) : IsRoute(r)
  BY <1>1, BehindShape DEF Narrows
<1> QED BY <1>2, RouteShape DEF PublicInvitationRoutes, HealthRoutes, MetricsRoute, Get, I

LEMMA AiGuards == \A e \in AiRoutes : Guarded(e)
<1> DEFINE F == Get("analyst", {"get_bottleneck_explanation", "get_policy_recommendations",
                                "get_operational_insights", "get_ai_executive_summary"})
                \cup Post("analyst", {"ask_assistant"})
           R == Get("view", {"get_request_summary", "get_approval_summary"})
                \cup Get("admin", {"get_workflow_improvements"}) \cup Under("figures", F)
<1>1. AiRoutes = Behind("ai", R)
  BY DEF AiRoutes
<1>2. \A r \in F : IsRoute(r) /\ r.guard = "analyst"
  BY RouteShape DEF Get, Post
<1> HIDE DEF F
<1>3. \A r \in Under("figures", F) : IsRoute(r) /\ r.area = "figures" /\ r.guard = "analyst"
  BY <1>2, UnderShape
<1>4. \A r \in R : IsRoute(r) /\ (r.area = "app" \/ (r.area = "figures" /\ r.guard = "analyst"))
  BY <1>3, RouteShape DEF Get
<1> HIDE DEF R
<1> QED BY <1>1, <1>4, BehindShape DEF Guarded, AreaGuards, Narrows

\* Every route under the path of an area has one of that area's guards.
LEMMA EndpointGuards == \A e \in Endpoints : Guarded(e)
<1> SUFFICES ASSUME NEW e \in Endpoints PROVE Guarded(e)
  OBVIOUS
<1>1. CASE Plain(e)
  BY <1>1 DEF Plain, Guarded
<1>2. CASE e \in Under("admin", AdminRoutes)
  BY <1>2, UnderShape, AdminGuards DEF Guarded
<1>3. CASE e \in Under("figures", FigureRoutes)
  BY <1>3, UnderShape, FigureGuards DEF Guarded
<1>4. CASE e \in Under("platform", CompanyRoutes \cup FlagRoutes \cup PlatformRoutes)
  BY <1>4, UnderShape, PlatformGuards DEF Guarded
<1>5. CASE e \in Under("public", PublicInvitationRoutes \cup HealthRoutes \cup MetricsRoute)
  BY <1>5, UnderShape, PublicShape DEF Guarded
<1>6. CASE e \in AiRoutes
  BY <1>6, AiGuards
<1> QED BY <1>1, <1>2, <1>3, <1>4, <1>5, <1>6, PlainRoutes, PlainTables, PlainBehindLimiters
           DEF Endpoints, FigureRoutes

-----------------------------------------------------------------------------
(* The inductive invariant                                                 *)

Pcs == {"idle", "limit", "bind", "narrow", "check", "execute", "unbind"}

\* What task t, in state k with client b bound, may rely on.
TaskInv(k, b) ==
    /\ DOMAIN k = {"pc", "user", "route", "id", "answer"}
    /\ k.pc \in Pcs
    /\ k.pc # "idle" => k.user \in Users /\ k.route \in Endpoints
    /\ k.pc \in {"limit", "bind"} => ~Public(k.route)
    /\ k.pc = "execute" => \E about \in Users : Granted(k.route, k.id, about)
    /\ b \in {None, k.user}
    /\ k.pc \in {"idle", "limit", "bind"} => b = None

\* A task in state k was admitted by limiter l for user u, and has not executed.
InFlight(k, l, u) ==
    /\ k.user = u /\ ~Public(k.route)
    /\ \/ l = GeneralLimiter(k.route) /\ k.pc \in {"bind", "narrow", "check", "execute"}
       \/ l = k.route.narrow /\ k.pc \in {"check", "execute"}

Admitted(l, u) == {t \in Tasks : InFlight(task[t], l, u)}

\* Every statement executed, and every task that may yet execute one, has its hit.
HitsPay ==
    \A l \in Limiters : \A u \in Users :
        /\ served[l][u] + Cardinality(Admitted(l, u)) <= hits[l][u]
        /\ hits[l][u] <= Limits[l]

GatewayInv ==
    /\ task = [t \in Tasks |-> task[t]] /\ bound = [t \in Tasks |-> bound[t]]
    /\ \A t \in Tasks : TaskInv(task[t], bound[t])
    /\ hits \in [Limiters -> [Users -> Nat]] /\ served \in [Limiters -> [Users -> Nat]]
    /\ HitsPay

-----------------------------------------------------------------------------
(* Counting the tasks under way                                            *)

\* Only the state of task t changes.
Moves(t) == \A s \in Tasks : s # t => task'[s] = task[s]

LEMMA AdmittedFinite ==
    ASSUME NEW l, NEW u
    PROVE  IsFiniteSet(Admitted(l, u)) /\ Cardinality(Admitted(l, u)) \in Nat
<1>1. IsFiniteSet(Admitted(l, u))
  BY GatewayAssumption, FS_Subset DEF Admitted
<1> QED BY <1>1, FS_CardinalityType

LEMMA AdmittedFinite2 ==
    ASSUME NEW l, NEW u
    PROVE  IsFiniteSet(Admitted(l, u)') /\ Cardinality(Admitted(l, u)') \in Nat
<1>1. IsFiniteSet(Admitted(l, u)')
  BY GatewayAssumption, FS_Subset DEF Admitted
<1> QED BY <1>1, FS_CardinalityType

LEMMA CountChanges ==
    ASSUME NEW t \in Tasks, Moves(t), NEW l, NEW u
    PROVE  /\ Cardinality(Admitted(l, u)) \in Nat /\ Cardinality(Admitted(l, u)') \in Nat
           /\ InFlight(task'[t], l, u) /\ ~InFlight(task[t], l, u) =>
                Cardinality(Admitted(l, u)') = Cardinality(Admitted(l, u)) + 1
           /\ ~InFlight(task'[t], l, u) /\ InFlight(task[t], l, u) =>
                Cardinality(Admitted(l, u)') = Cardinality(Admitted(l, u)) - 1
           /\ (InFlight(task'[t], l, u) <=> InFlight(task[t], l, u)) =>
                Cardinality(Admitted(l, u)') = Cardinality(Admitted(l, u))
<1>1. CASE InFlight(task'[t], l, u) /\ ~InFlight(task[t], l, u)
  <2>1. Admitted(l, u)' = Admitted(l, u) \cup {t} /\ t \notin Admitted(l, u)
    BY <1>1 DEF Admitted, Moves
  <2> QED BY <1>1, <2>1, AdmittedFinite, AdmittedFinite2, FS_AddElement
<1>2. CASE ~InFlight(task'[t], l, u) /\ InFlight(task[t], l, u)
  <2>1. Admitted(l, u)' = Admitted(l, u) \ {t} /\ t \in Admitted(l, u)
    BY <1>2 DEF Admitted, Moves
  <2> QED BY <1>2, <2>1, AdmittedFinite, AdmittedFinite2, FS_RemoveElement
<1>3. CASE InFlight(task'[t], l, u) <=> InFlight(task[t], l, u)
  <2>1. Admitted(l, u)' = Admitted(l, u)
    BY <1>3 DEF Admitted, Moves
  <2> QED BY <1>3, <2>1, AdmittedFinite
<1> QED BY <1>1, <1>2, <1>3, AdmittedFinite, AdmittedFinite2

\* A task that is admitted by no further limiter costs nothing; if it gives up, its hit stays
\* without a statement.
LEMMA NoHit ==
    ASSUME GatewayInv, NEW t \in Tasks, Moves(t), hits' = hits, served' = served,
           \A l \in Limiters : \A u \in Users :
               InFlight(task'[t], l, u) => InFlight(task[t], l, u)
    PROVE  HitsPay'
<1> SUFFICES ASSUME NEW l \in Limiters, NEW u \in Users
             PROVE  /\ served[l][u] + Cardinality(Admitted(l, u)') <= hits[l][u]
                    /\ hits[l][u] <= Limits[l]
  BY DEF HitsPay
<1>1. /\ Cardinality(Admitted(l, u)) \in Nat /\ Cardinality(Admitted(l, u)') \in Nat
      /\ Cardinality(Admitted(l, u)') <= Cardinality(Admitted(l, u))
  BY CountChanges
<1>2. served[l][u] \in Nat /\ hits[l][u] \in Nat
  BY DEF GatewayInv
<1> QED BY <1>1, <1>2 DEF GatewayInv, HitsPay

\* Only task t moves, and what it and its client rely on holds.
LEMMA TaskStep ==
    ASSUME GatewayInv, NEW t \in Tasks, NEW k, task' = [task EXCEPT ![t] = k],
           NEW b, bound' = [bound EXCEPT ![t] = b], TaskInv(k, b),
           hits' \in [Limiters -> [Users -> Nat]], served' \in [Limiters -> [Users -> Nat]],
           HitsPay'
    PROVE  GatewayInv'
<1>1. /\ task' = [s \in Tasks |-> task'[s]] /\ bound' = [s \in Tasks |-> bound'[s]]
      /\ task'[t] = k /\ bound'[t] = b
      /\ \A s \in Tasks : s # t => task'[s] = task[s] /\ bound'[s] = bound[s]
  BY DEF GatewayInv
<1>2. \A s \in Tasks : TaskInv(task'[s], bound'[s])
  BY <1>1 DEF GatewayInv
<1> QED BY <1>1, <1>2 DEF GatewayInv

-----------------------------------------------------------------------------
(* The steps of a task                                                     *)

\* Task t, and no other, goes on to p with the request it has.
Onward(t, p) ==
    /\ task' = [task EXCEPT ![t] = task'[t]] /\ Moves(t)
    /\ DOMAIN task'[t] = {"pc", "user", "route", "id", "answer"}
    /\ task'[t].pc = p /\ task'[t].user = task[t].user
    /\ task'[t].route = task[t].route /\ task'[t].id = task[t].id

LEMMA GotoIsOnward ==
    ASSUME GatewayInv, NEW t \in Tasks, NEW p, Goto(t, p)
    PROVE  Onward(t, p)
<1> DEFINE k == [task[t] EXCEPT !.pc = p]
<1>1. task' = [task EXCEPT ![t] = k]
  BY DEF Goto
<1>2. /\ DOMAIN k = {"pc", "user", "route", "id", "answer"} /\ k.pc = p
      /\ k.user = task[t].user /\ k.route = task[t].route /\ k.id = task[t].id
  BY DEF GatewayInv, TaskInv
<1> HIDE DEF k
<1>3. task'[t] = k /\ Moves(t)
  BY <1>1 DEF GatewayInv, Moves
<1> QED BY <1>1, <1>2, <1>3 DEF Onward

LEMMA FailIsOnward ==
    ASSUME GatewayInv, NEW t \in Tasks, NEW status, Fail(t, status)
    PROVE  Onward(t, "unbind")
<1> DEFINE k == [task[t] EXCEPT !.pc = "unbind", !.answer = status]
<1>1. task' = [task EXCEPT ![t] = k]
  BY DEF Fail
<1>2. /\ DOMAIN k = {"pc", "user", "route", "id", "answer"} /\ k.pc = "unbind"
      /\ k.user = task[t].user /\ k.route = task[t].route /\ k.id = task[t].id
  BY DEF GatewayInv, TaskInv
<1> HIDE DEF k
<1>3. task'[t] = k /\ Moves(t)
  BY <1>1 DEF GatewayInv, Moves
<1> QED BY <1>1, <1>2, <1>3 DEF Onward

\* Whoever fails gives its hits away.
LEMMA FailKeeps ==
    ASSUME GatewayInv, NEW t \in Tasks, ~At(t, "idle"), NEW status, Fail(t, status),
           hits' = hits, bound' = bound, served' = served
    PROVE  GatewayInv'
<1>1. Onward(t, "unbind")
  BY FailIsOnward
<1>2. TaskInv(task'[t], bound[t])
  BY <1>1 DEF GatewayInv, TaskInv, Onward, Pcs, At
<1>3. HitsPay'
  <2>1. \A l \in Limiters, u \in Users : ~InFlight(task'[t], l, u)
    BY <1>1 DEF InFlight, Onward
  <2> QED BY <1>1, <2>1, NoHit DEF Onward
<1>4. bound' = [bound EXCEPT ![t] = bound[t]]
  BY DEF GatewayInv
<1> QED BY <1>1, <1>2, <1>3, <1>4, TaskStep DEF GatewayInv, Onward

LEMMA AuthenticateKeeps ==
    ASSUME GatewayInv, NEW t \in Tasks, NEW u \in Users, NEW route \in Menu[t], Authenticate(t, u, route)
    PROVE  GatewayInv'
<1>1. At(t, "idle") /\ hits' = hits /\ bound' = bound /\ served' = served /\ route \in Endpoints
  BY GatewayAssumption DEF Authenticate
<1>2. PICK k : /\ task' = [task EXCEPT ![t] = k]
               /\ DOMAIN k = {"pc", "user", "route", "id", "answer"}
               /\ k.user = u /\ k.route = route
               /\ \/ Public(route) /\ k.pc = "narrow"
                  \/ ~Public(route) /\ k.pc = "limit"
                  \/ k.pc = "unbind"
  <2> DEFINE new == [Free EXCEPT !.user = u, !.route = route]
             HasForm(k) == DOMAIN k = {"pc", "user", "route", "id", "answer"} /\ k.user = u /\ k.route = route
             narrow == [new EXCEPT !.pc = "narrow"]
             limit == [new EXCEPT !.pc = "limit", !.id = process(u)]
             unbind(a) == [new EXCEPT !.pc = "unbind", !.answer = a]
  <2>1. HasForm(new)
    BY DEF Free
  <2>2. \/ Public(route) /\ task' = [task EXCEPT ![t] = narrow]
        \/ ~Public(route) /\ task' = [task EXCEPT ![t] = limit]
        \/ \E a : task' = [task EXCEPT ![t] = unbind(a)]
    BY DEF Authenticate
  <2> HIDE DEF new
  <2>3. /\ HasForm(narrow) /\ narrow.pc = "narrow"
        /\ HasForm(limit) /\ limit.pc = "limit"
        /\ \A a : HasForm(unbind(a)) /\ unbind(a).pc = "unbind"
    BY <2>1
  <2> HIDE DEF narrow, limit, unbind
  <2> QED BY <2>2, <2>3
<1>3. Moves(t) /\ task'[t] = k
  BY <1>2 DEF GatewayInv, Moves
<1>4. bound[t] = None /\ bound' = [bound EXCEPT ![t] = bound[t]]
  BY <1>1 DEF GatewayInv, TaskInv, At
<1>5. TaskInv(k, bound[t])
  BY <1>1, <1>2, <1>4 DEF TaskInv, Pcs
<1>6. HitsPay'
  <2>1. \A l \in Limiters, v \in Users : ~InFlight(task'[t], l, v)
    BY <1>2, <1>3 DEF InFlight
  <2> QED BY <1>1, <1>3, <2>1, NoHit
<1> QED BY <1>1, <1>2, <1>4, <1>5, <1>6, TaskStep DEF GatewayInv

\* The hit of one limiter for one user pays for one more task under way.
LEMMA HitPays ==
    ASSUME GatewayInv, NEW t \in Tasks, Moves(t), NEW m \in Limiters, NEW v \in Users,
           Admits(m, v), Hit(m, v), served' = served,
           \A l \in Limiters : \A u \in Users :
               InFlight(task'[t], l, u) => InFlight(task[t], l, u) \/ (l = m /\ u = v)
    PROVE  HitsPay' /\ hits' \in [Limiters -> [Users -> Nat]]
<1>1. /\ hits' \in [Limiters -> [Users -> Nat]] /\ hits'[m][v] = hits[m][v] + 1
      /\ \A l \in Limiters, u \in Users : l # m \/ u # v => hits'[l][u] = hits[l][u]
  BY DEF GatewayInv, Hit
<1>2. ASSUME NEW l \in Limiters, NEW u \in Users
      PROVE  served[l][u] + Cardinality(Admitted(l, u)') <= hits'[l][u] /\ hits'[l][u] <= Limits[l]
  <2>1. /\ Cardinality(Admitted(l, u)) \in Nat /\ Cardinality(Admitted(l, u)') \in Nat
        /\ Cardinality(Admitted(l, u)') <= Cardinality(Admitted(l, u)) + 1
        /\ l # m \/ u # v => Cardinality(Admitted(l, u)') <= Cardinality(Admitted(l, u))
    BY CountChanges
  <2>2. served[l][u] \in Nat /\ hits[l][u] \in Nat /\ Limits[l] \in Nat
    BY GatewayAssumption DEF GatewayInv
  <2>3. served[l][u] + Cardinality(Admitted(l, u)) <= hits[l][u] /\ hits[l][u] <= Limits[l]
    BY DEF GatewayInv, HitsPay
  <2>4. l = m /\ u = v => hits[l][u] < Limits[l]
    BY DEF Admits
  <2> QED BY <1>1, <2>1, <2>2, <2>3, <2>4
<1> QED BY <1>1, <1>2 DEF HitsPay

LEMMA LimitKeeps ==
    ASSUME GatewayInv, NEW t \in Tasks, Limit(t)
    PROVE  GatewayInv'
<1> DEFINE l == GeneralLimiter(task[t].route)
<1>1. /\ task[t].pc = "limit" /\ bound' = bound /\ served' = served /\ l \in Limiters
      /\ bound' = [bound EXCEPT ![t] = bound[t]]
      /\ TaskInv(task[t], bound[t]) /\ task[t].user \in Users
  BY DEF Limit, At, GeneralLimiter, Limiters, GatewayInv, TaskInv
<1>2. CASE Admits(l, task[t].user) /\ Hit(l, task[t].user) /\ Goto(t, "bind")
  <2>1. Onward(t, "bind") /\ Moves(t)
    BY <1>2, GotoIsOnward DEF Onward
  <2>2. TaskInv(task'[t], bound[t])
    BY <1>1, <2>1 DEF TaskInv, Onward, Pcs
  <2>3. \A m \in Limiters : \A u \in Users :
          InFlight(task'[t], m, u) => m = l /\ u = task[t].user
    BY <2>1 DEF InFlight, Onward
  <2>4. HitsPay' /\ hits' \in [Limiters -> [Users -> Nat]]
    BY <1>1, <1>2, <2>1, <2>3, HitPays
  <2> QED BY <1>1, <2>1, <2>2, <2>4, TaskStep DEF GatewayInv, Onward
<1>3. CASE Fail(t, 429) /\ hits' = hits
  BY <1>1, <1>3, FailKeeps DEF At
<1> QED BY <1>2, <1>3 DEF Limit

LEMMA BindKeeps ==
    ASSUME GatewayInv, NEW t \in Tasks, Bind(t)
    PROVE  GatewayInv'
<1>1. task[t].pc = "bind" /\ Goto(t, "narrow") /\ hits' = hits /\ served' = served
  BY DEF Bind, At
<1>2. PICK b \in {None, task[t].user} : bound' = [bound EXCEPT ![t] = b]
  <2>1. bound' = [bound EXCEPT ![t] = task[t].user] \/ bound' = bound
    BY DEF Bind, bind_current_tenant_client
  <2>2. bound = [bound EXCEPT ![t] = None]
    BY <1>1 DEF GatewayInv, TaskInv
  <2> QED BY <2>1, <2>2
<1>3. Onward(t, "narrow") /\ Moves(t)
  BY <1>1, GotoIsOnward DEF Onward
<1>4. TaskInv(task'[t], b)
  BY <1>1, <1>3 DEF GatewayInv, TaskInv, Onward, Pcs
<1>5. HitsPay'
  <2>1. \A l \in Limiters : \A u \in Users : InFlight(task'[t], l, u) => InFlight(task[t], l, u)
    BY <1>1, <1>3 DEF InFlight, Onward
  <2> QED BY <1>1, <1>3, <2>1, NoHit
<1> QED BY <1>1, <1>2, <1>3, <1>4, <1>5, TaskStep DEF GatewayInv, Onward

LEMMA NarrowKeeps ==
    ASSUME GatewayInv, NEW t \in Tasks, Narrow(t)
    PROVE  GatewayInv'
<1> DEFINE m == task[t].route.narrow
<1>1. /\ task[t].pc = "narrow" /\ bound' = bound /\ served' = served
      /\ bound' = [bound EXCEPT ![t] = bound[t]]
  BY DEF Narrow, At, GatewayInv
<1>2. /\ TaskInv(task[t], bound[t]) /\ task[t].user \in Users
      /\ m = "none" \/ m \in Limiters
  <2>1. TaskInv(task[t], bound[t]) /\ task[t].user \in Users /\ task[t].route \in Endpoints
    BY <1>1 DEF GatewayInv, TaskInv
  <2> QED BY <2>1, EndpointGuards DEF Guarded, IsRoute, Narrows, Limiters
<1>3. ASSUME Goto(t, "check")
      PROVE  /\ Onward(t, "check") /\ Moves(t) /\ TaskInv(task'[t], bound[t])
             /\ \A l \in Limiters : \A u \in Users : InFlight(task'[t], l, u) =>
                    InFlight(task[t], l, u) \/ (l = m /\ u = task[t].user)
  <2>1. Onward(t, "check") /\ Moves(t)
    BY <1>3, GotoIsOnward DEF Onward
  <2>2. TaskInv(task'[t], bound[t])
    BY <1>1, <1>2, <2>1 DEF TaskInv, Onward, Pcs
  <2> QED BY <1>1, <2>1, <2>2 DEF InFlight, Onward
<1>4. CASE m = "none" /\ Goto(t, "check") /\ hits' = hits
  <2>1. HitsPay'
    BY <1>1, <1>3, <1>4, NoHit DEF Limiters
  <2> QED BY <1>1, <1>3, <1>4, <2>1, TaskStep DEF GatewayInv, Onward
<1>5. CASE m # "none" /\ Admits(m, task[t].user) /\ Hit(m, task[t].user) /\ Goto(t, "check")
  <2>1. HitsPay' /\ hits' \in [Limiters -> [Users -> Nat]]
    BY <1>1, <1>2, <1>3, <1>5, HitPays
  <2> QED BY <1>1, <1>3, <1>5, <2>1, TaskStep DEF GatewayInv, Onward
<1>6. CASE Fail(t, 429) /\ hits' = hits
  BY <1>1, <1>6, FailKeeps DEF At
<1> QED BY <1>4, <1>5, <1>6 DEF Narrow

LEMMA CheckKeeps ==
    ASSUME GatewayInv, NEW t \in Tasks, NEW about \in {task[t].user, Requester}, Check(t, about)
    PROVE  GatewayInv'
<1>1. /\ task[t].pc = "check" /\ bound' = bound /\ served' = served /\ hits' = hits
      /\ bound' = [bound EXCEPT ![t] = bound[t]] /\ TaskInv(task[t], bound[t]) /\ about \in Users
  BY DEF Check, At, GatewayInv, TaskInv, Users
<1>2. CASE Granted(task[t].route, task[t].id, about) /\ Goto(t, "execute")
  <2>1. Onward(t, "execute") /\ Moves(t)
    BY <1>2, GotoIsOnward DEF Onward
  <2>2. TaskInv(task'[t], bound[t])
    BY <1>1, <1>2, <2>1 DEF TaskInv, Onward, Pcs
  <2>3. HitsPay'
    <3>1. \A l \in Limiters : \A u \in Users : InFlight(task'[t], l, u) => InFlight(task[t], l, u)
      BY <1>1, <2>1 DEF InFlight, Onward
    <3> QED BY <1>1, <2>1, <3>1, NoHit
  <2> QED BY <1>1, <2>1, <2>2, <2>3, TaskStep DEF GatewayInv, Onward
<1>3. CASE Fail(t, _handle_eah_error(translate_auth_error("PermissionDenied")))
  BY <1>1, <1>3, FailKeeps DEF At
<1> QED BY <1>2, <1>3 DEF Check

LEMMA RespondKeeps ==
    ASSUME GatewayInv, NEW t \in Tasks, Respond(t)
    PROVE  GatewayInv'
<1>1. /\ task' = [task EXCEPT ![t] = Free] /\ bound' = [bound EXCEPT ![t] = None]
      /\ served' = served /\ hits' = hits
  BY DEF Respond
<1>2. Moves(t) /\ task'[t] = Free
  BY <1>1 DEF GatewayInv, Moves
<1>3. TaskInv(Free, None)
  BY DEF TaskInv, Free, Pcs
<1>4. HitsPay'
  <2>1. \A l \in Limiters, u \in Users : ~InFlight(task'[t], l, u)
    BY <1>2 DEF InFlight, Free
  <2> QED BY <1>1, <1>2, <2>1, NoHit
<1> QED BY <1>1, <1>3, <1>4, TaskStep DEF GatewayInv

\* The statement takes the place of the task under way in the account of every limiter on
\* its way.
LEMMA ExecuteKeeps ==
    ASSUME GatewayInv, NEW t \in Tasks, Execute(t)
    PROVE  GatewayInv'
<1> DEFINE route == task[t].route
           user == task[t].user
<1>1. /\ task[t].pc = "execute" /\ hits' = hits /\ bound' = bound
      /\ bound' = [bound EXCEPT ![t] = bound[t]] /\ TaskInv(task[t], bound[t])
      /\ user \in Users /\ route \in Endpoints
  BY DEF Execute, At, GatewayInv, TaskInv
<1>2. CASE served' = served /\ \E status : Fail(t, status)
  BY <1>1, <1>2, FailKeeps DEF At
<1>3. CASE /\ \E status : Fail(t, status)
           /\ served' = IF Public(route) THEN served
                        ELSE [l \in Limiters |-> IF l \in LimitersOf(route)
                                THEN [served[l] EXCEPT ![user] = @ + 1] ELSE served[l]]
  <2>1. Onward(t, "unbind") /\ Moves(t)
    BY <1>3, FailIsOnward DEF Onward
  <2>2. TaskInv(task'[t], bound[t])
    BY <1>1, <2>1 DEF TaskInv, Onward, Pcs
  <2>3. CASE Public(route)
    BY <1>1, <1>3, <2>3, FailKeeps DEF At
  <2>4. CASE ~Public(route)
    <3>1. /\ served' \in [Limiters -> [Users -> Nat]]
          /\ \A l \in Limiters, u \in Users :
               served'[l][u] = IF l \in LimitersOf(route) /\ u = user THEN served[l][u] + 1 ELSE served[l][u]
      BY <1>1, <1>3, <2>4 DEF GatewayInv
    <3>2. ASSUME NEW l \in Limiters, NEW u \in Users
          PROVE  /\ ~InFlight(task'[t], l, u)
                 /\ l \in LimitersOf(route) /\ u = user => InFlight(task[t], l, u)
      BY <1>1, <2>1, <2>4 DEF InFlight, Onward, LimitersOf
    <3>3. ASSUME NEW l \in Limiters, NEW u \in Users
          PROVE  /\ served'[l][u] + Cardinality(Admitted(l, u)') <= hits[l][u]
                 /\ hits[l][u] <= Limits[l]
      <4>1. /\ Cardinality(Admitted(l, u)) \in Nat /\ Cardinality(Admitted(l, u)') \in Nat
            /\ Cardinality(Admitted(l, u)') <= Cardinality(Admitted(l, u))
            /\ l \in LimitersOf(route) /\ u = user =>
                 Cardinality(Admitted(l, u)') = Cardinality(Admitted(l, u)) - 1
        BY <2>1, <3>2, CountChanges
      <4>2. served[l][u] \in Nat /\ hits[l][u] \in Nat
        BY DEF GatewayInv
      <4>3. served[l][u] + Cardinality(Admitted(l, u)) <= hits[l][u] /\ hits[l][u] <= Limits[l]
        BY DEF GatewayInv, HitsPay
      <4> QED BY <3>1, <4>1, <4>2, <4>3
    <3>4. HitsPay'
      BY <1>1, <3>3 DEF HitsPay
    <3> QED BY <1>1, <2>1, <2>2, <3>1, <3>4, TaskStep DEF GatewayInv, Onward
  <2> QED BY <2>3, <2>4
<1> QED BY <1>2, <1>3 DEF Execute, Fail

LEMMA GatewayInit == Init => GatewayInv
<1> SUFFICES ASSUME Init PROVE GatewayInv
  OBVIOUS
<1>1. /\ task = [t \in Tasks |-> Free] /\ bound = [t \in Tasks |-> None]
      /\ hits = [l \in Limiters |-> [u \in Users |-> 0]]
      /\ served = [l \in Limiters |-> [u \in Users |-> 0]]
  BY DEF Init
<1>2. \A t \in Tasks : TaskInv(task[t], bound[t])
  BY <1>1 DEF TaskInv, Free, Pcs
<1>3. ASSUME NEW l \in Limiters, NEW u \in Users
      PROVE  served[l][u] + Cardinality(Admitted(l, u)) <= hits[l][u] /\ hits[l][u] <= Limits[l]
  <2>1. Admitted(l, u) = {}
    BY <1>1 DEF Admitted, InFlight, Free
  <2>2. Cardinality(Admitted(l, u)) = 0 /\ Limits[l] \in Nat
    BY <2>1, FS_EmptySet, GatewayAssumption
  <2> QED BY <1>1, <2>2
<1> QED BY <1>1, <1>2, <1>3 DEF GatewayInv, HitsPay

LEMMA GatewayNext == GatewayInv /\ [Next]_vars => GatewayInv'
<1> SUFFICES ASSUME GatewayInv, [Next]_vars PROVE GatewayInv'
  OBVIOUS
<1>1. ASSUME NEW t \in Tasks,
             \/ \E u \in Callers[t], route \in Menu[t] : Authenticate(t, u, route)
             \/ Limit(t) \/ Bind(t) \/ Narrow(t)
             \/ \E about \in {task[t].user, Requester} : Check(t, about)
             \/ Execute(t) \/ Respond(t)
      PROVE  GatewayInv'
  <2>1. Callers[t] \subseteq Users
    BY GatewayAssumption
  <2> QED BY <1>1, <2>1, AuthenticateKeeps, LimitKeeps, BindKeeps, NarrowKeeps, CheckKeeps,
             ExecuteKeeps, RespondKeeps
<1>2. CASE \/ \E u \in Changing, role \in UserRole : ChangeRole(u, role)
           \/ \E u \in Users : ClaimsExpire(u)
           \/ \E k \in DOMAIN clients : ClientExpires(k)
           \/ UNCHANGED vars
  <2>1. task' = task /\ bound' = bound /\ hits' = hits /\ served' = served
    BY <1>2 DEF ChangeRole, ClaimsExpire, ClientExpires, vars
  <2>2. HitsPay'
    BY <2>1 DEF GatewayInv, HitsPay, Admitted
  <2> QED BY <2>1, <2>2 DEF GatewayInv
<1> QED BY <1>1, <1>2 DEF Next

-----------------------------------------------------------------------------
(* The theorems                                                            *)

\* The invariant of the pipeline: the client a task has bound is its caller's, a task past
\* the check was granted its route, and every admission a limiter counts pays for at most one
\* statement.
THEOREM GatewayInvariant == Spec => []GatewayInv
BY GatewayInit, GatewayNext, PTL DEF Spec

\* enforce_rate_limit and the narrower limiters: however many requests of a caller are under
\* way at once, no more of them are executed than each limiter admits.
THEOREM QuotaIsKept == Spec => []QuotaHolds
<1>1. GatewayInv => QuotaHolds
  <2> SUFFICES ASSUME GatewayInv, NEW l \in Limiters, NEW u \in Users
               PROVE  served[l][u] <= Limits[l]
    BY DEF QuotaHolds
  <2>1. served[l][u] \in Nat /\ hits[l][u] \in Nat /\ Limits[l] \in Nat
    BY GatewayAssumption DEF GatewayInv
  <2>2. Cardinality(Admitted(l, u)) \in Nat
    BY AdmittedFinite
  <2>3. served[l][u] + Cardinality(Admitted(l, u)) <= hits[l][u] /\ hits[l][u] <= Limits[l]
    BY DEF GatewayInv, HitsPay
  <2> QED BY <2>1, <2>2, <2>3
<1> QED BY <1>1, GatewayInvariant, PTL

\* bind_tenant_database_client: whatever else is being served, a statement runs on its own
\* caller's client or on the repository's.
THEOREM StatementsUseOwnClient == Spec => OwnClientOnly
<1>1. GatewayInv => \A t \in Tasks : Executes(t) => bound[t] \in {None, task[t].user}
  BY DEF GatewayInv, TaskInv
<1>2. GatewayInv /\ [Next]_vars => [\A t \in Tasks : Executes(t) => bound[t] \in {None, task[t].user}]_vars
  BY <1>1
<1> QED BY <1>2, GatewayInvariant, PTL DEF Spec, OwnClientOnly

\* A step that executes the statement of t is the step Execute(t).
LEMMA OnlyExecuteExecutes ==
    ASSUME GatewayInv, [Next]_vars, NEW t \in Tasks, Executes(t)
    PROVE  Execute(t)
<1>1. task[t].pc = "execute" /\ task'[t].pc = "unbind" /\ task' # task
  BY DEF Executes, At
<1>2. ASSUME NEW s \in Tasks, s # t, NEW k, task' = [task EXCEPT ![s] = k]
      PROVE  FALSE
  BY <1>1, <1>2 DEF GatewayInv
<1>3. ASSUME NEW s \in Tasks, s # t, Moves(s)
      PROVE  FALSE
  BY <1>1, <1>3 DEF Moves
<1>4. ~UNCHANGED vars /\ ~(\E u \in Changing, role \in UserRole : ChangeRole(u, role))
      /\ ~(\E u \in Users : ClaimsExpire(u)) /\ ~(\E k \in DOMAIN clients : ClientExpires(k))
  BY <1>1 DEF vars, ChangeRole, ClaimsExpire, ClientExpires
<1>5. PICK s \in Tasks :
             \/ \E u \in Callers[s], route \in Menu[s] : Authenticate(s, u, route)
             \/ Limit(s) \/ Bind(s) \/ Narrow(s)
             \/ \E about \in {task[s].user, Requester} : Check(s, about)
             \/ Execute(s) \/ Respond(s)
  BY <1>4 DEF Next
<1>6. Moves(s)
  <2>1. CASE \E p : Goto(s, p)
    BY <2>1, GotoIsOnward DEF Onward
  <2>2. CASE \E status : Fail(s, status)
    BY <2>2, FailIsOnward DEF Onward
  <2>3. CASE \E k : task' = [task EXCEPT ![s] = k]
    BY <2>3 DEF GatewayInv, Moves
  <2> QED BY <1>5, <2>1, <2>2, <2>3
             DEF Authenticate, Limit, Bind, Narrow, Check, Execute, Respond, Fail
<1>7. s = t
  BY <1>3, <1>6
<1> QED BY <1>1, <1>5, <1>7 DEF At, Authenticate, Limit, Bind, Narrow, Check, Respond

\* Every route of an area, of the hundred and more, is checked by a guard that fits it, and
\* that check is still what it was when the statement runs.
THEOREM OnlyTheEntitledAreServed == Spec => EntitledOnly
<1> DEFINE Entitled(t) ==
             LET id == task[t].id
                 route == task[t].route
             IN  /\ route.area = "admin" => id.role = "admin" \/ id.platform
                 /\ route.area = "figures" => id.role # "employee"
                 /\ route.area = "platform" => id.platform
                 /\ route.guard \in RowGuards => id.company = Request.company
<1>1. ASSUME GatewayInv, NEW t \in Tasks, Succeeds(t)
      PROVE  Entitled(t)
  <2>1. PICK about \in Users : Granted(task[t].route, task[t].id, about)
    BY <1>1 DEF Succeeds, Executes, At, GatewayInv, TaskInv
  <2>2. Guarded(task[t].route)
    BY <1>1, EndpointGuards DEF Succeeds, Executes, At, GatewayInv, TaskInv
  <2>3. task[t].route.guard \in RowGuards => task[t].id.company = Request.company
    BY <2>1 DEF Granted, RowGuard
  <2>4. /\ task[t].route.area = "admin" => task[t].route.guard \in {"admin", "users", "invite"}
        /\ task[t].route.area = "figures" => task[t].route.guard \in {"analyst", "self", "admin"}
        /\ task[t].route.area = "platform" => task[t].route.guard = "platform"
    BY <2>2 DEF Guarded, AreaGuards
  <2>5. task[t].route.guard \in {"admin", "users", "invite"} =>
          task[t].id.role = "admin" \/ task[t].id.platform
    BY <2>1 DEF Granted, RowGuards, RoleGuard, require_role, authorize_user_role_management,
                can_manage_user_roles
  <2>6. task[t].route.guard \in {"analyst", "self", "admin"} => task[t].id.role # "employee"
    BY <2>1 DEF Granted, RowGuards, RoleGuard, require_role, _require_self_or_admin,
                _require_analytics_access
  <2>7. task[t].route.guard = "platform" => task[t].id.platform
    BY <2>1 DEF Granted, RowGuards, RoleGuard, authorize_platform_admin
  <2> QED BY <2>3, <2>4, <2>5, <2>6, <2>7
<1>2. GatewayInv /\ [Next]_vars => [\A t \in Tasks : Succeeds(t) => Entitled(t)]_vars
  BY <1>1
<1> QED BY <1>2, GatewayInvariant, PTL DEF Spec, EntitledOnly

\* The row policies, which read the profile, stop whoever has lost the role while the cached
\* claims still carry it.
THEOREM PoliciesSeeTheRoleOfNow == Spec => StaleRoleStopsAtPolicies
<1> DEFINE InRole(t) ==
             LET now == profile[task[t].user] IN
             /\ task[t].route.table = "workflow_definitions" => now.role = "admin"
             /\ task[t].route.table \in {"comments", "attachments"} =>
                 /\ now.company = Request.company
                 /\ now.role = "admin" \/ (task[t].route.table = "attachments" /\ task[t].user = Requester)
<1>1. ASSUME GatewayInv, [Next]_vars, NEW t \in Tasks, Succeeds(t), bound[t] # None,
             task[t].route.verb \in {"PATCH", "DELETE"}
      PROVE  InRole(t)
  <2> DEFINE route == task[t].route
             me == Me(task[t].user)
  <2>1. Execute(t) /\ bound[t] = task[t].user /\ task'[t].answer = 200
    BY <1>1, OnlyExecuteExecutes DEF Succeeds, GatewayInv, TaskInv
  <2>2. Reaches(route.table, TRUE, Policy(route, me))
    <3> DEFINE reached == Reaches(route.table, bound[t] # None,
                                  bound[t] # None /\ Policy(route, Me(bound[t])))
               answer == IF reached THEN 200
                         ELSE _handle_eah_error(translate_database_error(OutOfReach(route)))
               outage == _handle_eah_error(translate_database_error(_translate_and_raise("transport")))
    <3>1. /\ outage # 200
          /\ answer = 200 => reached
      BY DEF _handle_eah_error
    <3>2. \/ task' = [task EXCEPT ![t].pc = "unbind", ![t].answer = answer]
          \/ task' = [task EXCEPT ![t].pc = "unbind", ![t].answer = outage]
      BY <2>1 DEF Execute, Fail
    <3> HIDE DEF answer, outage
    <3>3. DOMAIN task[t] = {"pc", "user", "route", "id", "answer"} /\ t \in DOMAIN task
      BY <1>1 DEF GatewayInv, TaskInv
    <3>4. task'[t].answer \in {answer, outage}
      BY <3>2, <3>3
    <3>5. reached
      BY <2>1, <3>1, <3>4
    <3> QED BY <1>1, <2>1, <3>5 DEF Reaches, _client
  <2>3. route.table \in {"workflow_definitions", "comments", "attachments"} => Policy(route, me)
    BY <2>2 DEF Reaches, _client, TenantRepositories
  <2>4. /\ me.user = task[t].user /\ me.role = profile[task[t].user].role
        /\ me.company = profile[task[t].user].company
    BY DEF Me
  <2>5. route.table = "workflow_definitions" => profile[task[t].user].role = "admin"
    BY <1>1, <2>3, <2>4 DEF Policy, workflow_definitions_write_admin, workflow_definitions_delete
  <2>6. route.table = "comments" =>
          profile[task[t].user].company = Request.company /\ profile[task[t].user].role = "admin"
    BY <1>1, <2>3, <2>4 DEF Policy, material_moderate_admin
  <2>7. route.table = "attachments" =>
          /\ profile[task[t].user].company = Request.company
          /\ profile[task[t].user].role = "admin" \/ task[t].user = Requester
    BY <1>1, <2>3, <2>4 DEF Policy, material_moderate_admin, attachments_soft_delete_uploader, Request
  <2> QED BY <2>5, <2>6, <2>7
<1>2. GatewayInv /\ [Next]_vars =>
        [\A t \in Tasks :
            Succeeds(t) /\ bound[t] # None /\ task[t].route.verb \in {"PATCH", "DELETE"} => InRole(t)]_vars
  BY <1>1
<1> QED BY <1>2, GatewayInvariant, PTL DEF Spec, StaleRoleStopsAtPolicies
=============================================================================
