------------------------------- MODULE Search --------------------------------
(***************************************************************************)
(* The global search: which kinds are searched for a caller, which rows    *)
(* each of them finds, and how they are merged.  The text of a row is what *)
(* the query makes of it: "hit" contains the query, "near" resembles it    *)
(* enough for the fuzzy lists, "miss" does neither.  An item is            *)
(* [kind, id, request, company, score, created]; request is 0 where the    *)
(* item belongs to none.  Titles, subtitles and snippets are left out.     *)
(* me: the caller, see ReportQueries; the pool copies the context of the   *)
(* call to its threads, so that all parts of a search use the same client. *)
(***************************************************************************)
EXTENDS Figures

ENTITY_TYPES ==
    {"request", "approval", "workflow", "user", "comment", "audit_entry",
     "department", "notification", "attachment"}

\* search: the kinds planned for a caller
Planned(me, types) ==
    {t \in types \cap ENTITY_TYPES : t \in {"user", "department"} => me.role = "admin"}

\* Kinds whose rows are scoped by the requests the caller sees.
ScopedKinds == {"comment", "audit_entry", "attachment"}

\* Mutant: an approver is not restricted to the requests of the own queue.
AdministersAll(me) == me.role \in {"approver", "admin"}

\* _visible_request_ids: an administrator's search is not restricted.
Unrestricted(me) == me.role = "admin"

_MIN_APPROVAL_SCORE == 1

_fuzzy_score(text) == CASE text = "hit" -> 2 [] text = "near" -> 1 [] text = "miss" -> 0

Item(kind, row, request, text) ==
    [kind |-> kind, id |-> row.id, request |-> request, company |-> row.company,
     score |-> _fuzzy_score(text), created |-> row.created]

FirstPage(rows) == paginate(rows, 1, MAX_PAGE_SIZE)

\* The request of a row; a comment or an attachment exists once for each request.
RequestOf(db, id) == CHOOSE r \in db.requests : r.id = id

-----------------------------------------------------------------------------
\* The owner of a request is employee or approver; a row of Profiles.
_search_requests(db, me, ids) ==
    MapSeq(FirstPage(search_requests(db, me.company, Mine(me), ids)),
           LAMBDA r : Item("request", r, r.id, r.text))

\* A stage is scored by the title of its request; the titles are a second read,
\* which finds none for a withdrawn request.
_search_approvals(db, stages) ==
    LET Title(s) == LET r == RequestOf(db, s.request) IN IF r.deleted THEN "miss" ELSE r.text
        scored == MapSeq(stages, LAMBDA s : Item("approval", s, s.request, Title(s)))
    IN  FirstPage(Arranged(scored, {i \in DOMAIN scored : scored[i].score >= _MIN_APPROVAL_SCORE},
                           LAMBDA a, b : a.score > b.score))

_search_workflows(db, me) ==
    MapSeq(FirstPage(search_definitions(db, me, me.role # "admin")),
           LAMBDA d : [kind |-> "workflow", id |-> d.id, request |-> 0, company |-> d.company,
                       score |-> 2, created |-> 0])

People(company) == Sorted(OfCompany(Profiles, company), LAMBDA a, b : a.rank < b.rank)

_search_users(me) ==
    MapSeq(FirstPage(People(me.company)),
           LAMBDA p : [kind |-> "user", id |-> p.rank, request |-> 0, company |-> p.company,
                       score |-> 2, created |-> 0])

\* Departments are gathered from the profiles of the company.
_search_departments(me) ==
    LET people == OfCompany(Profiles, me.company)
    IN  FirstPage(Listed({[kind |-> "department", id |-> d, request |-> 0, company |-> me.company,
                             score |-> 2, created |-> 0] : d \in {p.department : p \in people}}))

MaterialTable == [comment |-> "comments", attachment |-> "attachments"]

\* comment_repo and attachment_repo run on the client of the caller, or on the
\* service role when there is none; they filter by no company.
Material(db, me, kind, ids) ==
    LET StagesOf(r) == {s \in db.stages : s.request = r.id}
        rows == {r \in db.requests :
                    /\ r.id \in ids /\ r.text = "hit"
                    /\ Reaches(MaterialTable[kind], me.bound, material_select(me, r, StagesOf(r)))}
    IN  MapSeq(FirstPage(Newest(rows)), LAMBDA r : Item(kind, r, r.id, r.text))

\* audit_repo runs on the service role: only the ids restrict it.
_search_audit_entries(db, ids) ==
    MapSeq(FirstPage(Newest({e \in db.audit : e.request \in ids})),
           LAMBDA e : Item("audit_entry", e, e.request, "hit"))

\* A notification goes to the requester when a stage of the request is decided.
_search_notifications(db, me) ==
    LET notified == {r \in db.requests :
                        /\ r.requester = me.user /\ r.text = "hit"
                        /\ \E s \in db.stages : s.request = r.id /\ s.decided # Never}
    IN  MapSeq(FirstPage(Newest(notified)), LAMBDA r : Item("notification", r, r.id, r.text))

\* search: the best first, then the page the caller asked for.
Merged(items) ==
    Arranged(items, DOMAIN items, LAMBDA a, b : a.score > b.score \/ (a.score = b.score /\ a.created > b.created))
=============================================================================
