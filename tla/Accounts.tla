------------------------------ MODULE Accounts ------------------------------
(***************************************************************************)
(* User profiles, their accounts in Supabase Auth, the companies they      *)
(* belong to, and SupabaseTokenVerifier, which lets a bearer token in and  *)
(* keeps its answer in a TTLCache.                                         *)
(*                                                                         *)
(* Administrators of every company act, on the profiles of their own       *)
(* company; platform administrators on any company.  Every profile         *)
(* modelled here belongs to somebody else.                                 *)
(***************************************************************************)
EXTENDS Statements

CONSTANTS
    Users,          \* ids of profiles and of auth accounts
    Own, Other,     \* two companies
    None,
    Ttl             \* lifetime of a cached answer of the verifier

Companies == {Own, Other}

ASSUME AccountAssumption ==
    /\ Own # Other /\ None \notin Users \cup Companies
    /\ Ttl \in Nat \ {0}

VARIABLES
    profiles,   \* profiles[u]: the profiles row, or NoProfile
    auth,       \* auth[u]: "none", "open" or "banned" (and the e-mail address given up)
    companies,  \* companies[k]: the companies row
    cache,      \* cache[u]: the time left of the cached claims of u's token
    reading,    \* reading[u]: the company a verification of u's token checks next, or None
    outFor      \* outFor[u]: time since u's profile, and since u's company, last let
                \* u in (history variable)

accountVars == <<profiles, auth, companies, cache, reading, outFor>>

NoProfile == [company |-> None, active |-> FALSE, deleted |-> FALSE, version |-> 0]

ProfileRecord == [company: Companies \cup {None}, active: BOOLEAN, deleted: BOOLEAN, version: Nat]

CompanyRecord == [active: BOOLEAN, deleted: BOOLEAN, version: Nat]

HasProfile(u) == profiles[u].version > 0

-----------------------------------------------------------------------------
(* What the statements write                                               *)

\* The trigger on auth.users takes the company from the account's metadata.
handle_new_user(k) == [company |-> k, active |-> TRUE, deleted |-> FALSE, version |-> 1]

UpdatedProfile(row, on) == [row EXCEPT !.active = on, !.version = @ + 1]

ErasedProfile(row) == [row EXCEPT !.active = FALSE, !.deleted = TRUE, !.version = @ + 1]

UpdatedCompany(row, on) == [row EXCEPT !.active = on, !.version = @ + 1]

DeletedCompany(row, gone) == [row EXCEPT !.deleted = gone, !.version = @ + 1]

\* Whether u's own row, and the row of u's company, lets u in.
ProfileIn(u) == HasProfile(u) /\ ~profiles[u].deleted /\ profiles[u].active

CompanyIn(u) ==
    HasProfile(u) /\ ~companies[profiles[u].company].deleted /\ companies[profiles[u].company].active

Since(in, n) == IF in THEN 0 ELSE n

\* Conjoined to every step that changes profiles or companies.
Tracked ==
    outFor' = [u \in Users |-> [profile |-> Since(ProfileIn(u)', outFor[u].profile),
                                company |-> Since(CompanyIn(u)', outFor[u].company)]]

-----------------------------------------------------------------------------
(* SupabaseTokenVerifier                                                   *)

\* Mutant: an erased account that was reactivated counts as active.
ActiveAdmits(row) == row.active

ProfileAdmits(row) == ~row.deleted /\ row.active

CompanyAdmits(row) == ~row.deleted /\ row.active

\* _resolve_claims_uncached reads the profile; get_user accepts a token until it
\* expires, so also that of an account banned since.
ReadProfile(u) ==
    /\ cache[u] = 0 /\ reading[u] = None
    /\ auth[u] # "none" /\ HasProfile(u) /\ ProfileAdmits(profiles[u])
    /\ reading' = [reading EXCEPT ![u] = profiles[u].company]
    /\ UNCHANGED <<profiles, auth, companies, cache, outFor, budget>>

\* ... then its company; only an answer that lets in is cached.
ReadCompany(u) ==
    /\ reading[u] # None
    /\ cache' = [cache EXCEPT ![u] = IF CompanyAdmits(companies[reading[u]]) THEN Ttl ELSE 0]
    /\ reading' = [reading EXCEPT ![u] = None]
    /\ UNCHANGED <<profiles, auth, companies, outFor, budget>>

\* TTLCache: an entry is served until its time is over, whatever happened since.
EntryAged(n) == IF n = 0 THEN 0 ELSE n - 1

\* Times from the lifetime of an answer on are not told apart.
Longer(n) == IF n < Ttl THEN n + 1 ELSE n

\* Time passes; a verification takes less than a unit of it.
Pass ==
    /\ \A u \in Users : reading[u] = None
    /\ cache' = [u \in Users |-> EntryAged(cache[u])]
    /\ outFor' = [u \in Users |-> [profile |-> Since(ProfileIn(u), Longer(outFor[u].profile)),
                                   company |-> Since(CompanyIn(u), Longer(outFor[u].company))]]
    /\ UNCHANGED <<profiles, auth, companies, reading, budget>>

InitAccounts ==
    /\ profiles = [u \in Users |-> NoProfile]
    /\ auth = [u \in Users |-> "none"]
    /\ companies = [k \in Companies |-> [active |-> TRUE, deleted |-> FALSE, version |-> 1]]
    /\ cache = [u \in Users |-> 0]
    /\ reading = [u \in Users |-> None]
    /\ outFor = [u \in Users |-> [profile |-> 0, company |-> 0]]
=============================================================================
