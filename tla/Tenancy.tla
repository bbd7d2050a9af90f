------------------------------ MODULE Tenancy ------------------------------
(***************************************************************************)
(* Concurrent calls of InvitationService, UserService and CompanyService   *)
(* about one e-mail address: it is invited into two companies, accepts     *)
(* with the tokens that were mailed to it, and the account that results is *)
(* deactivated, reactivated and erased, and its company suspended, deleted *)
(* and restored, while its token is verified (Accounts).                   *)
(*                                                                         *)
(* An invitation's id is the call that created it, and a token the call    *)
(* that generated it.  Supabase Auth holds one account per address, with   *)
(* the id the caller chose.                                                *)
(***************************************************************************)
EXTENDS Accounts, FiniteSets

CONSTANTS
    Calls,
    First,              \* an invitation into Own, sent before the calls begin
    MaxFaults           \* statements that fail or whose answer is lost

Invitations == {First} \cup Calls

ASSUME TenancyAssumption ==
    /\ Users = Invitations /\ First \notin Calls /\ None \notin Invitations
    /\ MaxFaults \in Nat

VARIABLES
    inv,        \* inv[i]: the user_invitations row, or NoInvitation
    mailed,     \* tokens that reached the address
    pc, op,     \* the statement each call executes next, and what it is about
    seen        \* seen[c]: the version it was given or has read

vars == <<accountVars, inv, mailed, pc, op, seen, budget>>

NoInvitation == [status |-> "none", company |-> None, token |-> None, expired |-> FALSE,
                 profile |-> None, usedToken |-> None, version |-> 0]

InvitationRecord ==
    [status: {"none", "pending", "accepted", "revoked"}, company: Companies \cup {None},
     token: Invitations \cup {None}, expired: BOOLEAN, profile: Users \cup {None},
     usedToken: Invitations \cup {None}, version: Nat]

NoOp == [kind |-> "none", on |-> None, arg |-> None]

Goto(c, p) == pc' = [pc EXCEPT ![c] = p]

After(c, r, p) == Goto(c, IF r = "ok" THEN p ELSE "failed")

Begin(c, kind, on, arg) ==
    /\ pc[c] = "idle"
    /\ op' = [op EXCEPT ![c] = [kind |-> kind, on |-> on, arg |-> arg]]

-----------------------------------------------------------------------------
(* What the statements write                                               *)

NewInvitation(k, token) ==
    [NoInvitation EXCEPT !.status = "pending", !.company = k, !.token = token, !.version = 1]

Resent(row, token) == [row EXCEPT !.token = token, !.expired = FALSE, !.version = @ + 1]

Revoked(row) == [row EXCEPT !.status = "revoked", !.version = @ + 1]

Accepted(row, u, token) ==
    [row EXCEPT !.status = "accepted", !.profile = u, !.usedToken = token, !.version = @ + 1]

\* Mutant: updates name the row only.
RowOnly(c, i) == inv[i].version > 0

\* update_status_with_lock
VersionMatches(c, i) == inv[i].version = seen[c]

find_pending_by_email(k) == \E i \in Invitations : inv[i].status = "pending" /\ inv[i].company = k

_require_pending(row) == row.status = "pending"

\* Mutant: the token alone counts.
AcceptableByToken(row) == TRUE

\* compute_effective_status is "pending".
_require_acceptable(row) == row.status = "pending" /\ ~row.expired

-----------------------------------------------------------------------------
(* create_invitation                                                       *)

CheckPending(c) ==
    /\ \E k \in Companies : Begin(c, "create", c, k)
    /\ \E r \in Replies :
        /\ Answers(r)
        /\ After(c, r, IF find_pending_by_email(op'[c].arg) THEN "failed" ELSE "insert")
    /\ UNCHANGED <<accountVars, inv, mailed, seen>>

PendingKeyFree(k) == ~find_pending_by_email(k)

InsertInvitation(c) ==
    /\ pc[c] = "insert"
    /\ \E r \in Replies :
        /\ Reply(r, PendingKeyFree(op[c].arg))
        /\ inv' = IF Applied(r) THEN [inv EXCEPT ![c] = NewInvitation(op[c].arg, c)] ELSE inv
        /\ After(c, r, "audit")
    /\ seen' = [seen EXCEPT ![c] = 1]
    /\ UNCHANGED <<accountVars, mailed, op>>

-----------------------------------------------------------------------------
(* resend_invitation and revoke_invitation                                 *)

ReadInvitation(c) ==
    /\ \E i \in Invitations, kind \in {"resend", "revoke"} :
        /\ inv[i].version > 0
        /\ Begin(c, kind, i, None)
        /\ seen' = [seen EXCEPT ![c] = inv[i].version]
        /\ \E r \in Replies :
            Answers(r) /\ After(c, r, IF _require_pending(inv[i]) THEN kind ELSE "failed")
    /\ UNCHANGED <<accountVars, inv, mailed>>

ChangeInvitation(c) ==
    /\ pc[c] \in {"resend", "revoke"}
    /\ LET i == op[c].on IN \E r \in Replies :
        /\ Reply(r, VersionMatches(c, i))
        /\ inv' = IF Applied(r)
                  THEN [inv EXCEPT ![i] = IF op[c].kind = "resend" THEN Resent(@, c) ELSE Revoked(@)]
                  ELSE inv
        /\ After(c, r, "audit")
    /\ UNCHANGED <<accountVars, mailed, op, seen>>

\* The audit entry ends every call; only then is a new token sent, which may
\* fail without a trace.
RecordAudit(c) ==
    /\ pc[c] = "audit"
    /\ \E r \in Replies :
        Reply(r, TRUE) /\ After(c, r, IF op[c].kind \in {"create", "resend"} THEN "mail" ELSE "done")
    /\ UNCHANGED <<accountVars, inv, mailed, op, seen>>

SendInvitation(c) ==
    /\ pc[c] = "mail"
    /\ \E sent \in BOOLEAN :
        mailed' = IF sent THEN mailed \cup {c} ELSE mailed
    /\ Goto(c, "done")
    /\ UNCHANGED <<accountVars, inv, op, seen, budget>>
-----------------------------------------------------------------------------
(* accept_invitation                                                       *)

\* _find_by_token_or_raise
ReadByToken(c) ==
    /\ \E i \in Invitations :
        /\ inv[i].token \in mailed
        /\ Begin(c, "accept", i, inv[i].token)
        /\ seen' = [seen EXCEPT ![c] = inv[i].version]
        /\ \E r \in Replies :
            Answers(r) /\ After(c, r, IF _require_acceptable(inv[i]) THEN "account" ELSE "failed")
    /\ UNCHANGED <<accountVars, inv, mailed>>

AddressTaken(i) == auth[i] # "none" \/ \E u \in Users : auth[u] = "open"

\* create_user; that the account is there already is taken for an earlier
\* attempt.  The trigger adds the profile in the same transaction.
CreateAccount(c) ==
    /\ pc[c] = "account"
    /\ LET i == op[c].on IN \E r \in Replies :
        /\ Reply(r, ~AddressTaken(i))
        /\ IF Applied(r)
           THEN /\ auth' = [auth EXCEPT ![i] = "open"]
                /\ profiles' = [profiles EXCEPT ![i] = handle_new_user(inv[i].company)]
           ELSE UNCHANGED <<auth, profiles>>
        /\ Goto(c, IF r \in {"ok", "refused"} THEN "wait" ELSE "failed")
    /\ UNCHANGED <<companies, cache, reading, inv, mailed, op, seen>>
    /\ Tracked

\* Mutant: a conflict is taken for an earlier attempt without looking.
WaitSkipped(i) == TRUE

\* _wait_for_profile gives up when the account belongs to somebody else.
_wait_for_profile(i) == HasProfile(i)

ConfirmProfile(c) ==
    /\ pc[c] = "wait"
    /\ \E r \in Replies :
        Answers(r) /\ After(c, r, IF _wait_for_profile(op[c].on) THEN "link" ELSE "failed")
    /\ UNCHANGED <<accountVars, inv, mailed, op, seen>>

MarkAccepted(c) ==
    /\ pc[c] = "link"
    /\ LET i == op[c].on IN \E r \in Replies :
        /\ Reply(r, VersionMatches(c, i))
        /\ inv' = IF Applied(r) THEN [inv EXCEPT ![i] = Accepted(@, i, op[c].arg)] ELSE inv
        /\ After(c, r, "audit")
    /\ UNCHANGED <<accountVars, mailed, op, seen>>

-----------------------------------------------------------------------------
(* UserService; the caller names the version of the profile it has seen    *)

\* _get_in_tenant: an administrator of the company k does not find a profile of
\* another.
ReadUser(c) ==
    /\ \E k \in Companies, u \in Users, kind \in {"activate", "deactivate", "erase"} :
        /\ HasProfile(u) /\ Begin(c, kind, u, None)
        /\ seen' = [seen EXCEPT ![c] = profiles[u].version]
        /\ \E r \in Replies :
            /\ Answers(r)
            /\ After(c, r, IF profiles[u].company # k THEN "failed"
                           ELSE IF kind # "erase" THEN "profile"
                           ELSE IF profiles[u].deleted THEN "done" ELSE "ban")
    /\ UNCHANGED <<accountVars, inv, mailed>>

\* update_profile
UpdateProfile(c) ==
    /\ pc[c] = "profile"
    /\ LET u == op[c].on IN \E r \in Replies :
        /\ Reply(r, profiles[u].version = seen[c])
        /\ profiles' = IF Applied(r)
                       THEN [profiles EXCEPT ![u] = UpdatedProfile(@, op[c].kind = "activate")]
                       ELSE profiles
        /\ After(c, r, "audit")
    /\ UNCHANGED <<auth, companies, cache, reading, inv, mailed, op, seen>>
    /\ Tracked

\* Mutant: a failure of Supabase does not stop the erasure.
BanBestEffort(c) ==
    /\ pc[c] = "ban"
    /\ \E r \in Replies :
        /\ Reply(r, TRUE)
        /\ auth' = IF Applied(r) THEN [auth EXCEPT ![op[c].on] = "banned"] ELSE auth
    /\ Goto(c, "erase")
    /\ UNCHANGED <<profiles, companies, cache, reading, outFor, inv, mailed, op, seen>>

\* erase_user: anonymize_user bans the account and gives up its address ...
BanAccount(c) ==
    /\ pc[c] = "ban"
    /\ \E r \in Replies :
        /\ Reply(r, TRUE)
        /\ auth' = IF Applied(r) THEN [auth EXCEPT ![op[c].on] = "banned"] ELSE auth
        /\ After(c, r, "erase")
    /\ UNCHANGED <<profiles, companies, cache, reading, outFor, inv, mailed, op, seen>>

\* ... and then the profile is overwritten.
EraseProfile(c) ==
    /\ pc[c] = "erase"
    /\ LET u == op[c].on IN \E r \in Replies :
        /\ Reply(r, profiles[u].version = seen[c])
        /\ profiles' = IF Applied(r) THEN [profiles EXCEPT ![u] = ErasedProfile(@)] ELSE profiles
        /\ After(c, r, "audit")
    /\ UNCHANGED <<auth, companies, cache, reading, inv, mailed, op, seen>>
    /\ Tracked

-----------------------------------------------------------------------------
(* CompanyService                                                          *)

\* A platform administrator of the company own may not close that.
_guard_against_self_lockout(own, k, kind) == k = own => kind \notin {"suspend", "delete"}

\* update_company, soft_delete_company and restore_company up to the statement.
ChooseCompany(c) ==
    /\ \E own, k \in Companies, kind \in {"suspend", "reactivate", "delete", "restore"} :
        /\ Begin(c, kind, k, None)
        /\ seen' = [seen EXCEPT ![c] = companies[k].version]
        /\ Goto(c, IF _guard_against_self_lockout(own, k, kind) THEN "company" ELSE "failed")
    /\ UNCHANGED <<accountVars, inv, mailed, budget>>

ChangedCompany(row, kind) ==
    IF kind \in {"suspend", "reactivate"} THEN UpdatedCompany(row, kind = "reactivate")
                                          ELSE DeletedCompany(row, kind = "delete")

ChangeCompany(c) ==
    /\ pc[c] = "company"
    /\ LET k == op[c].on IN \E r \in Replies :
        /\ Reply(r, companies[k].version = seen[c])
        /\ companies' = IF Applied(r) THEN [companies EXCEPT ![k] = ChangedCompany(@, op[c].kind)]
                                      ELSE companies
        /\ After(c, r, "audit")
    /\ UNCHANGED <<profiles, auth, cache, reading, inv, mailed, op, seen>>
    /\ Tracked

-----------------------------------------------------------------------------
Expire(i) ==
    /\ inv[i].status = "pending" /\ ~inv[i].expired
    /\ inv' = [inv EXCEPT ![i].expired = TRUE]
    /\ UNCHANGED <<accountVars, mailed, pc, op, seen, budget>>

\* A process that dies before a statement leaves what a failure of that statement
\* leaves, so crashes are not counted apart.
Init ==
    /\ InitAccounts
    /\ inv = [i \in Invitations |-> IF i = First THEN NewInvitation(Own, First) ELSE NoInvitation]
    /\ mailed = {First}
    /\ pc = [c \in Calls |-> "idle"]
    /\ op = [c \in Calls |-> NoOp]
    /\ seen = [c \in Calls |-> 0]
    /\ budget \in {b \in [errors: 0..MaxFaults, lost: 0..MaxFaults] : b.errors + b.lost = MaxFaults}

Step(c) ==
    \/ CheckPending(c) \/ InsertInvitation(c) \/ ReadInvitation(c) \/ ChangeInvitation(c)
    \/ RecordAudit(c) \/ SendInvitation(c)
    \/ ReadByToken(c) \/ CreateAccount(c) \/ ConfirmProfile(c) \/ MarkAccepted(c)
    \/ ReadUser(c) \/ UpdateProfile(c) \/ BanAccount(c) \/ EraseProfile(c)
    \/ ChooseCompany(c) \/ ChangeCompany(c)

Verify(u) ==
    /\ ReadProfile(u) \/ ReadCompany(u)
    /\ UNCHANGED <<inv, mailed, pc, op, seen>>

Next ==
    \/ \E c \in Calls : Step(c)
    \/ \E u \in Users : Verify(u)
    \/ \E i \in Invitations : Expire(i)
    \/ Pass /\ UNCHANGED <<inv, mailed, pc, op, seen>>

Spec == Init /\ [][Next]_vars
-----------------------------------------------------------------------------
(* Properties *)

\* An accepted invitation leads to a profile of its own in its company, whatever
\* attempts failed before it and whoever else has an account with the address
\* (accept_invitation).
AcceptedHasOwnProfile ==
    \A i \in Invitations : inv[i].status = "accepted" =>
        /\ inv[i].profile = i /\ HasProfile(i)
        /\ profiles[i].company = inv[i].company

\* The token an invitation was accepted with is the one sent last: resending
\* withdraws the earlier one, also from an acceptance under way.
AcceptedWithLastToken ==
    \A i \in Invitations : inv[i].status = "accepted" => inv[i].usedToken = inv[i].token

\* A revoked invitation has led to an account only when an acceptance had read
\* it before the revocation (accept_invitation, revoke_invitation).
RevokedAccountOnlyByOverlap ==
    \A i \in Invitations : inv[i].status = "revoked" /\ HasProfile(i) =>
        \E c \in Calls : op[c].kind = "accept" /\ op[c].on = i /\ seen[c] < inv[i].version

\* Whoever has been deactivated or erased for the lifetime of an answer, or whose
\* company has been suspended or deleted for that long, is not let in, whatever
\* administrators of both companies do meanwhile and however the two reads of a
\* verification fall between their changes; activating an erased profile does not
\* change that.  The reads are no snapshot, so each cause has its own time
\* (SupabaseTokenVerifier, update_profile, erase_user, CompanyService).
RevocationTakesEffect ==
    \A u \in Users : outFor[u].profile >= Ttl \/ outFor[u].company >= Ttl => cache[u] = 0

\* A profile is erased only after its account was banned (erase_user).
ErasedIsBanned == \A u \in Users : profiles[u].deleted => auth[u] = "banned"

-----------------------------------------------------------------------------
(* What the documentation says and the code does not keep *)

\* Whoever is deactivated, or whose company is suspended, is rejected on the very
\* next request (the docstrings of update_profile and update_company).
RejectedOnNextRequest == \A u \in Users : cache[u] > 0 => ProfileIn(u) /\ CompanyIn(u)
=============================================================================
