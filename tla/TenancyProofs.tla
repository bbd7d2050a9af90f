---------------------------- MODULE TenancyProofs ----------------------------
(***************************************************************************)
(* Proofs about Tenancy, for any number of calls and of faults and every   *)
(* lifetime of a cached answer.                                            *)
(***************************************************************************)
EXTENDS Tenancy, TLAPS

-----------------------------------------------------------------------------
(* The inductive invariant                                                 *)

Things == Invitations \cup Companies \cup {None}
Kinds == {"none", "create", "resend", "revoke", "accept", "activate", "deactivate", "erase",
          "suspend", "reactivate", "delete", "restore"}
Operation == [kind: Kinds, on: Things, arg: Things]
Pcs == {"idle", "insert", "resend", "revoke", "audit", "mail", "account", "wait", "link",
        "profile", "ban", "erase", "company", "done", "failed"}

Times == [profile: Nat, company: Nat]

AccountTypes ==
    /\ profiles \in [Users -> ProfileRecord] /\ auth \in [Users -> {"none", "open", "banned"}]
    /\ companies \in [Companies -> CompanyRecord] /\ cache \in [Users -> Nat]
    /\ reading \in [Users -> Companies \cup {None}] /\ outFor \in [Users -> Times]

CallTypes ==
    /\ inv \in [Invitations -> InvitationRecord] /\ mailed \subseteq Invitations
    /\ pc \in [Calls -> Pcs] /\ op \in [Calls -> Operation] /\ seen \in [Calls -> Nat]

\* The invitation a call is about has not changed since, or has a later version.
Saw(c) ==
    /\ op[c].on \in Invitations
    /\ seen[c] <= inv[op[c].on].version
    /\ seen[c] = inv[op[c].on].version => inv[op[c].on].status = "pending"

\* What each statement of a call may rely on, whatever others did meanwhile.
Relies(c) ==
    /\ pc[c] \in {"idle", "insert"} => inv[c].version = 0
    /\ pc[c] = "insert" => op[c].arg \in Companies
    /\ pc[c] \in {"resend", "revoke", "account", "wait", "link"} => Saw(c) /\ seen[c] > 0
    /\ pc[c] \in {"account", "wait", "link"} =>
           /\ op[c].kind = "accept" /\ op[c].arg \in Invitations
           /\ seen[c] = inv[op[c].on].version => inv[op[c].on].token = op[c].arg
    /\ pc[c] = "link" => HasProfile(op[c].on)
    /\ pc[c] \in {"profile", "ban", "erase"} =>
           op[c].on \in Users /\ HasProfile(op[c].on)
    /\ pc[c] = "erase" => auth[op[c].on] = "banned"
    /\ pc[c] = "company" => op[c].on \in Companies

RowSound(i) ==
    /\ inv[i].version = 0 => inv[i] = NoInvitation
    /\ inv[i].status = "accepted" =>
           inv[i].profile = i /\ HasProfile(i) /\ inv[i].usedToken = inv[i].token

\* Call c has accepted invitation i, or tried to.
Tries(c, i) ==
    /\ pc[c] \notin {"idle", "insert"} /\ op[c].kind = "accept" /\ op[c].on = i /\ Saw(c)

ProfileSound(u) ==
    /\ HasProfile(u) =>
           /\ auth[u] # "none" /\ inv[u].version > 0 /\ profiles[u].company = inv[u].company
           /\ \E c \in Calls : Tries(c, u)
    /\ profiles[u].deleted => HasProfile(u) /\ auth[u] = "banned"

\* What the verifier may rely on: time passes only between verifications, so the
\* profile that let u in has not been out when the company is read.
Verified(u) ==
    /\ ProfileIn(u) => outFor[u].profile = 0
    /\ CompanyIn(u) => outFor[u].company = 0
    /\ reading[u] # None =>
           HasProfile(u) /\ reading[u] = profiles[u].company /\ outFor[u].profile = 0
    /\ cache[u] > 0 =>
           outFor[u].profile + cache[u] <= Ttl /\ outFor[u].company + cache[u] <= Ttl

VerifierInv == \A u \in Users : Verified(u)

TenancyInv ==
    /\ AccountTypes /\ CallTypes
    /\ \A c \in Calls : Relies(c)
    /\ \A i \in Invitations : RowSound(i)
    /\ \A u \in Users : ProfileSound(u)
    /\ VerifierInv

-----------------------------------------------------------------------------
(* What the statements write                                               *)

LEMMA Invited == ASSUME NEW c \in Calls PROVE c \in Invitations /\ c # None
BY TenancyAssumption DEF Invitations

LEMMA UsersAreInvitations == Users = Invitations /\ None \notin Users /\ None \notin Calls
BY TenancyAssumption DEF Invitations

LEMMA ReplyMatches ==
    ASSUME NEW r, NEW m, Reply(r, m)
    PROVE  (Applied(r) => m) /\ (r = "ok" => Applied(r)) /\ (r = "refused" => ~m)
BY DEF Reply, Applied

LEMMA NoRow == NoInvitation.version = 0 /\ NoInvitation.token = None /\ NoInvitation.status = "none"
BY DEF NoInvitation

LEMMA NewRow ==
    ASSUME NEW k \in Companies, NEW t \in Invitations
    PROVE  /\ NewInvitation(k, t) \in InvitationRecord
           /\ NewInvitation(k, t).status = "pending" /\ NewInvitation(k, t).company = k
           /\ NewInvitation(k, t).version = 1
BY DEF NewInvitation, NoInvitation, InvitationRecord

LEMMA WrittenRow ==
    ASSUME NEW row \in InvitationRecord, NEW s \in {"none", "pending", "accepted", "revoked"},
           NEW t \in Invitations \cup {None}, NEW u \in Users \cup {None}, NEW b \in BOOLEAN,
           NEW w \in Invitations \cup {None}, NEW n \in Nat
    PROVE  /\ [row EXCEPT !.token = t, !.expired = b, !.version = n] \in InvitationRecord
           /\ [row EXCEPT !.status = s, !.version = n] \in InvitationRecord
           /\ [row EXCEPT !.status = s, !.profile = u, !.usedToken = w, !.version = n]
                  \in InvitationRecord
<1>1. [row EXCEPT !.token = t, !.expired = b, !.version = n] \in InvitationRecord
  BY DEF InvitationRecord
<1>2. [row EXCEPT !.status = s, !.version = n] \in InvitationRecord
  BY DEF InvitationRecord
<1>3. [row EXCEPT !.status = s, !.profile = u, !.usedToken = w, !.version = n] \in InvitationRecord
  BY DEF InvitationRecord
<1> QED BY <1>1, <1>2, <1>3

LEMMA ResentRow ==
    ASSUME NEW row \in InvitationRecord, NEW t \in Invitations
    PROVE  /\ Resent(row, t) \in InvitationRecord
           /\ Resent(row, t).status = row.status /\ Resent(row, t).company = row.company
           /\ Resent(row, t).version = row.version + 1
<1>1. row.version + 1 \in Nat
  BY DEF InvitationRecord
<1>2. Resent(row, t) \in InvitationRecord
  BY <1>1, WrittenRow DEF Resent
<1> QED BY <1>2 DEF Resent, InvitationRecord

LEMMA RevokedRow ==
    ASSUME NEW row \in InvitationRecord
    PROVE  /\ Revoked(row) \in InvitationRecord
           /\ Revoked(row).status = "revoked" /\ Revoked(row).company = row.company
           /\ Revoked(row).version = row.version + 1
<1>1. row.version + 1 \in Nat
  BY DEF InvitationRecord
<1>2. Revoked(row) \in InvitationRecord
  BY <1>1, WrittenRow DEF Revoked
<1> QED BY <1>2 DEF Revoked, InvitationRecord

LEMMA AcceptedRow ==
    ASSUME NEW row \in InvitationRecord, NEW u \in Users, NEW t \in Invitations
    PROVE  /\ Accepted(row, u, t) \in InvitationRecord
           /\ Accepted(row, u, t).status = "accepted" /\ Accepted(row, u, t).company = row.company
           /\ Accepted(row, u, t).version = row.version + 1
           /\ Accepted(row, u, t).profile = u /\ Accepted(row, u, t).usedToken = t
           /\ Accepted(row, u, t).token = row.token
<1>1. row.version + 1 \in Nat
  BY DEF InvitationRecord
<1>2. Accepted(row, u, t) \in InvitationRecord
  BY <1>1, WrittenRow DEF Accepted
<1> QED BY <1>2 DEF Accepted, InvitationRecord

LEMMA ExpiredRow ==
    ASSUME NEW row \in InvitationRecord
    PROVE  /\ [row EXCEPT !.expired = TRUE] \in InvitationRecord
           /\ [row EXCEPT !.expired = TRUE].status = row.status
           /\ [row EXCEPT !.expired = TRUE].company = row.company
           /\ [row EXCEPT !.expired = TRUE].version = row.version
           /\ [row EXCEPT !.expired = TRUE].token = row.token
BY DEF InvitationRecord

LEMMA NewProfile ==
    ASSUME NEW k \in Companies \cup {None}
    PROVE  /\ handle_new_user(k) \in ProfileRecord /\ handle_new_user(k).company = k
           /\ handle_new_user(k).active /\ ~handle_new_user(k).deleted
           /\ handle_new_user(k).version = 1
BY DEF handle_new_user, ProfileRecord

LEMMA WrittenProfile ==
    ASSUME NEW row \in ProfileRecord, NEW a \in BOOLEAN, NEW b \in BOOLEAN, NEW n \in Nat
    PROVE  /\ [row EXCEPT !.active = a, !.version = n] \in ProfileRecord
           /\ [row EXCEPT !.active = a, !.deleted = b, !.version = n] \in ProfileRecord
BY DEF ProfileRecord

LEMMA UpdatedRow ==
    ASSUME NEW row \in ProfileRecord, NEW on \in BOOLEAN
    PROVE  /\ UpdatedProfile(row, on) \in ProfileRecord
           /\ UpdatedProfile(row, on).company = row.company
           /\ UpdatedProfile(row, on).deleted = row.deleted
           /\ UpdatedProfile(row, on).version = row.version + 1
<1>1. row.version + 1 \in Nat
  BY DEF ProfileRecord
<1>2. UpdatedProfile(row, on) \in ProfileRecord
  BY <1>1, WrittenProfile DEF UpdatedProfile
<1> QED BY <1>2 DEF UpdatedProfile, ProfileRecord

LEMMA ErasedRow ==
    ASSUME NEW row \in ProfileRecord
    PROVE  /\ ErasedProfile(row) \in ProfileRecord
           /\ ErasedProfile(row).company = row.company
           /\ ErasedProfile(row).version = row.version + 1
<1>1. row.version + 1 \in Nat
  BY DEF ProfileRecord
<1>2. ErasedProfile(row) \in ProfileRecord
  BY <1>1, WrittenProfile DEF ErasedProfile
<1> QED BY <1>2 DEF ErasedProfile, ProfileRecord

LEMMA ChangedCompanyRow ==
    ASSUME NEW row \in CompanyRecord, NEW kind
    PROVE  ChangedCompany(row, kind) \in CompanyRecord
<1>1. row.version + 1 \in Nat
  BY DEF CompanyRecord
<1>2. \A on \in BOOLEAN, n \in Nat :
        /\ [row EXCEPT !.active = on, !.version = n] \in CompanyRecord
        /\ [row EXCEPT !.deleted = on, !.version = n] \in CompanyRecord
  BY DEF CompanyRecord
<1>3. (kind = "reactivate") \in BOOLEAN /\ (kind = "delete") \in BOOLEAN
  OBVIOUS
<1> QED BY <1>1, <1>2, <1>3 DEF ChangedCompany, UpdatedCompany, DeletedCompany

-----------------------------------------------------------------------------
(* What the others keep when call d takes a step (None: no call does)      *)

Grown(old, new) ==
    /\ new.version >= old.version
    /\ old.version > 0 => new.company = old.company
    /\ new.version = old.version => new.status = old.status /\ new.token = old.token

Onward(d) ==
    /\ \A i \in Invitations :
           Grown(inv[i], inv'[i]) /\ (i # d /\ inv[i].version = 0 => inv'[i].version = 0)
    /\ \A u \in Users :
           /\ profiles[u].version > 0 =>
                  profiles'[u].version > 0 /\ profiles'[u].company = profiles[u].company
           /\ auth[u] = "banned" => auth'[u] = "banned"
    /\ \A c \in Calls : c # d => pc'[c] = pc[c] /\ op'[c] = op[c] /\ seen'[c] = seen[c]
    /\ d \in Calls /\ pc[d] \notin {"idle", "insert"} =>
           pc'[d] \notin {"idle", "insert"} /\ op'[d] = op[d] /\ seen'[d] = seen[d]

LEMMA SameIsGrown == ASSUME NEW row \in InvitationRecord PROVE Grown(row, row)
BY DEF Grown, InvitationRecord

LEMMA LaterIsGrown ==
    ASSUME NEW row \in InvitationRecord, NEW new, new.version = row.version + 1,
           new.company = row.company
    PROVE  Grown(row, new)
BY DEF Grown, InvitationRecord

\* A call that saw a row still has seen it, or an earlier version.
LEMMA StillSeen ==
    ASSUME CallTypes, CallTypes', NEW d, Onward(d), NEW c \in Calls, Saw(c),
           op'[c] = op[c], seen'[c] = seen[c]
    PROVE  /\ Saw(c)'
           /\ seen'[c] = inv'[op[c].on].version =>
                  /\ seen[c] = inv[op[c].on].version
                  /\ inv'[op[c].on].token = inv[op[c].on].token
<1>1. op[c].on \in Invitations
  BY DEF Saw
<1>2. PICK i \in Invitations : i = op[c].on
  BY <1>1
<1>3. /\ inv[i].version \in Nat /\ inv'[i].version \in Nat /\ seen[c] \in Nat
  BY DEF CallTypes, InvitationRecord
<1>4. /\ inv'[i].version >= inv[i].version
      /\ inv'[i].version = inv[i].version =>
             inv'[i].status = inv[i].status /\ inv'[i].token = inv[i].token
  BY DEF Onward, Grown
<1>5. seen[c] <= inv[i].version /\ (seen[c] = inv[i].version => inv[i].status = "pending")
  BY <1>2 DEF Saw
<1>6. seen[c] <= inv'[i].version /\ (seen[c] = inv'[i].version => inv[i].version = inv'[i].version)
  BY <1>3, <1>4, <1>5
<1> QED BY <1>2, <1>4, <1>5, <1>6 DEF Saw

LEMMA StillTries ==
    ASSUME CallTypes, CallTypes', NEW d, Onward(d), NEW c \in Calls, NEW i, Tries(c, i)
    PROVE  Tries(c, i)'
<1>1. pc[c] \notin {"idle", "insert"} /\ op[c].kind = "accept" /\ op[c].on = i /\ Saw(c)
  BY DEF Tries
<1>2. pc'[c] \notin {"idle", "insert"} /\ op'[c] = op[c] /\ seen'[c] = seen[c]
  BY <1>1 DEF Onward
<1>3. Saw(c)'
  BY <1>1, <1>2, StillSeen
<1> QED BY <1>1, <1>2, <1>3 DEF Tries

LEMMA OthersRely ==
    ASSUME CallTypes, CallTypes', NEW d, Onward(d), NEW c \in Calls, c # d, Relies(c)
    PROVE  Relies(c)'
<1>1. pc'[c] = pc[c] /\ op'[c] = op[c] /\ seen'[c] = seen[c]
  BY DEF Onward
<1>2. pc[c] \in {"idle", "insert"} => inv'[c].version = 0
  BY Invited DEF Relies, Onward
<1>3. pc[c] = "insert" => op[c].arg \in Companies
  BY DEF Relies
<1>4. CASE pc[c] \in {"resend", "revoke", "account", "wait", "link"}
  <2>1. Saw(c) /\ seen[c] > 0
    BY <1>4 DEF Relies
  <2>2. /\ Saw(c)'
        /\ seen'[c] = inv'[op[c].on].version =>
               /\ seen[c] = inv[op[c].on].version
               /\ inv'[op[c].on].token = inv[op[c].on].token
    BY <1>1, <2>1, StillSeen
  <2>3. pc[c] = "link" => profiles'[op[c].on].version > 0
    BY <2>1, UsersAreInvitations DEF Relies, Onward, HasProfile, Saw
  <2>4. pc[c] \in {"account", "wait", "link"} =>
          /\ op[c].kind = "accept" /\ op[c].arg \in Invitations
          /\ seen[c] = inv[op[c].on].version => inv[op[c].on].token = op[c].arg
    BY DEF Relies
  <2> QED BY <1>1, <1>4, <2>1, <2>2, <2>3, <2>4 DEF Relies, HasProfile
<1>5. CASE pc[c] \in {"profile", "ban", "erase"}
  <2>1. op[c].on \in Users /\ HasProfile(op[c].on)
    BY <1>5 DEF Relies
  <2>2. profiles'[op[c].on].version > 0
    BY <2>1 DEF Onward, HasProfile
  <2>3. pc[c] = "erase" => auth'[op[c].on] = "banned"
    BY <2>1 DEF Relies, Onward
  <2> QED BY <1>1, <1>5, <2>1, <2>2, <2>3 DEF Relies, HasProfile
<1>6. CASE pc[c] \notin {"resend", "revoke", "account", "wait", "link", "profile", "ban", "erase"}
  BY <1>1, <1>2, <1>3, <1>6 DEF Relies
<1> QED BY <1>4, <1>5, <1>6

\* A step that writes no invitation.
LEMMA RowsAside ==
    ASSUME TenancyInv, NEW d, Onward(d), inv' = inv
    PROVE  \A i \in Invitations : RowSound(i)'
BY UsersAreInvitations DEF TenancyInv, RowSound, Onward, HasProfile

\* A step that does not write the profile of u, nor its account but to ban it.
LEMMA ProfileAside ==
    ASSUME TenancyInv, CallTypes', NEW d, Onward(d), NEW u \in Users, profiles'[u] = profiles[u],
           auth'[u] \in {auth[u], "banned"}
    PROVE  ProfileSound(u)'
<1>1. ProfileSound(u) /\ u \in Invitations /\ CallTypes
  BY UsersAreInvitations DEF TenancyInv
<1>2. /\ inv[u].version \in Nat /\ inv'[u].version \in Nat
      /\ inv'[u].version >= inv[u].version
      /\ inv[u].version > 0 => inv'[u].company = inv[u].company
  BY <1>1 DEF CallTypes, InvitationRecord, Onward, Grown
<1>3. (\E c \in Calls : Tries(c, u)) => (\E c \in Calls : Tries(c, u)')
  BY <1>1, StillTries
<1>4. HasProfile(u)' <=> HasProfile(u)
  BY DEF HasProfile
<1>5. HasProfile(u) =>
        /\ auth'[u] # "none" /\ inv'[u].version > 0
        /\ profiles[u].company = inv'[u].company
  BY <1>1, <1>2 DEF ProfileSound
<1>6. profiles[u].deleted => auth'[u] = "banned"
  BY <1>1 DEF ProfileSound, Onward
<1> QED BY <1>1, <1>3, <1>4, <1>5, <1>6 DEF ProfileSound

LEMMA VerifierAside ==
    ASSUME VerifierInv, profiles' = profiles, companies' = companies, cache' = cache,
           reading' = reading, outFor' = outFor
    PROVE  VerifierInv'
BY DEF VerifierInv, Verified, ProfileIn, CompanyIn, HasProfile

\* A step that writes profiles or companies: no time passes, so what lets in has
\* not been out, and what was out is so no longer than before.
LEMMA TrackedVerifier ==
    ASSUME TenancyInv, NEW d, Onward(d), cache' = cache, reading' = reading, Tracked
    PROVE  VerifierInv' /\ outFor' \in [Users -> Times]
<1>1. ASSUME NEW u \in Users
      PROVE  outFor'[u] \in Times /\ Verified(u)'
  <2>1. Verified(u)
    BY DEF TenancyInv, VerifierInv
  <2>2. /\ outFor[u].profile \in Nat /\ outFor[u].company \in Nat
        /\ cache[u] \in Nat /\ Ttl \in Nat
    BY AccountAssumption DEF TenancyInv, AccountTypes, Times
  <2>3. outFor'[u] = [profile |-> Since(ProfileIn(u)', outFor[u].profile),
                      company |-> Since(CompanyIn(u)', outFor[u].company)]
    BY DEF Tracked
  <2>4. /\ outFor'[u].profile \in {0, outFor[u].profile}
        /\ outFor'[u].company \in {0, outFor[u].company}
        /\ ProfileIn(u)' => outFor'[u].profile = 0
        /\ CompanyIn(u)' => outFor'[u].company = 0
        /\ outFor'[u] \in Times
    BY <2>2, <2>3 DEF Since, Times
  <2>5. reading[u] # None =>
          HasProfile(u)' /\ reading[u] = profiles'[u].company /\ outFor'[u].profile = 0
    BY <2>1, <2>4 DEF Verified, Onward, HasProfile
  <2>6. cache[u] > 0 =>
          outFor'[u].profile + cache[u] <= Ttl /\ outFor'[u].company + cache[u] <= Ttl
    BY <2>1, <2>2, <2>4 DEF Verified
  <2> QED BY <2>4, <2>5, <2>6 DEF Verified
<1>2. outFor' = [u \in Users |-> outFor'[u]]
  BY DEF Tracked
<1> QED BY <1>1, <1>2 DEF VerifierInv

\* What a step of call d, or of none, has to keep.
LEMMA StepKeeps ==
    ASSUME TenancyInv, NEW d, Onward(d), AccountTypes', CallTypes',
           d \in Calls => Relies(d)', \A i \in Invitations : RowSound(i)',
           \A u \in Users : ProfileSound(u)', VerifierInv'
    PROVE  TenancyInv'
<1>1. ASSUME NEW c \in Calls PROVE Relies(c)'
  <2>1. CASE c = d
    BY <2>1
  <2>2. CASE c # d
    <3>1. CallTypes /\ Relies(c)
      BY DEF TenancyInv
    <3> QED BY <2>2, <3>1, OthersRely
  <2> QED BY <2>1, <2>2
<1> QED BY <1>1 DEF TenancyInv

\* A call that writes no row.
LEMMA QuietStep ==
    ASSUME TenancyInv, NEW d \in Calls, accountVars' = accountVars, inv' = inv,
           mailed' \subseteq Invitations,
           NEW p \in Pcs \ {"idle"}, pc' = [pc EXCEPT ![d] = p],
           op' \in [Calls -> Operation], seen' \in [Calls -> Nat],
           \A c \in Calls : c # d => op'[c] = op[c] /\ seen'[c] = seen[c],
           pc[d] \notin {"idle", "insert"} =>
               p # "insert" /\ op'[d] = op[d] /\ seen'[d] = seen[d],
           Relies(d)'
    PROVE  TenancyInv'
<1>1. /\ profiles' = profiles /\ auth' = auth /\ companies' = companies /\ cache' = cache
      /\ reading' = reading /\ outFor' = outFor
  BY DEF accountVars
<1>2. CallTypes /\ AccountTypes /\ VerifierInv
  BY DEF TenancyInv
<1>3. AccountTypes' /\ CallTypes' /\ VerifierInv'
  BY <1>1, <1>2, VerifierAside DEF AccountTypes, CallTypes
<1>4. /\ pc'[d] = p /\ \A c \in Calls : c # d => pc'[c] = pc[c]
  BY <1>2 DEF CallTypes
<1>5. \A i \in Invitations : Grown(inv[i], inv'[i])
  BY <1>2, SameIsGrown DEF CallTypes
<1>6. Onward(d)
  BY <1>1, <1>4, <1>5 DEF Onward
<1>7. (\A i \in Invitations : RowSound(i)') /\ (\A u \in Users : ProfileSound(u)')
  BY <1>1, <1>3, <1>6, RowsAside, ProfileAside
<1> QED BY <1>3, <1>6, <1>7, StepKeeps

-----------------------------------------------------------------------------
(* Calls that write no row, one lemma per action                           *)

LEMMA Begun ==
    ASSUME CallTypes, NEW c \in Calls, NEW kind \in Kinds, NEW on \in Things, NEW arg \in Things,
           Begin(c, kind, on, arg)
    PROVE  /\ pc[c] = "idle" /\ op' \in [Calls -> Operation]
           /\ op'[c].kind = kind /\ op'[c].on = on /\ op'[c].arg = arg
           /\ \A d \in Calls : d # c => op'[d] = op[d]
<1>1. [kind |-> kind, on |-> on, arg |-> arg] \in Operation
  BY DEF Operation
<1> QED BY <1>1 DEF Begin, CallTypes

LEMMA Looked ==
    ASSUME CallTypes, NEW c \in Calls, NEW n \in Nat, seen' = [seen EXCEPT ![c] = n]
    PROVE  /\ seen' \in [Calls -> Nat] /\ seen'[c] = n
           /\ \A d \in Calls : d # c => seen'[d] = seen[d]
BY DEF CallTypes

LEMMA Moved ==
    ASSUME CallTypes, NEW c \in Calls, NEW p \in Pcs, pc' = [pc EXCEPT ![c] = p]
    PROVE  /\ pc' \in [Calls -> Pcs] /\ pc'[c] = p
           /\ \A d \in Calls : d # c => pc'[d] = pc[d]
BY DEF CallTypes

\* A call that has no statement left to execute on a row relies on nothing.
LEMMA OverRelies ==
    ASSUME NEW c \in Calls, pc'[c] \in {"audit", "mail", "done", "failed"}
    PROVE  Relies(c)'
BY DEF Relies

LEMMA ThingsAre ==
    /\ Invitations \subseteq Things /\ Companies \subseteq Things /\ None \in Things
    /\ Users \subseteq Things
BY UsersAreInvitations DEF Things

LEMMA CheckPendingStep ==
    ASSUME TenancyInv, NEW c \in Calls, CheckPending(c)
    PROVE  TenancyInv'
<1>1. PICK k \in Companies : Begin(c, "create", c, k)
  BY DEF CheckPending
<1>2. CallTypes /\ Relies(c) /\ c \in Things /\ k \in Things /\ "create" \in Kinds
  BY Invited, ThingsAre DEF TenancyInv, Kinds
<1>3. /\ pc[c] = "idle" /\ op' \in [Calls -> Operation] /\ op'[c].arg = k
      /\ \A d \in Calls : d # c => op'[d] = op[d]
  BY <1>1, <1>2, Begun
<1>4. /\ accountVars' = accountVars /\ inv' = inv /\ mailed' = mailed /\ seen' = seen
      /\ \E p \in {"failed", "insert"} : pc' = [pc EXCEPT ![c] = p]
  BY DEF CheckPending, After, Goto
<1>5. PICK p \in {"failed", "insert"} : pc' = [pc EXCEPT ![c] = p]
  BY <1>4
<1>6. p \in Pcs \ {"idle"}
  BY DEF Pcs
<1>7. pc'[c] = p /\ inv[c].version = 0
  BY <1>2, <1>3, <1>5, <1>6, Moved DEF Relies
<1>8. Relies(c)'
  BY <1>3, <1>4, <1>7 DEF Relies
<1>9. mailed' \subseteq Invitations /\ seen' \in [Calls -> Nat]
  BY <1>2, <1>4 DEF CallTypes
<1> QED BY <1>3, <1>4, <1>5, <1>6, <1>8, <1>9, QuietStep

LEMMA ReadInvitationStep ==
    ASSUME TenancyInv, NEW c \in Calls, ReadInvitation(c)
    PROVE  TenancyInv'
<1>1. PICK i \in Invitations, kind \in {"resend", "revoke"} :
        /\ inv[i].version > 0
        /\ Begin(c, kind, i, None)
        /\ seen' = [seen EXCEPT ![c] = inv[i].version]
        /\ \E r \in Replies :
            Answers(r) /\ After(c, r, IF _require_pending(inv[i]) THEN kind ELSE "failed")
  BY DEF ReadInvitation
<1>2. /\ CallTypes /\ i \in Things /\ None \in Things /\ kind \in Kinds
      /\ inv[i].version \in Nat
  BY ThingsAre DEF TenancyInv, Kinds, CallTypes, InvitationRecord
<1>3. /\ pc[c] = "idle" /\ op' \in [Calls -> Operation] /\ op'[c].on = i
      /\ \A d \in Calls : d # c => op'[d] = op[d]
  BY <1>1, <1>2, Begun
<1>4. /\ seen' \in [Calls -> Nat] /\ seen'[c] = inv[i].version
      /\ \A d \in Calls : d # c => seen'[d] = seen[d]
  BY <1>1, <1>2, Looked
<1>5. /\ accountVars' = accountVars /\ inv' = inv /\ mailed' = mailed
      /\ \E p \in {"failed", kind} : /\ pc' = [pc EXCEPT ![c] = p]
                                     /\ p = "failed" \/ inv[i].status = "pending"
  BY <1>1 DEF ReadInvitation, After, Goto, _require_pending
<1>6. PICK p \in {"failed", kind} : /\ pc' = [pc EXCEPT ![c] = p]
                                    /\ p = "failed" \/ inv[i].status = "pending"
  BY <1>5
<1>7. p \in {"failed", "resend", "revoke"} /\ p \in Pcs \ {"idle"}
  BY <1>1 DEF Pcs
<1>8. pc'[c] = p
  BY <1>2, <1>6, <1>7, Moved
<1>9. CASE p = "failed"
  BY <1>2, <1>3, <1>4, <1>5, <1>6, <1>7, <1>8, <1>9, OverRelies, QuietStep DEF CallTypes
<1>10. CASE p # "failed"
  <2>1. Saw(c)' /\ seen'[c] > 0
    BY <1>1, <1>2, <1>3, <1>4, <1>5, <1>6, <1>10 DEF Saw
  <2>2. Relies(c)'
    BY <1>7, <1>8, <1>10, <2>1 DEF Relies
  <2> QED BY <1>2, <1>3, <1>4, <1>5, <1>6, <1>7, <2>2, QuietStep DEF CallTypes
<1> QED BY <1>9, <1>10

LEMMA ReadByTokenStep ==
    ASSUME TenancyInv, NEW c \in Calls, ReadByToken(c)
    PROVE  TenancyInv'
<1>1. PICK i \in Invitations :
        /\ inv[i].token \in mailed
        /\ Begin(c, "accept", i, inv[i].token)
        /\ seen' = [seen EXCEPT ![c] = inv[i].version]
        /\ \E r \in Replies :
            Answers(r) /\ After(c, r, IF _require_acceptable(inv[i]) THEN "account" ELSE "failed")
  BY DEF ReadByToken
<1>2. /\ CallTypes /\ i \in Things /\ inv[i].token \in Invitations /\ inv[i].token \in Things
      /\ "accept" \in Kinds /\ inv[i].version \in Nat
  BY <1>1, ThingsAre DEF TenancyInv, Kinds, CallTypes, InvitationRecord
<1>3. /\ pc[c] = "idle" /\ op' \in [Calls -> Operation] /\ op'[c].on = i
      /\ op'[c].kind = "accept" /\ op'[c].arg = inv[i].token
      /\ \A d \in Calls : d # c => op'[d] = op[d]
  BY <1>1, <1>2, Begun
<1>4. /\ seen' \in [Calls -> Nat] /\ seen'[c] = inv[i].version
      /\ \A d \in Calls : d # c => seen'[d] = seen[d]
  BY <1>1, <1>2, Looked
<1>5. /\ accountVars' = accountVars /\ inv' = inv /\ mailed' = mailed
      /\ \E p \in {"failed", "account"} : /\ pc' = [pc EXCEPT ![c] = p]
                                          /\ p = "failed" \/ inv[i].status = "pending"
  BY <1>1 DEF ReadByToken, After, Goto, _require_acceptable
<1>6. PICK p \in {"failed", "account"} : /\ pc' = [pc EXCEPT ![c] = p]
                                         /\ p = "failed" \/ inv[i].status = "pending"
  BY <1>5
<1>7. p \in Pcs \ {"idle"}
  BY DEF Pcs
<1>8. pc'[c] = p
  BY <1>2, <1>6, <1>7, Moved
<1>9. CASE p = "failed"
  BY <1>2, <1>3, <1>4, <1>5, <1>6, <1>7, <1>8, <1>9, OverRelies, QuietStep DEF CallTypes
<1>10. CASE p = "account"
  <2>1. inv[i].version > 0
    BY <1>1, <1>2, NoRow, TenancyAssumption DEF TenancyInv, RowSound
  <2>2. Saw(c)' /\ seen'[c] > 0
    BY <1>2, <1>3, <1>4, <1>5, <1>6, <1>10, <2>1 DEF Saw
  <2>3. Relies(c)'
    BY <1>2, <1>3, <1>5, <1>8, <1>10, <2>2 DEF Relies
  <2> QED BY <1>2, <1>3, <1>4, <1>5, <1>6, <1>7, <2>3, QuietStep DEF CallTypes
<1> QED BY <1>9, <1>10

LEMMA ReadUserStep ==
    ASSUME TenancyInv, NEW c \in Calls, ReadUser(c)
    PROVE  TenancyInv'
<1>1. PICK k \in Companies, u \in Users, kind \in {"activate", "deactivate", "erase"} :
        /\ HasProfile(u) /\ Begin(c, kind, u, None)
        /\ seen' = [seen EXCEPT ![c] = profiles[u].version]
        /\ \E r \in Replies :
            /\ Answers(r)
            /\ After(c, r, IF profiles[u].company # k THEN "failed"
                           ELSE IF kind # "erase" THEN "profile"
                           ELSE IF profiles[u].deleted THEN "done" ELSE "ban")
  BY DEF ReadUser
<1>2. /\ CallTypes /\ u \in Things /\ None \in Things /\ kind \in Kinds
      /\ profiles[u].version \in Nat
  BY ThingsAre DEF TenancyInv, Kinds, AccountTypes, ProfileRecord
<1>3. /\ pc[c] = "idle" /\ op' \in [Calls -> Operation] /\ op'[c].on = u
      /\ \A d \in Calls : d # c => op'[d] = op[d]
  BY <1>1, <1>2, Begun
<1>4. /\ seen' \in [Calls -> Nat] /\ \A d \in Calls : d # c => seen'[d] = seen[d]
  BY <1>1, <1>2, Looked
<1>5. /\ accountVars' = accountVars /\ profiles' = profiles /\ inv' = inv /\ mailed' = mailed
      /\ \E p \in {"failed", "done", "profile", "ban"} :
            pc' = [pc EXCEPT ![c] = p]
  BY <1>1 DEF ReadUser, After, Goto, accountVars
<1>6. PICK p \in {"failed", "done", "profile", "ban"} : pc' = [pc EXCEPT ![c] = p]
  BY <1>5
<1>7. p \in Pcs \ {"idle"}
  BY DEF Pcs
<1>8. pc'[c] = p
  BY <1>2, <1>6, <1>7, Moved
<1>9. CASE p \in {"failed", "done"}
  BY <1>2, <1>3, <1>4, <1>5, <1>6, <1>7, <1>8, <1>9, OverRelies, QuietStep DEF CallTypes
<1>10. CASE p \in {"profile", "ban"}
  <2>1. HasProfile(u)'
    BY <1>1, <1>5 DEF HasProfile
  <2>2. Relies(c)'
    BY <1>3, <1>8, <1>10, <2>1 DEF Relies
  <2> QED BY <1>2, <1>3, <1>4, <1>5, <1>6, <1>7, <2>2, QuietStep DEF CallTypes
<1> QED BY <1>9, <1>10

LEMMA ChooseCompanyStep ==
    ASSUME TenancyInv, NEW c \in Calls, ChooseCompany(c)
    PROVE  TenancyInv'
<1>1. PICK own \in Companies, k \in Companies,
           kind \in {"suspend", "reactivate", "delete", "restore"} :
        /\ Begin(c, kind, k, None)
        /\ seen' = [seen EXCEPT ![c] = companies[k].version]
        /\ Goto(c, IF _guard_against_self_lockout(own, k, kind) THEN "company" ELSE "failed")
  BY DEF ChooseCompany
<1>2. /\ CallTypes /\ k \in Things /\ None \in Things /\ kind \in Kinds
      /\ companies[k].version \in Nat
  BY ThingsAre DEF TenancyInv, Kinds, AccountTypes, CompanyRecord
<1>3. /\ pc[c] = "idle" /\ op' \in [Calls -> Operation] /\ op'[c].on = k /\ op'[c].kind = kind
      /\ \A d \in Calls : d # c => op'[d] = op[d]
  BY <1>1, <1>2, Begun
<1>4. /\ seen' \in [Calls -> Nat] /\ \A d \in Calls : d # c => seen'[d] = seen[d]
  BY <1>1, <1>2, Looked
<1>5. /\ accountVars' = accountVars /\ inv' = inv /\ mailed' = mailed
      /\ \E p \in {"failed", "company"} :
            pc' = [pc EXCEPT ![c] = p]
  BY <1>1 DEF ChooseCompany, Goto
<1>6. PICK p \in {"failed", "company"} : pc' = [pc EXCEPT ![c] = p]
  BY <1>5
<1>7. p \in Pcs \ {"idle"}
  BY DEF Pcs
<1>8. pc'[c] = p
  BY <1>2, <1>6, <1>7, Moved
<1>9. Relies(c)'
  BY <1>3, <1>6, <1>8 DEF Relies
<1> QED BY <1>2, <1>3, <1>4, <1>5, <1>6, <1>7, <1>9, QuietStep DEF CallTypes

LEMMA RecordAuditStep ==
    ASSUME TenancyInv, NEW c \in Calls, RecordAudit(c) \/ SendInvitation(c)
    PROVE  TenancyInv'
<1>1. /\ pc[c] \in {"audit", "mail"} /\ accountVars' = accountVars /\ inv' = inv
      /\ op' = op /\ seen' = seen /\ mailed' \subseteq mailed \cup {c}
      /\ \E p \in {"mail", "done", "failed"} : pc' = [pc EXCEPT ![c] = p]
  BY DEF RecordAudit, SendInvitation, After, Goto
<1>2. PICK p \in {"mail", "done", "failed"} : pc' = [pc EXCEPT ![c] = p]
  BY <1>1
<1>3. p \in Pcs \ {"idle"} /\ p # "insert" /\ CallTypes
  BY DEF Pcs, TenancyInv
<1>4. mailed' \subseteq Invitations
  BY <1>1, <1>3, Invited DEF CallTypes
<1>5. Relies(c)'
  BY <1>2, <1>3, Moved, OverRelies
<1> QED BY <1>1, <1>2, <1>3, <1>4, <1>5, QuietStep DEF CallTypes

LEMMA ConfirmProfileStep ==
    ASSUME TenancyInv, NEW c \in Calls, ConfirmProfile(c)
    PROVE  TenancyInv'
<1>1. /\ pc[c] = "wait" /\ accountVars' = accountVars /\ inv' = inv
      /\ op' = op /\ seen' = seen /\ mailed' = mailed
      /\ \E p \in {"link", "failed"} : /\ pc' = [pc EXCEPT ![c] = p]
                                       /\ p = "link" => HasProfile(op[c].on)
  BY DEF ConfirmProfile, After, Goto, _wait_for_profile
<1>2. PICK p \in {"link", "failed"} : /\ pc' = [pc EXCEPT ![c] = p]
                                      /\ p = "link" => HasProfile(op[c].on)
  BY <1>1
<1>3. p \in Pcs \ {"idle"} /\ p # "insert" /\ CallTypes /\ Relies(c)
  BY DEF Pcs, TenancyInv
<1>4. pc'[c] = p
  BY <1>2, <1>3, Moved
<1>5. Saw(c)' /\ seen'[c] > 0
  BY <1>1, <1>3 DEF Relies, Saw
<1>6. /\ op[c].kind = "accept" /\ op[c].arg \in Invitations
      /\ seen[c] = inv[op[c].on].version => inv[op[c].on].token = op[c].arg
  BY <1>1, <1>3 DEF Relies
<1>7. p = "link" => HasProfile(op[c].on)'
  BY <1>1, <1>2 DEF HasProfile, accountVars
<1>8. Relies(c)'
  BY <1>1, <1>4, <1>5, <1>6, <1>7 DEF Relies
<1> QED BY <1>1, <1>2, <1>3, <1>8, QuietStep DEF CallTypes

-----------------------------------------------------------------------------
(* Calls that write an invitation                                          *)

LEMMA WriteRow ==
    ASSUME TenancyInv, NEW d \in Calls, NEW i \in Invitations, NEW new \in InvitationRecord,
           accountVars' = accountVars, mailed' = mailed, op' = op,
           inv' = [inv EXCEPT ![i] = new], Grown(inv[i], new), new.version > 0,
           i = d \/ inv[i].version > 0,
           new.status = "accepted" =>
               new.profile = i /\ HasProfile(i) /\ new.usedToken = new.token,
           NEW p \in {"audit", "failed"}, pc' = [pc EXCEPT ![d] = p],
           seen' \in [Calls -> Nat], \A c \in Calls : c # d => seen'[c] = seen[c],
           pc[d] # "insert" => seen'[d] = seen[d]
    PROVE  TenancyInv'
<1>1. /\ profiles' = profiles /\ auth' = auth /\ companies' = companies /\ cache' = cache
      /\ reading' = reading /\ outFor' = outFor
  BY DEF accountVars
<1>2. CallTypes /\ AccountTypes /\ VerifierInv /\ p \in Pcs /\ i \in Users
  BY UsersAreInvitations DEF TenancyInv, Pcs
<1>3. /\ pc' \in [Calls -> Pcs] /\ pc'[d] = p
      /\ \A c \in Calls : c # d => pc'[c] = pc[c]
  BY <1>2, Moved
<1>4. /\ inv' \in [Invitations -> InvitationRecord] /\ inv'[i] = new
      /\ \A j \in Invitations : j # i => inv'[j] = inv[j]
  BY <1>2 DEF CallTypes
<1>5. AccountTypes' /\ CallTypes' /\ VerifierInv'
  BY <1>1, <1>2, <1>3, <1>4, VerifierAside DEF AccountTypes, CallTypes
<1>6. \A j \in Invitations :
        Grown(inv[j], inv'[j]) /\ (j # d /\ inv[j].version = 0 => inv'[j].version = 0)
  <2>1. SUFFICES ASSUME NEW j \in Invitations
                 PROVE  Grown(inv[j], inv'[j]) /\ (j # d /\ inv[j].version = 0 => inv'[j].version = 0)
    OBVIOUS
  <2>2. CASE j = i
    BY <1>4, <2>2
  <2>3. CASE j # i
    <3>1. inv[j] \in InvitationRecord
      BY <1>2 DEF CallTypes
    <3> QED BY <1>4, <2>3, <3>1, SameIsGrown
  <2> QED BY <2>2, <2>3
<1>7. Onward(d)
  BY <1>1, <1>3, <1>6 DEF Onward
<1>8. \A u \in Users : ProfileSound(u)'
  BY <1>1, <1>5, <1>7, ProfileAside
<1>9. \A j \in Invitations : RowSound(j)'
  <2>1. SUFFICES ASSUME NEW j \in Invitations PROVE RowSound(j)'
    OBVIOUS
  <2>2. HasProfile(j)' <=> HasProfile(j)
    BY <1>1 DEF HasProfile
  <2>3. CASE j = i
    BY <1>4, <2>2, <2>3 DEF RowSound
  <2>4. CASE j # i
    <3>1. RowSound(j)
      BY DEF TenancyInv
    <3> QED BY <1>4, <2>2, <2>4, <3>1 DEF RowSound
  <2> QED BY <2>3, <2>4
<1>10. Relies(d)'
  BY <1>3, OverRelies
<1> QED BY <1>5, <1>7, <1>8, <1>9, <1>10, StepKeeps

\* A statement that was not executed, or matched nothing.
LEMMA WriteNone ==
    ASSUME TenancyInv, NEW d \in Calls, accountVars' = accountVars, mailed' = mailed, op' = op,
           inv' = inv, NEW p \in {"audit", "failed"}, pc' = [pc EXCEPT ![d] = p],
           seen' \in [Calls -> Nat], \A c \in Calls : c # d => seen'[c] = seen[c],
           pc[d] \notin {"idle", "insert"} => seen'[d] = seen[d]
    PROVE  TenancyInv'
<1>1. CallTypes /\ p \in Pcs \ {"idle"} /\ p # "insert"
  BY DEF TenancyInv, Pcs
<1>2. Relies(d)'
  BY <1>1, Moved, OverRelies
<1>3. mailed' \subseteq Invitations /\ op' \in [Calls -> Operation]
  BY <1>1 DEF CallTypes
<1> QED BY <1>1, <1>2, <1>3, QuietStep

LEMMA InsertInvitationStep ==
    ASSUME TenancyInv, NEW c \in Calls, InsertInvitation(c)
    PROVE  TenancyInv'
<1>1. /\ pc[c] = "insert" /\ accountVars' = accountVars /\ mailed' = mailed /\ op' = op
      /\ seen' = [seen EXCEPT ![c] = 1]
      /\ inv' = inv \/ inv' = [inv EXCEPT ![c] = NewInvitation(op[c].arg, c)]
      /\ \E p \in {"audit", "failed"} : pc' = [pc EXCEPT ![c] = p]
  BY DEF InsertInvitation, After, Goto
<1>2. PICK p \in {"audit", "failed"} : pc' = [pc EXCEPT ![c] = p]
  BY <1>1
<1>3. CallTypes /\ Relies(c) /\ c \in Invitations
  BY Invited DEF TenancyInv
<1>4. op[c].arg \in Companies /\ inv[c].version = 0
  BY <1>1, <1>3 DEF Relies
<1>5. seen' \in [Calls -> Nat] /\ \A d \in Calls : d # c => seen'[d] = seen[d]
  BY <1>1, <1>3, Looked
<1>6. CASE inv' = inv
  BY <1>1, <1>2, <1>5, <1>6, WriteNone
<1>7. CASE inv' = [inv EXCEPT ![c] = NewInvitation(op[c].arg, c)]
  <2> DEFINE new == NewInvitation(op[c].arg, c)
  <2>1. new \in InvitationRecord /\ new.status = "pending" /\ new.version = 1
    BY <1>3, <1>4, NewRow
  <2>2. Grown(inv[c], new) /\ new.version > 0 /\ new.status # "accepted"
    BY <1>4, <2>1 DEF Grown
  <2>3. inv' = [inv EXCEPT ![c] = new]
    BY <1>7
  <2> HIDE DEF new
  <2> QED BY <1>1, <1>2, <1>3, <1>5, <2>1, <2>2, <2>3, WriteRow
<1> QED BY <1>1, <1>6, <1>7

LEMMA ChangeInvitationStep ==
    ASSUME TenancyInv, NEW c \in Calls, ChangeInvitation(c)
    PROVE  TenancyInv'
<1> DEFINE i == op[c].on
           new == IF op[c].kind = "resend" THEN Resent(inv[i], c) ELSE Revoked(inv[i])
<1>1. PICK r \in Replies :
        /\ Reply(r, VersionMatches(c, i))
        /\ inv' = IF Applied(r)
                  THEN [inv EXCEPT ![i] = IF op[c].kind = "resend" THEN Resent(@, c) ELSE Revoked(@)]
                  ELSE inv
        /\ After(c, r, "audit")
  BY DEF ChangeInvitation
<1>2. /\ pc[c] \in {"resend", "revoke"} /\ accountVars' = accountVars /\ mailed' = mailed
      /\ op' = op /\ seen' = seen
      /\ \E p \in {"audit", "failed"} : pc' = [pc EXCEPT ![c] = p]
  BY <1>1 DEF ChangeInvitation, After, Goto
<1>3. PICK p \in {"audit", "failed"} : pc' = [pc EXCEPT ![c] = p]
  BY <1>2
<1>4. CallTypes /\ Relies(c) /\ c \in Invitations /\ seen' \in [Calls -> Nat]
  BY <1>2, Invited DEF TenancyInv, CallTypes
<1>5. i \in Invitations /\ seen[c] > 0 /\ (seen[c] = inv[i].version => inv[i].status = "pending")
  BY <1>2, <1>4 DEF Relies, Saw
<1>6. CASE ~Applied(r)
  BY <1>1, <1>2, <1>3, <1>4, <1>6, WriteNone
<1>7. CASE Applied(r)
  <2>1. inv[i].version = seen[c]
    BY <1>1, <1>7, ReplyMatches DEF VersionMatches
  <2>2. inv[i] \in InvitationRecord /\ inv[i].version \in Nat
    BY <1>4, <1>5 DEF CallTypes, InvitationRecord
  <2>3. /\ new \in InvitationRecord /\ new.version = inv[i].version + 1
        /\ new.company = inv[i].company /\ new.status \in {"pending", "revoked"}
    BY <1>4, <1>5, <2>1, <2>2, ResentRow, RevokedRow
  <2>4. inv' = [inv EXCEPT ![i] = new]
    BY <1>1, <1>5, <1>7
  <2>5. Grown(inv[i], new) /\ new.version > 0 /\ new.status # "accepted" /\ inv[i].version > 0
    BY <1>5, <2>1, <2>2, <2>3, LaterIsGrown
  <2> HIDE DEF i, new
  <2> QED BY <1>2, <1>3, <1>4, <1>5, <2>3, <2>4, <2>5, WriteRow
<1> QED BY <1>6, <1>7

LEMMA MarkAcceptedStep ==
    ASSUME TenancyInv, NEW c \in Calls, MarkAccepted(c)
    PROVE  TenancyInv'
<1> DEFINE i == op[c].on
           new == Accepted(inv[i], i, op[c].arg)
<1>1. PICK r \in Replies :
        /\ Reply(r, VersionMatches(c, i))
        /\ inv' = IF Applied(r) THEN [inv EXCEPT ![i] = new] ELSE inv
        /\ After(c, r, "audit")
  BY DEF MarkAccepted
<1>2. /\ pc[c] = "link" /\ accountVars' = accountVars /\ mailed' = mailed
      /\ op' = op /\ seen' = seen
      /\ \E p \in {"audit", "failed"} : pc' = [pc EXCEPT ![c] = p]
  BY <1>1 DEF MarkAccepted, After, Goto
<1>3. PICK p \in {"audit", "failed"} : pc' = [pc EXCEPT ![c] = p]
  BY <1>2
<1>4. CallTypes /\ Relies(c) /\ seen' \in [Calls -> Nat]
  BY <1>2 DEF TenancyInv, CallTypes
<1>5. /\ i \in Invitations /\ i \in Users /\ seen[c] > 0 /\ HasProfile(i)
      /\ op[c].arg \in Invitations
      /\ seen[c] = inv[i].version => inv[i].token = op[c].arg
  BY <1>2, <1>4, UsersAreInvitations DEF Relies, Saw
<1>6. CASE ~Applied(r)
  BY <1>1, <1>2, <1>3, <1>4, <1>6, WriteNone
<1>7. CASE Applied(r)
  <2>1. inv[i].version = seen[c]
    BY <1>1, <1>7, ReplyMatches DEF VersionMatches
  <2>2. inv[i] \in InvitationRecord /\ inv[i].version \in Nat
    BY <1>4, <1>5 DEF CallTypes, InvitationRecord
  <2>3. /\ new \in InvitationRecord /\ new.version = inv[i].version + 1
        /\ new.company = inv[i].company /\ new.profile = i
        /\ new.usedToken = op[c].arg /\ new.token = inv[i].token
    BY <1>5, <2>2, AcceptedRow
  <2>4. inv' = [inv EXCEPT ![i] = new]
    BY <1>1, <1>7
  <2>5. Grown(inv[i], new) /\ new.version > 0 /\ inv[i].version > 0 /\ new.usedToken = new.token
    BY <1>5, <2>1, <2>2, <2>3, LaterIsGrown
  <2> HIDE DEF i, new
  <2> QED BY <1>2, <1>3, <1>4, <1>5, <2>3, <2>4, <2>5, WriteRow
<1> QED BY <1>6, <1>7

-----------------------------------------------------------------------------
(* Calls that write an account, a profile or a company                     *)

\* No invitation changes, call c moves to p, and the rest is what the others
\* and the verifier need.
LEMMA AccountStep ==
    ASSUME TenancyInv, NEW c \in Calls, NEW p \in Pcs \ {"idle", "insert"},
           pc' = [pc EXCEPT ![c] = p], inv' = inv, mailed' = mailed, op' = op, seen' = seen,
           \A u \in Users :
               /\ profiles[u].version > 0 =>
                      profiles'[u].version > 0 /\ profiles'[u].company = profiles[u].company
               /\ auth[u] = "banned" => auth'[u] = "banned"
    PROVE  /\ Onward(c) /\ CallTypes' /\ pc'[c] = p /\ (\A i \in Invitations : RowSound(i)')
           /\ AccountTypes' /\ Relies(c)' /\ (\A u \in Users : ProfileSound(u)') /\ VerifierInv' =>
                  TenancyInv'
<1>1. CallTypes
  BY DEF TenancyInv
<1>2. /\ pc' \in [Calls -> Pcs] /\ pc'[c] = p
      /\ \A d \in Calls : d # c => pc'[d] = pc[d]
  BY <1>1, Moved
<1>3. CallTypes'
  BY <1>1, <1>2 DEF CallTypes
<1>4. \A i \in Invitations : Grown(inv[i], inv'[i])
  BY <1>1, SameIsGrown DEF CallTypes
<1>5. Onward(c)
  BY <1>2, <1>4 DEF Onward
<1>6. \A i \in Invitations : RowSound(i)'
  BY <1>5, RowsAside
<1> QED BY <1>2, <1>3, <1>5, <1>6, StepKeeps

LEMMA CreateAccountStep ==
    ASSUME TenancyInv, NEW c \in Calls, CreateAccount(c)
    PROVE  TenancyInv'
<1> DEFINE i == op[c].on
           new == handle_new_user(inv[i].company)
<1>1. PICK r \in Replies :
        /\ Reply(r, ~AddressTaken(i))
        /\ Applied(r) => /\ auth' = [auth EXCEPT ![i] = "open"]
                         /\ profiles' = [profiles EXCEPT ![i] = new]
        /\ ~Applied(r) => auth' = auth /\ profiles' = profiles
        /\ Goto(c, IF r \in {"ok", "refused"} THEN "wait" ELSE "failed")
  BY DEF CreateAccount
<1>2. /\ pc[c] = "account" /\ companies' = companies /\ cache' = cache /\ reading' = reading
      /\ inv' = inv /\ mailed' = mailed /\ op' = op /\ seen' = seen /\ Tracked
      /\ \E p \in {"wait", "failed"} : pc' = [pc EXCEPT ![c] = p]
  BY <1>1 DEF CreateAccount, Goto
<1>3. PICK p \in {"wait", "failed"} : pc' = [pc EXCEPT ![c] = p]
  BY <1>2
<1>4. p \in Pcs \ {"idle", "insert"} /\ CallTypes /\ AccountTypes /\ Relies(c)
  BY DEF Pcs, TenancyInv
<1>5. /\ Saw(c) /\ seen[c] > 0 /\ op[c].kind = "accept" /\ op[c].arg \in Invitations
      /\ seen[c] = inv[i].version => inv[i].token = op[c].arg
      /\ i \in Invitations /\ i \in Users
  BY <1>2, <1>4, UsersAreInvitations DEF Relies, Saw
<1>6. inv[i] \in InvitationRecord /\ inv[i].version \in Nat /\ inv[i].version > 0 /\ seen[c] \in Nat
  BY <1>4, <1>5 DEF CallTypes, InvitationRecord, Saw
<1>7. Applied(r) => auth[i] = "none" /\ ~HasProfile(i)
  BY <1>1, <1>5, ReplyMatches DEF AddressTaken, TenancyInv, ProfileSound
<1>8. /\ new \in ProfileRecord /\ new.company = inv[i].company /\ new.active /\ ~new.deleted
      /\ new.version = 1
  BY <1>6, NewProfile DEF InvitationRecord
<1>9. /\ profiles' \in [Users -> ProfileRecord] /\ auth' \in [Users -> {"none", "open", "banned"}]
      /\ \A u \in Users : u # i => profiles'[u] = profiles[u] /\ auth'[u] = auth[u]
      /\ Applied(r) => profiles'[i] = new /\ auth'[i] = "open"
      /\ ~Applied(r) => profiles'[i] = profiles[i] /\ auth'[i] = auth[i]
  BY <1>1, <1>4, <1>5, <1>8 DEF AccountTypes
<1> HIDE DEF i, new
<1>10. \A u \in Users :
         /\ profiles[u].version > 0 =>
                profiles'[u].version > 0 /\ profiles'[u].company = profiles[u].company
         /\ auth[u] = "banned" => auth'[u] = "banned"
  BY <1>7, <1>9 DEF HasProfile
<1>11. /\ Onward(c) /\ CallTypes' /\ pc'[c] = p
       /\ AccountTypes' /\ Relies(c)' /\ (\A u \in Users : ProfileSound(u)') /\ VerifierInv' =>
              TenancyInv'
  BY <1>2, <1>3, <1>4, <1>10, AccountStep
<1>12. AccountTypes'
  <2>1. outFor' \in [Users -> Times]
    BY <1>2, <1>11, TrackedVerifier
  <2> QED BY <1>2, <1>4, <1>9, <2>1 DEF AccountTypes
<1>13. Saw(c)'
  BY <1>2, <1>5 DEF Saw
<1>14. Relies(c)'
  BY <1>2, <1>3, <1>5, <1>11, <1>13 DEF Relies, i
<1>15. ASSUME NEW u \in Users PROVE ProfileSound(u)'
  <2>1. CASE u = i /\ Applied(r)
    <3>1. HasProfile(u)' /\ profiles'[u] = new /\ auth'[u] = "open"
      BY <1>8, <1>9, <2>1 DEF HasProfile
    <3>2. op'[c].on = u /\ op'[c].kind = "accept" /\ pc'[c] \notin {"idle", "insert"}
      BY <1>2, <1>5, <1>11, <2>1 DEF i
    <3>3. Tries(c, u)'
      BY <1>13, <3>2 DEF Tries
    <3> QED BY <1>2, <1>6, <1>8, <2>1, <3>1, <3>3 DEF ProfileSound
  <2>2. CASE ~(u = i /\ Applied(r))
    BY <1>9, <1>11, <2>2, ProfileAside
  <2> QED BY <2>1, <2>2
<1>16. VerifierInv'
  BY <1>2, <1>11, TrackedVerifier
<1> QED BY <1>11, <1>12, <1>14, <1>15, <1>16

\* update_profile and the last statement of erase_user.
LEMMA WriteProfile ==
    ASSUME TenancyInv, NEW c \in Calls, NEW u \in Users, NEW new \in ProfileRecord,
           profiles' = [profiles EXCEPT ![u] = new], HasProfile(u),
           new.company = profiles[u].company, new.version > 0, new.deleted => auth[u] = "banned",
           auth' = auth, companies' = companies, cache' = cache, reading' = reading,
           inv' = inv, mailed' = mailed, op' = op, seen' = seen, Tracked,
           NEW p \in {"audit", "failed"}, pc' = [pc EXCEPT ![c] = p]
    PROVE  TenancyInv'
<1>1. p \in Pcs \ {"idle", "insert"} /\ AccountTypes
  BY DEF Pcs, TenancyInv
<1>2. /\ profiles' \in [Users -> ProfileRecord] /\ profiles'[u] = new
      /\ \A v \in Users : v # u => profiles'[v] = profiles[v]
  BY <1>1 DEF AccountTypes
<1>3. \A v \in Users :
        /\ profiles[v].version > 0 =>
               profiles'[v].version > 0 /\ profiles'[v].company = profiles[v].company
        /\ auth[v] = "banned" => auth'[v] = "banned"
  BY <1>2
<1>4. /\ Onward(c) /\ CallTypes' /\ pc'[c] = p
      /\ AccountTypes' /\ Relies(c)' /\ (\A v \in Users : ProfileSound(v)') /\ VerifierInv' =>
             TenancyInv'
  BY <1>1, <1>3, AccountStep
<1>5. AccountTypes'
  <2>1. outFor' \in [Users -> Times]
    BY <1>4, TrackedVerifier
  <2> QED BY <1>1, <1>2, <2>1 DEF AccountTypes
<1>6. Relies(c)'
  BY <1>4, OverRelies
<1>7. ASSUME NEW v \in Users PROVE ProfileSound(v)'
  <2>1. CASE v = u
    <3>1. ProfileSound(u) /\ CallTypes
      BY DEF TenancyInv
    <3>2. /\ auth[u] # "none" /\ inv[u].version > 0 /\ profiles[u].company = inv[u].company
          /\ \E d \in Calls : Tries(d, u)
      BY <3>1 DEF ProfileSound
    <3>3. \E d \in Calls : Tries(d, u)'
      BY <1>4, <3>1, <3>2, StillTries
    <3> QED BY <1>2, <2>1, <3>2, <3>3 DEF ProfileSound, HasProfile
  <2>2. CASE v # u
    BY <1>2, <1>4, <2>2, ProfileAside
  <2> QED BY <2>1, <2>2
<1>8. VerifierInv'
  BY <1>4, TrackedVerifier
<1> QED BY <1>4, <1>5, <1>6, <1>7, <1>8

LEMMA ProfileStep ==
    ASSUME TenancyInv, NEW c \in Calls, UpdateProfile(c) \/ EraseProfile(c)
    PROVE  TenancyInv'
<1> DEFINE u == op[c].on
<1>1. /\ pc[c] \in {"profile", "erase"}
      /\ auth' = auth /\ companies' = companies /\ cache' = cache /\ reading' = reading
      /\ inv' = inv /\ mailed' = mailed /\ op' = op /\ seen' = seen /\ Tracked
      /\ \E p \in {"audit", "failed"} : pc' = [pc EXCEPT ![c] = p]
  BY DEF UpdateProfile, EraseProfile, After, Goto
<1>2. PICK p \in {"audit", "failed"} : pc' = [pc EXCEPT ![c] = p]
  BY <1>1
<1>3. AccountTypes /\ Relies(c)
  BY DEF TenancyInv
<1>4. /\ u \in Users /\ HasProfile(u)
      /\ pc[c] = "erase" => auth[u] = "banned"
  BY <1>1, <1>3 DEF Relies
<1>5. ProfileSound(u) /\ profiles[u] \in ProfileRecord /\ profiles[u].version \in Nat
  BY <1>3, <1>4 DEF TenancyInv, AccountTypes, ProfileRecord
<1>6. \/ profiles' = profiles
      \/ profiles' = [profiles EXCEPT ![u] = UpdatedProfile(profiles[u], op[c].kind = "activate")]
      \/ pc[c] = "erase" /\ profiles' = [profiles EXCEPT ![u] = ErasedProfile(profiles[u])]
  BY DEF UpdateProfile, EraseProfile
<1>7. PICK new \in ProfileRecord :
        /\ profiles' = [profiles EXCEPT ![u] = new]
        /\ new.company = profiles[u].company /\ new.version > 0
        /\ new.deleted => auth[u] = "banned"
  <2>1. CASE profiles' = profiles
    <3>1. profiles' = [profiles EXCEPT ![u] = profiles[u]]
      BY <1>3, <1>4, <2>1 DEF AccountTypes
    <3> QED BY <1>4, <1>5, <3>1 DEF HasProfile, ProfileSound
  <2>2. CASE profiles' = [profiles EXCEPT ![u] = UpdatedProfile(profiles[u], op[c].kind = "activate")]
    <3> DEFINE new == UpdatedProfile(profiles[u], op[c].kind = "activate")
    <3>1. /\ new \in ProfileRecord /\ new.company = profiles[u].company
          /\ new.deleted = profiles[u].deleted /\ new.version = profiles[u].version + 1
      BY <1>5, UpdatedRow
    <3>2. profiles' = [profiles EXCEPT ![u] = new]
      BY <2>2
    <3> HIDE DEF new
    <3>3. new.company = profiles[u].company /\ new.version > 0 /\ (new.deleted => auth[u] = "banned")
      BY <1>4, <1>5, <3>1 DEF ProfileSound, HasProfile
    <3> QED BY <3>1, <3>2, <3>3
  <2>3. CASE pc[c] = "erase" /\ profiles' = [profiles EXCEPT ![u] = ErasedProfile(profiles[u])]
    <3>1. /\ ErasedProfile(profiles[u]) \in ProfileRecord
          /\ ErasedProfile(profiles[u]).company = profiles[u].company
          /\ ErasedProfile(profiles[u]).version > 0
      BY <1>4, <1>5, ErasedRow
    <3> QED BY <1>4, <2>3, <3>1
  <2> QED BY <1>6, <2>1, <2>2, <2>3
<1> HIDE DEF u
<1> QED BY <1>1, <1>2, <1>4, <1>7, WriteProfile

LEMMA BanAccountStep ==
    ASSUME TenancyInv, NEW c \in Calls, BanAccount(c)
    PROVE  TenancyInv'
<1> DEFINE u == op[c].on
<1>1. PICK r \in Replies :
        /\ Reply(r, TRUE)
        /\ auth' = IF Applied(r) THEN [auth EXCEPT ![u] = "banned"] ELSE auth
        /\ After(c, r, "erase")
  BY DEF BanAccount
<1>2. /\ pc[c] = "ban" /\ profiles' = profiles /\ companies' = companies /\ cache' = cache
      /\ reading' = reading /\ outFor' = outFor
      /\ inv' = inv /\ mailed' = mailed /\ op' = op /\ seen' = seen
  BY DEF BanAccount
<1>3. \E p \in {"erase", "failed"} : pc' = [pc EXCEPT ![c] = p] /\ (p = "erase" => Applied(r))
  BY <1>1, ReplyMatches DEF After, Goto
<1>4. PICK p \in {"erase", "failed"} : pc' = [pc EXCEPT ![c] = p] /\ (p = "erase" => Applied(r))
  BY <1>3
<1>5. p \in Pcs \ {"idle", "insert"} /\ AccountTypes /\ Relies(c) /\ VerifierInv
  BY DEF Pcs, TenancyInv
<1>6. u \in Users /\ HasProfile(u)
  BY <1>2, <1>5 DEF Relies
<1>7. /\ auth' \in [Users -> {"none", "open", "banned"}]
      /\ \A v \in Users : auth'[v] \in {auth[v], "banned"}
      /\ Applied(r) => auth'[u] = "banned"
  BY <1>1, <1>5, <1>6 DEF AccountTypes
<1>8. /\ Onward(c) /\ CallTypes' /\ pc'[c] = p
      /\ AccountTypes' /\ Relies(c)' /\ (\A v \in Users : ProfileSound(v)') /\ VerifierInv' =>
             TenancyInv'
  <2>1. \A v \in Users :
          /\ profiles[v].version > 0 =>
                 profiles'[v].version > 0 /\ profiles'[v].company = profiles[v].company
          /\ auth[v] = "banned" => auth'[v] = "banned"
    BY <1>2, <1>7
  <2> QED BY <1>2, <1>4, <1>5, <2>1, AccountStep
<1>9. AccountTypes' /\ VerifierInv'
  BY <1>2, <1>5, <1>7, VerifierAside DEF AccountTypes
<1>10. \A v \in Users : ProfileSound(v)'
  BY <1>2, <1>7, <1>8, ProfileAside
<1>11. HasProfile(u)'
  BY <1>2, <1>6 DEF HasProfile
<1>12. Relies(c)'
  BY <1>2, <1>4, <1>6, <1>7, <1>8, <1>11 DEF Relies
<1> QED BY <1>8, <1>9, <1>10, <1>12

LEMMA ChangeCompanyStep ==
    ASSUME TenancyInv, NEW c \in Calls, ChangeCompany(c)
    PROVE  TenancyInv'
<1> DEFINE k == op[c].on
           new == ChangedCompany(companies[k], op[c].kind)
<1>1. /\ pc[c] = "company" /\ profiles' = profiles /\ auth' = auth /\ cache' = cache
      /\ reading' = reading /\ inv' = inv /\ mailed' = mailed /\ op' = op /\ seen' = seen
      /\ Tracked
      /\ companies' = companies \/ companies' = [companies EXCEPT ![k] = new]
      /\ \E p \in {"audit", "failed"} : pc' = [pc EXCEPT ![c] = p]
  BY DEF ChangeCompany, After, Goto
<1>2. PICK p \in {"audit", "failed"} : pc' = [pc EXCEPT ![c] = p]
  BY <1>1
<1>3. p \in Pcs \ {"idle", "insert"} /\ AccountTypes /\ Relies(c)
  BY DEF Pcs, TenancyInv
<1>4. k \in Companies
  BY <1>1, <1>3 DEF Relies
<1>5. new \in CompanyRecord
  BY <1>3, <1>4, ChangedCompanyRow DEF AccountTypes
<1> HIDE DEF new, k
<1>6. companies' \in [Companies -> CompanyRecord]
  BY <1>1, <1>3, <1>4, <1>5 DEF AccountTypes
<1>7. /\ Onward(c) /\ CallTypes' /\ pc'[c] = p
      /\ AccountTypes' /\ Relies(c)' /\ (\A v \in Users : ProfileSound(v)') /\ VerifierInv' =>
             TenancyInv'
  <2>1. \A v \in Users :
          /\ profiles[v].version > 0 =>
                 profiles'[v].version > 0 /\ profiles'[v].company = profiles[v].company
          /\ auth[v] = "banned" => auth'[v] = "banned"
    BY <1>1
  <2> QED BY <1>1, <1>2, <1>3, <2>1, AccountStep
<1>8. AccountTypes'
  <2>1. outFor' \in [Users -> Times]
    BY <1>1, <1>7, TrackedVerifier
  <2> QED BY <1>1, <1>3, <1>6, <2>1 DEF AccountTypes
<1>9. \A v \in Users : ProfileSound(v)'
  BY <1>1, <1>7, ProfileAside
<1>10. Relies(c)'
  BY <1>7, OverRelies
<1>11. VerifierInv'
  BY <1>1, <1>7, TrackedVerifier
<1> QED BY <1>7, <1>8, <1>9, <1>10, <1>11

-----------------------------------------------------------------------------
(* Steps of no call                                                        *)

LEMMA ExpireStep ==
    ASSUME TenancyInv, NEW i \in Invitations, Expire(i)
    PROVE  TenancyInv'
<1> DEFINE new == [inv[i] EXCEPT !.expired = TRUE]
<1>1. /\ inv[i].status = "pending" /\ inv' = [inv EXCEPT ![i] = new]
      /\ profiles' = profiles /\ auth' = auth /\ companies' = companies /\ cache' = cache
      /\ reading' = reading /\ outFor' = outFor
      /\ mailed' = mailed /\ pc' = pc /\ op' = op /\ seen' = seen
  BY DEF Expire, accountVars
<1>2. CallTypes /\ AccountTypes /\ VerifierInv /\ RowSound(i)
  BY DEF TenancyInv
<1>3. inv[i] \in InvitationRecord /\ inv[i].version # 0
  BY <1>1, <1>2, NoRow DEF CallTypes, RowSound
<1>4. /\ new \in InvitationRecord /\ new.status = "pending" /\ new.version = inv[i].version
      /\ new.company = inv[i].company /\ new.token = inv[i].token
  BY <1>1, <1>3, ExpiredRow
<1>5. Grown(inv[i], new)
  BY <1>1, <1>3, <1>4 DEF Grown, InvitationRecord
<1> HIDE DEF new
<1>6. /\ inv' \in [Invitations -> InvitationRecord] /\ inv'[i] = new
      /\ \A j \in Invitations : j # i => inv'[j] = inv[j]
  BY <1>1, <1>2, <1>4 DEF CallTypes
<1>7. AccountTypes' /\ CallTypes' /\ VerifierInv'
  BY <1>1, <1>2, <1>6, VerifierAside DEF AccountTypes, CallTypes
<1>8. \A j \in Invitations :
        Grown(inv[j], inv'[j]) /\ (j # None /\ inv[j].version = 0 => inv'[j].version = 0)
  <2>1. \A j \in Invitations : inv[j] \in InvitationRecord
    BY <1>2 DEF CallTypes
  <2> QED BY <1>3, <1>4, <1>5, <1>6, <2>1, SameIsGrown
<1>9. Onward(None) /\ None \notin Calls
  BY <1>1, <1>8, UsersAreInvitations DEF Onward
<1>10. \A u \in Users : ProfileSound(u)'
  BY <1>1, <1>7, <1>9, ProfileAside
<1>11. \A j \in Invitations : RowSound(j)'
  <2>1. SUFFICES ASSUME NEW j \in Invitations PROVE RowSound(j)'
    OBVIOUS
  <2>2. RowSound(j) /\ (HasProfile(j)' <=> HasProfile(j))
    BY <1>1 DEF TenancyInv, HasProfile
  <2>3. CASE j = i
    BY <1>3, <1>4, <1>6, <2>3 DEF RowSound
  <2>4. CASE j # i
    BY <1>6, <2>2, <2>4 DEF RowSound
  <2> QED BY <2>3, <2>4
<1> QED BY <1>7, <1>9, <1>10, <1>11, StepKeeps

\* The verifier and time write nothing the calls rely on.
LEMMA WatchStep ==
    ASSUME TenancyInv, inv' = inv, mailed' = mailed, pc' = pc, op' = op, seen' = seen,
           profiles' = profiles, auth' = auth, companies' = companies,
           cache' \in [Users -> Nat], reading' \in [Users -> Companies \cup {None}],
           outFor' \in [Users -> Times], \A u \in Users : Verified(u)'
    PROVE  TenancyInv'
<1>1. CallTypes /\ AccountTypes
  BY DEF TenancyInv
<1>2. AccountTypes' /\ CallTypes' /\ VerifierInv'
  BY <1>1 DEF AccountTypes, CallTypes, VerifierInv
<1>3. \A i \in Invitations : Grown(inv[i], inv'[i])
  BY <1>1, SameIsGrown DEF CallTypes
<1>4. Onward(None) /\ None \notin Calls
  BY <1>3, UsersAreInvitations DEF Onward
<1>5. (\A i \in Invitations : RowSound(i)') /\ (\A u \in Users : ProfileSound(u)')
  BY <1>2, <1>4, RowsAside, ProfileAside
<1> QED BY <1>2, <1>4, <1>5, StepKeeps

LEMMA ReadProfileStep ==
    ASSUME TenancyInv, NEW u \in Users, ReadProfile(u), UNCHANGED <<inv, mailed, pc, op, seen>>
    PROVE  TenancyInv'
<1>1. /\ HasProfile(u) /\ ProfileAdmits(profiles[u])
      /\ reading' = [reading EXCEPT ![u] = profiles[u].company]
      /\ profiles' = profiles /\ auth' = auth /\ companies' = companies /\ cache' = cache
      /\ outFor' = outFor
  BY DEF ReadProfile
<1>2. AccountTypes /\ VerifierInv
  BY DEF TenancyInv
<1>3. /\ reading' \in [Users -> Companies \cup {None}] /\ reading'[u] = profiles[u].company
      /\ \A v \in Users : v # u => reading'[v] = reading[v]
  BY <1>1, <1>2 DEF AccountTypes, ProfileRecord
<1>4. outFor[u].profile = 0
  BY <1>1, <1>2 DEF ProfileAdmits, VerifierInv, Verified, ProfileIn
<1>5. ASSUME NEW v \in Users PROVE Verified(v)'
  <2>1. /\ Verified(v) /\ (HasProfile(v)' <=> HasProfile(v))
        /\ (ProfileIn(v)' <=> ProfileIn(v)) /\ (CompanyIn(v)' <=> CompanyIn(v))
    BY <1>1, <1>2 DEF VerifierInv, ProfileIn, CompanyIn, HasProfile
  <2>2. CASE v = u
    BY <1>1, <1>3, <1>4, <2>1, <2>2 DEF Verified
  <2>3. CASE v # u
    BY <1>1, <1>3, <2>1, <2>3 DEF Verified
  <2> QED BY <2>2, <2>3
<1>6. cache' \in [Users -> Nat] /\ outFor' \in [Users -> Times]
  BY <1>1, <1>2 DEF AccountTypes
<1> QED BY <1>1, <1>3, <1>5, <1>6, WatchStep

LEMMA ReadCompanyStep ==
    ASSUME TenancyInv, NEW u \in Users, ReadCompany(u), UNCHANGED <<inv, mailed, pc, op, seen>>
    PROVE  TenancyInv'
<1>1. /\ reading[u] # None /\ reading' = [reading EXCEPT ![u] = None]
      /\ profiles' = profiles /\ auth' = auth /\ companies' = companies /\ outFor' = outFor
  BY DEF ReadCompany
<1>2. cache' = [cache EXCEPT ![u] = IF CompanyAdmits(companies[reading[u]]) THEN Ttl ELSE 0]
  BY DEF ReadCompany
<1>3. AccountTypes /\ VerifierInv /\ Ttl \in Nat
  BY AccountAssumption DEF TenancyInv
<1>4. PICK n \in {0, Ttl} : /\ cache' = [cache EXCEPT ![u] = n]
                            /\ n = 0 \/ CompanyAdmits(companies[reading[u]])
  BY <1>2
<1>5. /\ outFor[u].profile \in Nat /\ outFor[u].company \in Nat
      /\ n = 0 \/ (outFor[u].profile = 0 /\ outFor[u].company = 0)
  BY <1>1, <1>3, <1>4 DEF VerifierInv, Verified, AccountTypes, Times, CompanyIn, CompanyAdmits
<1>6. /\ cache' \in [Users -> Nat] /\ reading' \in [Users -> Companies \cup {None}]
      /\ cache'[u] = n /\ reading'[u] = None
      /\ \A v \in Users : v # u => cache'[v] = cache[v] /\ reading'[v] = reading[v]
  BY <1>1, <1>3, <1>4 DEF AccountTypes
<1>7. ASSUME NEW v \in Users PROVE Verified(v)'
  <2>1. /\ Verified(v) /\ (HasProfile(v)' <=> HasProfile(v))
        /\ (ProfileIn(v)' <=> ProfileIn(v)) /\ (CompanyIn(v)' <=> CompanyIn(v))
    BY <1>1, <1>3 DEF VerifierInv, ProfileIn, CompanyIn, HasProfile
  <2>2. CASE v = u
    <3>1. cache'[v] > 0 =>
            outFor[v].profile + cache'[v] <= Ttl /\ outFor[v].company + cache'[v] <= Ttl
      BY <1>3, <1>5, <1>6, <2>2
    <3> QED BY <1>1, <1>6, <2>1, <2>2, <3>1 DEF Verified
  <2>3. CASE v # u
    BY <1>1, <1>6, <2>1, <2>3 DEF Verified
  <2> QED BY <2>2, <2>3
<1>8. outFor' \in [Users -> Times]
  BY <1>1, <1>3 DEF AccountTypes
<1> QED BY <1>1, <1>6, <1>7, <1>8, WatchStep

LEMMA PassStep ==
    ASSUME TenancyInv, Pass, UNCHANGED <<inv, mailed, pc, op, seen>>
    PROVE  TenancyInv'
<1>1. /\ \A u \in Users : reading[u] = None
      /\ cache' = [u \in Users |-> EntryAged(cache[u])]
      /\ outFor' = [u \in Users |-> [profile |-> Since(ProfileIn(u), Longer(outFor[u].profile)),
                                     company |-> Since(CompanyIn(u), Longer(outFor[u].company))]]
      /\ profiles' = profiles /\ auth' = auth /\ companies' = companies /\ reading' = reading
  BY DEF Pass
<1>2. AccountTypes /\ VerifierInv /\ Ttl \in Nat
  BY AccountAssumption DEF TenancyInv
<1>3. ASSUME NEW n \in Nat
      PROVE  Longer(n) \in Nat /\ Longer(n) <= n + 1 /\ EntryAged(n) \in Nat
  BY <1>2 DEF Longer, EntryAged
<1>4. ASSUME NEW u \in Users
      PROVE  /\ cache[u] \in Nat /\ cache'[u] = EntryAged(cache[u])
             /\ outFor[u].profile \in Nat /\ outFor[u].company \in Nat
             /\ outFor'[u].profile = Since(ProfileIn(u), Longer(outFor[u].profile))
             /\ outFor'[u].company = Since(CompanyIn(u), Longer(outFor[u].company))
  BY <1>1, <1>2 DEF AccountTypes, Times
<1>5. ASSUME NEW u \in Users
      PROVE  /\ outFor'[u].profile \in Nat /\ outFor'[u].profile <= outFor[u].profile + 1
             /\ outFor'[u].company \in Nat /\ outFor'[u].company <= outFor[u].company + 1
  BY <1>3, <1>4 DEF Since
<1>6. cache' \in [Users -> Nat]
  BY <1>1, <1>3, <1>4
<1>7. outFor' \in [Users -> Times]
  <2>1. \A u \in Users :
          /\ Since(ProfileIn(u), Longer(outFor[u].profile)) \in Nat
          /\ Since(CompanyIn(u), Longer(outFor[u].company)) \in Nat
    BY <1>3, <1>4 DEF Since
  <2> QED BY <1>1, <2>1 DEF Times
<1>8. ASSUME NEW u \in Users PROVE Verified(u)'
  <2>1. /\ Verified(u) /\ reading'[u] = None
        /\ (ProfileIn(u)' <=> ProfileIn(u)) /\ (CompanyIn(u)' <=> CompanyIn(u))
    BY <1>1, <1>2 DEF VerifierInv, ProfileIn, CompanyIn, HasProfile
  <2>2. /\ ProfileIn(u) => outFor'[u].profile = 0
        /\ CompanyIn(u) => outFor'[u].company = 0
    BY <1>4 DEF Since
  <2>3. cache'[u] > 0 =>
          outFor'[u].profile + cache'[u] <= Ttl /\ outFor'[u].company + cache'[u] <= Ttl
    BY <1>2, <1>4, <1>5, <2>1 DEF EntryAged, Verified
  <2> QED BY <2>1, <2>2, <2>3 DEF Verified
<1>9. reading' \in [Users -> Companies \cup {None}]
  BY <1>1, <1>2 DEF AccountTypes
<1> QED BY <1>1, <1>6, <1>7, <1>8, <1>9, WatchStep

-----------------------------------------------------------------------------
(* The theorems                                                            *)

LEMMA TenancyInit == Init => TenancyInv
<1>1. SUFFICES ASSUME Init PROVE TenancyInv
  OBVIOUS
<1>2. First \in Invitations /\ Own \in Companies /\ Users = Invitations
  BY TenancyAssumption DEF Invitations, Companies
<1>3. /\ NewInvitation(Own, First) \in InvitationRecord /\ NewInvitation(Own, First).version = 1
      /\ NewInvitation(Own, First).status = "pending"
  BY <1>2, NewRow
<1>4. NoInvitation \in InvitationRecord
  BY DEF NoInvitation, InvitationRecord
<1>5. /\ inv \in [Invitations -> InvitationRecord] /\ inv[First] = NewInvitation(Own, First)
      /\ \A i \in Invitations : i # First => inv[i] = NoInvitation
  BY <1>1, <1>2, <1>3, <1>4 DEF Init
<1>6. NoOp \in Operation
  BY DEF NoOp, Operation, Kinds, Things
<1>7. CallTypes
  BY <1>1, <1>2, <1>5, <1>6 DEF Init, CallTypes, Pcs
<1>8. /\ NoProfile \in ProfileRecord /\ NoProfile.version = 0 /\ ~NoProfile.deleted
      /\ [active |-> TRUE, deleted |-> FALSE, version |-> 1] \in CompanyRecord
  BY DEF NoProfile, ProfileRecord, CompanyRecord
<1>9. /\ AccountTypes
      /\ \A u \in Users : /\ profiles[u] = NoProfile /\ cache[u] = 0 /\ reading[u] = None
                          /\ outFor[u] = [profile |-> 0, company |-> 0]
  BY <1>1, <1>2, <1>8 DEF Init, InitAccounts, AccountTypes, Times
<1>10. \A u \in Users : ~HasProfile(u)
  BY <1>8, <1>9 DEF HasProfile
<1>11. \A u \in Users : ProfileSound(u) /\ Verified(u)
  BY <1>8, <1>9, <1>10 DEF ProfileSound, Verified
<1>12. \A i \in Invitations : RowSound(i)
  BY <1>3, <1>5, NoRow DEF RowSound
<1>13. ASSUME NEW c \in Calls PROVE Relies(c)
  <2>1. pc[c] = "idle" /\ c \in Invitations /\ c # First
    BY <1>1, Invited, TenancyAssumption DEF Init
  <2> QED BY <1>5, <2>1, NoRow DEF Relies
<1> QED BY <1>7, <1>9, <1>11, <1>12, <1>13 DEF TenancyInv, VerifierInv

LEMMA TenancyNext == TenancyInv /\ [Next]_vars => TenancyInv'
<1>1. SUFFICES ASSUME TenancyInv, [Next]_vars PROVE TenancyInv'
  OBVIOUS
<1>2. ASSUME NEW c \in Calls, Step(c) PROVE TenancyInv'
  BY <1>1, <1>2, CheckPendingStep, InsertInvitationStep, ReadInvitationStep, ChangeInvitationStep,
     RecordAuditStep, ReadByTokenStep, CreateAccountStep, ConfirmProfileStep, MarkAcceptedStep,
     ReadUserStep, ProfileStep, BanAccountStep, ChooseCompanyStep, ChangeCompanyStep DEF Step
<1>3. ASSUME NEW u \in Users, Verify(u) PROVE TenancyInv'
  BY <1>1, <1>3, ReadProfileStep, ReadCompanyStep DEF Verify
<1>4. CASE UNCHANGED vars
  <2>1. /\ inv' = inv /\ mailed' = mailed /\ pc' = pc /\ op' = op /\ seen' = seen
        /\ profiles' = profiles /\ auth' = auth /\ companies' = companies /\ cache' = cache
        /\ reading' = reading /\ outFor' = outFor
    BY <1>4 DEF vars, accountVars
  <2>2. AccountTypes /\ VerifierInv
    BY <1>1 DEF TenancyInv
  <2>3. \A u \in Users : Verified(u)'
    BY <2>1, <2>2, VerifierAside DEF VerifierInv
  <2> QED BY <1>1, <2>1, <2>2, <2>3, WatchStep DEF AccountTypes
<1> QED BY <1>1, <1>2, <1>3, <1>4, ExpireStep, PassStep DEF Next

\* The invariant holds of every behaviour.
THEOREM TenancyInvariant == Spec => []TenancyInv
BY TenancyInit, TenancyNext, PTL DEF Spec

\* Whatever attempts failed, an accepted invitation has the profile it promised
\* (accept_invitation): the call that accepts has seen it, and profiles stay.
THEOREM AcceptanceDelivers == Spec => []AcceptedHasOwnProfile
<1>1. TenancyInv => AcceptedHasOwnProfile
  BY UsersAreInvitations DEF TenancyInv, RowSound, ProfileSound, AcceptedHasOwnProfile
<1> QED BY <1>1, TenancyInvariant, PTL

\* A token withdrawn by resend_invitation does not accept.
THEOREM LastTokenAccepts == Spec => []AcceptedWithLastToken
<1>1. TenancyInv => AcceptedWithLastToken
  BY DEF TenancyInv, RowSound, AcceptedWithLastToken
<1> QED BY <1>1, TenancyInvariant, PTL

\* Only an acceptance that overlapped with revoke_invitation leaves an account
\* for a revoked invitation.
THEOREM RevokedMeansNoAccount == Spec => []RevokedAccountOnlyByOverlap
<1>1. ASSUME TenancyInv PROVE RevokedAccountOnlyByOverlap
  <2>1. SUFFICES ASSUME NEW i \in Invitations, inv[i].status = "revoked", HasProfile(i)
                 PROVE  \E c \in Calls :
                          op[c].kind = "accept" /\ op[c].on = i /\ seen[c] < inv[i].version
    BY DEF RevokedAccountOnlyByOverlap
  <2>2. PICK c \in Calls : Tries(c, i)
    BY <1>1, <2>1, UsersAreInvitations DEF TenancyInv, ProfileSound
  <2>3. /\ op[c].kind = "accept" /\ op[c].on = i /\ seen[c] <= inv[i].version
        /\ seen[c] # inv[i].version
    BY <2>1, <2>2 DEF Tries, Saw
  <2>4. seen[c] \in Nat /\ inv[i].version \in Nat
    BY <1>1 DEF TenancyInv, CallTypes, InvitationRecord
  <2> QED BY <2>3, <2>4
<1> QED BY <1>1, TenancyInvariant, PTL

\* Whoever has been out for the lifetime of a cached answer, for a reason of the
\* own profile's or of the company's, is not let in, whichever administrators act
\* (SupabaseTokenVerifier): an answer is cached while neither reason has lasted.
THEOREM RevocationIsPrompt == Spec => []RevocationTakesEffect
<1>1. ASSUME TenancyInv PROVE RevocationTakesEffect
  <2>1. SUFFICES ASSUME NEW u \in Users, outFor[u].profile >= Ttl \/ outFor[u].company >= Ttl
                 PROVE  cache[u] = 0
    BY DEF RevocationTakesEffect
  <2>2. cache[u] > 0 =>
          outFor[u].profile + cache[u] <= Ttl /\ outFor[u].company + cache[u] <= Ttl
    BY <1>1 DEF TenancyInv, VerifierInv, Verified
  <2>3. /\ cache[u] \in Nat /\ outFor[u].profile \in Nat /\ outFor[u].company \in Nat
        /\ Ttl \in Nat
    BY <1>1, AccountAssumption DEF TenancyInv, AccountTypes, Times
  <2> QED BY <2>1, <2>2, <2>3
<1> QED BY <1>1, TenancyInvariant, PTL

\* No profile is erased before its account is banned (erase_user).
THEOREM ErasureBansFirst == Spec => []ErasedIsBanned
<1>1. TenancyInv => ErasedIsBanned
  BY DEF TenancyInv, ProfileSound, ErasedIsBanned
<1> QED BY <1>1, TenancyInvariant, PTL
=============================================================================
