------------------------------- MODULE Notices -------------------------------
(***************************************************************************)
(* NotificationService: a notice is written unless its recipient turned    *)
(* that off, and mailed from a thread pool, at best once it is written.    *)
(* A notice is named after the call that wrote it.  All of them, and the   *)
(* preferences, are about one notification type and go to the requester.   *)
(***************************************************************************)
EXTENDS ServiceCalls

VARIABLES
    prefs,      \* prefs[u]: the notification_preferences row, or NoRow
    notices,    \* notices[c]: the notifications row, or NoNotice
    outbox,     \* notices whose mail waits for a thread of the pool
    mails       \* mails[c]: messages accepted for delivery about notice c

noticeVars == <<prefs, notices, outbox, mails>>

NoRow == [set |-> FALSE, inApp |-> TRUE, email |-> TRUE]

PreferenceRecord == [set: BOOLEAN, inApp: BOOLEAN, email: BOOLEAN]

NoNotice == [to |-> None, read |-> FALSE, archived |-> FALSE, emailed |-> FALSE]

NotificationRecord ==
    [to: People \cup {None}, read: BOOLEAN, archived: BOOLEAN, emailed: BOOLEAN]

_DEFAULT_PREFERENCE == NoRow

\* get_for_user, called for by: through the caller's own client only the caller's own
\* rows are seen.
_effective_preference(by, owner) ==
    IF prefs[owner].set /\ Permits(by, "notification_preferences", own_rows([user |-> by], owner))
    THEN prefs[owner] ELSE _DEFAULT_PREFERENCE

-----------------------------------------------------------------------------
(* _create_and_dispatch, as every notify_ method calls it                  *)

BeginNotify(c) ==
    /\ \E u \in {Requester, Approver, System} :
        LET preference == _effective_preference(u, Requester) IN
        Begin(c, u, "notify", Requester, None, TRUE,
              IF ~preference.inApp THEN "done"
              ELSE IF preference.email THEN "noticeAndMail" ELSE "notice")
    /\ UNCHANGED noticeVars

WriteNotice(c) ==
    /\ pc[c] \in {"notice", "noticeAndMail"}
    /\ \E r \in Replies :
        /\ Reply(r, TRUE)
        /\ notices' = IF Applied(r) THEN [notices EXCEPT ![c] = [NoNotice EXCEPT !.to = op[c].on]] ELSE notices
        /\ outbox' = IF r = "ok" /\ pc[c] = "noticeAndMail" THEN outbox \cup {c} ELSE outbox
        /\ After(c, r, "done")
    /\ UNCHANGED <<status, bound, op, prior, prefs, mails>>

\* _attempt_email_dispatch on a thread of the pool.  The provider tries again when the
\* connection breaks, also after the server had taken the message: up to MaxAttempts
\* messages.  An error in the thread, of the provider or of mark_email_sent, is lost.
MaxAttempts == 2

mark_email_sent(row) == [row EXCEPT !.emailed = TRUE]

Mail(c) ==
    /\ c \in outbox
    /\ outbox' = outbox \ {c}
    /\ \E n \in 0..MaxAttempts, sent \in BOOLEAN, r \in Replies :
        /\ sent => n > 0
        /\ mails' = [mails EXCEPT ![c] = n]
        /\ IF sent
           THEN /\ Reply(r, TRUE)
                /\ notices' = IF Applied(r) THEN [notices EXCEPT ![c] = mark_email_sent(@)] ELSE notices
           ELSE r = "ok" /\ UNCHANGED <<notices, budget>>
    /\ UNCHANGED <<callVars, prefs>>

\* The process ends with messages still waiting: close() does not wait for them.
CloseOutbox ==
    /\ outbox # {}
    /\ outbox' = {}
    /\ UNCHANGED <<callVars, prefs, notices, mails, budget>>

-----------------------------------------------------------------------------
(* mark_read, archive_notification, unarchive_notification, mark_all_read  *)

_get_owned_notification(u, n) == notices[n].to = u

BeginOnNotice(c) ==
    /\ \E u \in {Requester, Approver}, n \in Calls \ {c}, kind \in {"read", "archive", "unarchive"} :
        /\ notices[n].to # None
        /\ Begin(c, u, kind, n, None, _get_owned_notification(u, n), "mark")
    /\ UNCHANGED noticeVars

Marked(row, kind) ==
    CASE kind = "read" -> [row EXCEPT !.read = TRUE]
      [] kind = "archive" -> [row EXCEPT !.archived = TRUE]
      [] kind = "unarchive" -> [row EXCEPT !.archived = FALSE]

MarkNotice(c) ==
    /\ pc[c] = "mark"
    /\ \E r \in Replies :
        /\ Reply(r, TRUE)
        /\ notices' = IF Applied(r) THEN [notices EXCEPT ![op[c].on] = Marked(@, op[c].kind)] ELSE notices
        /\ After(c, r, "done")
    /\ UNCHANGED <<status, bound, op, prior, prefs, outbox, mails>>

\* One statement; it reads nothing first.
BeginMarkAll(c) ==
    /\ \E u \in {Requester, Approver} : Begin(c, u, "readAll", u, None, TRUE, "markAll")
    /\ UNCHANGED noticeVars

MarkAllRead(c) ==
    /\ pc[c] = "markAll"
    /\ \E r \in Replies :
        /\ Reply(r, TRUE)
        /\ notices' = IF Applied(r)
                      THEN [n \in Calls |-> IF notices[n].to = op[c].on
                                            THEN Marked(notices[n], "read") ELSE notices[n]]
                      ELSE notices
        /\ After(c, r, "done")
    /\ UNCHANGED <<status, bound, op, prior, prefs, outbox, mails>>

-----------------------------------------------------------------------------
(* update_preference: what it is not told, it keeps as it read it          *)

Patches == [field: {"inApp", "email"}, value: BOOLEAN]

\* Mutant: what the patch leaves out is set to its default.
PatchedFromDefault(row, patch) ==
    [_DEFAULT_PREFERENCE EXCEPT !.set = TRUE, ![patch.field] = patch.value]

Patched(row, patch) == [row EXCEPT !.set = TRUE, ![patch.field] = patch.value]

BeginPreference(c) ==
    /\ \E patch \in Patches :
        Begin(c, Requester, "prefer", patch, _effective_preference(Requester, Requester), TRUE, "upsert")
    /\ UNCHANGED noticeVars

\* upsert on (user_id, notification_type)
UpsertPreference(c) ==
    /\ pc[c] = "upsert"
    /\ \E r \in Replies :
        /\ Reply(r, TRUE)
        /\ prefs' = IF Applied(r) THEN [prefs EXCEPT ![Requester] = Patched(op[c].arg, op[c].on)] ELSE prefs
        /\ After(c, r, "done")
    /\ UNCHANGED <<status, bound, op, prior, notices, outbox, mails>>

-----------------------------------------------------------------------------
InitNotices ==
    /\ prefs = [u \in People |-> NoRow]
    /\ notices = [c \in Calls |-> NoNotice]
    /\ outbox = {}
    /\ mails = [c \in Calls |-> 0]

NoticeStep(c) ==
    \/ BeginNotify(c) \/ WriteNotice(c) \/ Mail(c)
    \/ BeginOnNotice(c) \/ MarkNotice(c) \/ BeginMarkAll(c) \/ MarkAllRead(c)
    \/ BeginPreference(c) \/ UpsertPreference(c)
=============================================================================
