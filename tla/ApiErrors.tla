------------------------------ MODULE ApiErrors ------------------------------
(***************************************************************************)
(* From what goes wrong to the status of the answer: the exceptions of the *)
(* layers, their translation into the exceptions of the services, and the  *)
(* handlers at the boundary of the API.                                    *)
(***************************************************************************)

AuthenticationErrors ==
    {"MissingCredentials", "MalformedAuthorizationHeader", "InvalidToken", "TokenExpired",
     "CompanyAccessRevoked", "AccountAccessRevoked", "SessionNotFound", "SessionExpired"}

AuthorizationErrors == {"PermissionDenied", "RoleNotPermitted", "OwnershipRequired"}

DatabaseErrors ==
    {"DatabaseConnection", "Repository", "RecordNotFound", "ConstraintViolation",
     "ConcurrentUpdate", "InvalidQuery"}

EngineErrors ==
    {"NoActiveDefinition", "MultipleActiveDefinitions", "NonSequentialStageOrder",
     "StageNotFoundInDefinition", "UnknownAssignee", "InvalidEscalationConfiguration",
     "DefinitionAlreadyActive", "MismatchedRequestType", "DefinitionEditNotAllowed",
     "InvalidStateTransition"}

ServiceErrors ==
    {"EAH", "Validation", "NotFound", "PermissionDenied", "Concurrency", "Workflow", "Assignment",
     "Configuration", "StorageOperation", "InvitationConflict", "SupabaseAdminOperation",
     "InvalidInvitationState"}

\* What PostgREST reports; an unreachable database and a policy's refusal of an insertion are
\* not told apart from any other failure.
_translate_and_raise(cause) ==
    IF cause \in {"unique", "foreign_key", "check", "not_null"} THEN "ConstraintViolation" ELSE "Repository"

translate_database_error(x) ==
    CASE x = "RecordNotFound" -> "NotFound"
      [] x = "ConcurrentUpdate" -> "Concurrency"
      [] x \in {"ConstraintViolation", "InvalidQuery"} -> "Validation"
      [] x = "DatabaseConnection" -> "Configuration"
      [] OTHER -> "EAH"

translate_workflow_error(x) ==
    CASE x = "NoActiveDefinition" -> "Validation"
      [] x = "DefinitionAlreadyActive" -> "Concurrency"
      [] x = "UnknownAssignee" -> "Assignment"
      [] OTHER -> "Workflow"

translate_auth_error(x) == "PermissionDenied"

_handle_eah_error(x) ==
    CASE x = "NotFound" -> 404
      [] x \in {"Validation", "InvitationConflict", "InvalidInvitationState", "Workflow", "Assignment"} -> 422
      [] x = "PermissionDenied" -> 403
      [] x = "Concurrency" -> 409
      [] x = "Configuration" -> 503
      [] x = "StorageOperation" -> 502
      [] OTHER -> 500

_handle_auth_error(x) == IF x \in AuthorizationErrors THEN 403 ELSE 401
=============================================================================
