---------------------------- MODULE Exceptions ----------------------------
(***************************************************************************)
(* What a caller is told when a guard ends a request: the HTTP status, the *)
(* machine-readable code and, where the exception has one, the reason.     *)
(* One operator per exception class that src/ throws on the way to a       *)
(* handler (src/errors, src/zero-trust/error); messages, request ids and   *)
(* metadata other than the reason are left out.                            *)
(***************************************************************************)
Exception(status, code, reason) == [status |-> status, code |-> code, reason |-> reason]

\* An exception of the framework: a status alone.
HttpException(status) == Exception(status, "none", "none")

\* A guard that returns false; passport without a valid token; an error nobody
\* maps, such as a rejected store call.
Forbidden           == HttpException(403)
Unauthorized        == HttpException(401)
InternalServerError == HttpException(500)

InvalidCredentials(reason) == Exception(401, "INVALID_CREDENTIALS", reason)

UnauthorizedTenant == Exception(403, "UNAUTHORIZED_TENANT", "none")

ForbiddenOperation(reason) == Exception(403, "FORBIDDEN", reason)

RateLimitExceeded == Exception(429, "RATE_LIMIT_EXCEEDED", "none")

EventAccessDenied(reason) == Exception(403, "EVENT_ACCESS_DENIED", reason)

AccessBlocked == Exception(403, "ACCESS_BLOCKED", "none")

\* The method to step up with is the reason (of a StepUpRequiredException as it
\* is: ZeroTrustModule provides its filter but applies it nowhere).
StepUpRequired(method) == Exception(401, "STEP_UP_REQUIRED", method)
=============================================================================
