------------------------------- MODULE Errors -------------------------------
(***************************************************************************)
(* Errors of pkg/athyr (errors.go, service.go, middleware.go) as chains:   *)
(* the sequence of what errors.Unwrap returns one after the other, the     *)
(* outermost first.  A layer is a ServiceError, an AthyrError, a           *)
(* StreamError, the gRPC status of a failed call, or anything else; only   *)
(* the first two and the status have a code.  A gRPC code is named by the  *)
(* ErrorCode it stands for, the others are "other".                        *)
(***************************************************************************)
EXTENDS Sequences, SequencesExt

Kinds == {"service", "athyr", "stream", "status", "plain"}

\* The ErrorCodes that have a gRPC status of their own.
MappedCodes == {"not_found", "unavailable", "invalid_argument", "internal",
                "unauthenticated", "permission_denied", "already_exists",
                "deadline_exceeded"}
ErrorCodes == MappedCodes \cup {"not_connected", "already_connected", "unknown"}
ServiceCodes == {"bad_request", "internal", "unavailable", "not_found"}
StatusCodes == MappedCodes \cup {"other"}

Layers == [kind : {"service"}, code : ServiceCodes]
          \cup [kind : {"athyr"}, code : ErrorCodes]
          \cup [kind : {"status"}, code : StatusCodes]
          \cup [kind : {"stream", "plain"}, code : {""}]

Plain == <<[kind |-> "plain", code |-> ""]>>
Status(code) == <<[kind |-> "status", code |-> code]>>
NotConnected == <<[kind |-> "athyr", code |-> "not_connected"]>>

\* errors.As finds the first layer of a kind; HasKind says whether there is
\* one, CodeAs is its code.
HasKind(err, kind) == \E n \in DOMAIN err : err[n].kind = kind
CodeAs(err, kind) ==
  err[SelectInSeq(err, LAMBDA layer : layer.kind = kind)].code

\* BadRequest, Internal, Unavailable and NotFound of service.go.
ServiceError(code) == <<[kind |-> "service", code |-> code]>>

\* fmt.Errorf("...: %w", err) and a StreamError around err.
Wrapped(err) == Plain \o err
StreamError(err) == <<[kind |-> "stream", code |-> ""]>> \o err

codeFromGRPC(code) == IF code \in MappedCodes THEN code ELSE "unknown"

\* status.FromError finds the status of a failed call anywhere in the chain.
wrapError(err) ==
  LET code == IF HasKind(err, "status") THEN codeFromGRPC(CodeAs(err, "status"))
                                        ELSE "unknown"
  IN  <<[kind |-> "athyr", code |-> code]>> \o err

\* errors.Is(err, Err...), the Is... helpers: some AthyrError has the code.
Is(err, code) ==
  \E n \in DOMAIN err : err[n].kind = "athyr" /\ err[n].code = code

isRetryable(err) ==
  IF HasKind(err, "service") THEN CodeAs(err, "service") = "unavailable"
  ELSE /\ HasKind(err, "athyr")
       /\ CodeAs(err, "athyr") \in {"unavailable", "deadline_exceeded"}

\* The code in the JSON a requester gets: only the outermost layer is asked.
formatError(err) == IF err[1].kind = "service" THEN err[1].code ELSE ""
=============================================================================
