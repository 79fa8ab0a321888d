---------------------------- MODULE MCMiddleware ----------------------------
(* Middleware under chains of every shape that matters, or one at a time. *)
EXTENDS Middleware, TLC

\* Each middleware inside and outside a Timeout, and a Retry and a Timeout in
\* either order: two requests that compete where there is something to compete
\* for, one where a request competes with its own attempts.  In the last chain
\* each side of the Timeout has a Recover of its own around what may panic.
Loads ==
  <<"recover", "limit", "timeout">> :> 2
  @@ <<"timeout", "recover", "limit">> :> 2
  @@ <<"limit", "recover", "retry">> :> 2
  @@ <<"recover", "retry", "timeout", "limit">> :> 1
  @@ <<"timeout", "retry", "limit", "recover">> :> 1
  @@ <<"validate", "timeout", "recover", "timeout">> :> 1
  @@ <<"recover", "validate", "timeout", "recover", "observe">> :> 1
TellingChains == DOMAIN Loads

\* The order of docs/ARCHITECTURE.md, with a Timeout of the service's own.
DocumentedLoad == <<"recover", "limit", "timeout">> :> 2
DocumentedChain == DOMAIN DocumentedLoad
=============================================================================
