------------------------------ MODULE Backoff ------------------------------
(***************************************************************************)
(* The waits of the SDK's two retry loops: reconnectLoop with              *)
(* backoffDuration of pkg/athyr/agent.go, and Retry of                     *)
(* pkg/athyr/middleware.go.  A time.Duration is a signed integer of Width  *)
(* bits that wraps around.                                                 *)
(***************************************************************************)
EXTENDS Integers

CONSTANTS
  Width,         \* 64 in the code
  Bases, Caps,   \* values of baseBackoff (Retry's backoff) and maxBackoff
  MaxAttempts    \* bound on the attempts

\* 1<<n, for a result of any width.  (2^n as a recursive function, which can
\* be proved about.)
Pow2[n \in Nat] == IF n = 0 THEN 1 ELSE 2 * Pow2[n - 1]

BackoffAssumption ==
  /\ Width \in Nat \ {0} /\ MaxAttempts \in Nat
  /\ Bases \cup Caps \subseteq 1..Pow2[Width - 1] - 1

VARIABLES loop, base, cap, attempt, wait

vars == <<loop, base, cap, attempt, wait>>

Largest == Pow2[Width - 1] - 1
Wrap(x) ==
  LET m == x % Pow2[Width] IN IF m > Largest THEN m - Pow2[Width] ELSE m

\* base << attempt, as base * time.Duration(1<<attempt).
Shifted(n) == IF n >= Width THEN 0 ELSE Wrap(base * Wrap(Pow2[n]))

Capped(d) == IF d > cap THEN cap ELSE d

\* time.Duration(float64(d) * jitter), with jitter in eighths from 0.5 on and
\* below 1.5; the conversion truncates.
Jittered(d, eighths) ==
  IF d >= 0 THEN (d * eighths) \div 8 ELSE -((-d * eighths) \div 8)

TypeOK ==
  /\ loop \in {"reconnect", "retry"}
  /\ base \in Bases /\ cap \in Caps
  /\ attempt \in 0..MaxAttempts
  /\ wait \in Int

Init ==
  /\ loop \in {"reconnect", "retry"}
  /\ base \in Bases /\ cap \in Caps
  /\ attempt = 0 /\ wait = base

\* Another attempt has failed; the wait before the next one.
ReconnectWaitUncapped ==
  /\ loop = "reconnect" /\ attempt < MaxAttempts
  /\ \E eighths \in 4..11 : wait' = Jittered(Shifted(attempt), eighths)
  /\ attempt' = attempt + 1
  /\ UNCHANGED <<loop, base, cap>>

ReconnectWait ==
  /\ loop = "reconnect" /\ attempt < MaxAttempts
  /\ \E eighths \in 4..11 : wait' = Jittered(Capped(Shifted(attempt)), eighths)
  /\ attempt' = attempt + 1
  /\ UNCHANGED <<loop, base, cap>>

RetryWait ==
  /\ loop = "retry" /\ attempt < MaxAttempts
  /\ wait' = Shifted(attempt)
  /\ attempt' = attempt + 1
  /\ UNCHANGED <<loop, base, cap>>

Next == ReconnectWait \/ RetryWait

Spec == Init /\ [][Next]_vars

-----------------------------------------------------------------------------
(* Properties *)

\* The wait before attempt n that is meant: base doubled every time, for a
\* reconnection up to the cap, as long as that is a Duration.
Meant(n) == base * Pow2[n]
Overflows(n) == Meant(n) > Largest

\* As long as what is meant is a Duration, Retry waits just that, and a
\* reconnection within half of it, or of the cap, around it.  After an overflow
\* nothing is promised of Retry's waits, which may be of any length, but a
\* reconnection's are still less than half longer than the cap.  A wait is over
\* at once only after an overflow, or when jitter makes nothing of the smallest
\* Duration.
WaitsAsMeant ==
  attempt > 0 =>
    LET n == attempt - 1
        most == IF Meant(n) < cap THEN Meant(n) ELSE cap
    IN  /\ loop = "retry" => Overflows(n) \/ wait = Meant(n)
        /\ loop = "reconnect" =>
             /\ 2 * wait < 3 * cap
             /\ Overflows(n) \/ (most - 1 <= 2 * wait /\ 2 * wait < 3 * most)
        /\ wait <= 0 => Overflows(n) \/ (loop = "reconnect" /\ most = 1)

\* "capped at maxBackoff" (options.go 187): no wait for a reconnection is
\* longer than maxBackoff.  (Expected to be violated.)
CappedAtMaxBackoff == loop = "reconnect" /\ attempt > 0 => wait <= cap

\* "reconnectLoop attempts to reconnect with exponential backoff" (agent.go
\* 327): there is a wait before every attempt.  (Expected to be violated.)
AlwaysWaits == wait > 0
=============================================================================
