------------------------------- MODULE Store -------------------------------
(***************************************************************************)
(* What the platform keeps for applications, as kv.go and memory.go of     *)
(* pkg/athyr reach it: the value under one key of a bucket, and memory     *)
(* sessions with their hints.                                              *)
(*                                                                         *)
(* Each call is checkConnected, one RPC and wrapError.  With ok it has     *)
(* been carried out; a call that is refused or whose RPC fails has no      *)
(* effect, unless only the answer was lost.                                *)
(***************************************************************************)
EXTENDS Naturals, Sequences

CONSTANT None

VARIABLES
  kv,       \* the value; None: there is no such key
  sessions  \* the hints of each session, by ID

store == <<kv, sessions>>

StoreInit == kv = None /\ sessions = <<>>

Put(value, ok) ==
  /\ kv' = value \/ (~ok /\ UNCHANGED kv)
  /\ UNCHANGED sessions

\* A key that does not exist is an error, too.
Get(value, ok) ==
  /\ ok => kv # None
  /\ value = IF ok THEN kv ELSE None
  /\ UNCHANGED store

CreateSession(ok) ==
  /\ sessions' = Append(sessions, {}) \/ (~ok /\ UNCHANGED sessions)
  /\ UNCHANGED kv

\* GetSession, ListAgents, Models and the like change nothing.
Read == UNCHANGED store

AddHint(id, hint, ok) ==
  /\ \/ sessions' = [sessions EXCEPT ![id] = @ \cup {hint}]
     \/ ~ok /\ UNCHANGED sessions
  /\ UNCHANGED kv
=============================================================================
