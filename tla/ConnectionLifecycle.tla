------------------------ MODULE ConnectionLifecycle ------------------------
(***************************************************************************)
(* What the SDK promises about one agent's connection: the diagram of      *)
(* docs/ARCHITECTURE.md ("Connection States"), with the registration that  *)
(* a connected agent's calls are made under.  Every change of phase is one *)
(* step; there are no goroutines, connections or RPCs.                     *)
(***************************************************************************)
CONSTANTS Ids, None

VARIABLES phase, registration

lifecycle == <<phase, registration>>

Phases == {"disconnected", "connecting", "connected", "reconnecting"}

TypeOK ==
  /\ phase \in Phases
  /\ registration \in Ids \cup {None}

Init == phase = "disconnected" /\ registration = None

Connect ==
  /\ phase = "disconnected"
  /\ phase' = "connecting"
  /\ UNCHANGED registration

\* The platform has registered the agent: all calls until the connection is
\* lost or closed go out under this one registration.
Registered ==
  /\ phase \in {"connecting", "reconnecting"}
  /\ phase' = "connected"
  /\ registration' \in Ids

ConnectionLost ==
  /\ phase = "connected"
  /\ phase' = "reconnecting"
  /\ registration' = None

\* Connect has failed, the retries are used up, or the user closes.
Ended ==
  /\ phase # "disconnected"
  /\ phase' = "disconnected"
  /\ registration' = None

Next == Connect \/ Registered \/ ConnectionLost \/ Ended

Spec == Init /\ [][Next]_lifecycle

\* Neither connecting nor reconnecting lasts for ever.
Settling ==
  WF_lifecycle(phase \in {"connecting", "reconnecting"} /\ (Registered \/ Ended))

FairSpec == Spec /\ Settling

\* An agent has a registration exactly while it is connected.
ConnectedIffRegistered == phase = "connected" <=> registration \in Ids
=============================================================================
