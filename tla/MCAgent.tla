------------------------------ MODULE MCAgent ------------------------------
(* Agent on small instances: what the configurations give its constants. *)
EXTENDS Agent, TLC

CONSTANTS a, b, s1, s2

\* One application goroutine that calls everything.
OneCaller == (a :> Methods)

\* One connects and makes calls; the other closes.
WithCloser == (a :> {"Connect", "Call"} @@ b :> {"Close"})

\* Nobody closes: one connects, both use subscriptions.
Subscribers ==
  (a :> {"Connect", "Subscribe", "Unsubscribe", "Call"}
   @@ b :> {"Subscribe", "Unsubscribe"})

Reconnector == (a :> {"Connect", "Subscribe", "Unsubscribe"})

\* Subjects and queues: different ones, or a second member of one queue.
DistinctKeys == (s1 :> "ticks" @@ s2 :> "tocks")
SharedKey == (s1 :> "ticks" @@ s2 :> "ticks")

Symmetries == Permutations(Conns) \cup Permutations(HbLoops)
              \cup Permutations(RcLoops)
=============================================================================
