------------------------------ MODULE MCFanOut ------------------------------
(* FanOut with three agents, under different names or two under one. *)
EXTENDS FanOut, TLC

CONSTANTS a1, a2, a3

DistinctNames == (a1 :> "n1" @@ a2 :> "n2" @@ a3 :> "n3")
SharedName == (a1 :> "n1" @@ a2 :> "n1" @@ a3 :> "n3")
=============================================================================
