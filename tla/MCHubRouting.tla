---------------------------- MODULE MCHubRouting ----------------------------
(* Bounded instances of HubRouting for TLC: two projects, three sessions. *)
EXTENDS HubRouting, TLC

CONSTANTS s1, s2, s3

Projection == s1 :> "p1" @@ s2 :> "p2" @@ s3 :> "p1"
Symmetry == Permutations(Requests) \cup Permutations(Tasks)
=============================================================================
