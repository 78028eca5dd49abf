------------------------------ MODULE MCMembership ------------------------------
(***************************************************************************)
(* Instances of Membership for TLC.  Only Init knows which team is whose   *)
(* home, the steps and the invariants are symmetric in users and in teams. *)
(***************************************************************************)
EXTENDS Membership, TLC

CONSTANTS u1, u2, u3, A, B, C

MCHome == u1 :> A @@ u2 :> B @@ u3 :> C
Symmetry == Permutations(Handler) \cup Permutations(User) \cup Permutations(Team)
================================================================================
