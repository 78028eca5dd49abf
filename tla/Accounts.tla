-------------------------------- MODULE Accounts --------------------------------
(***************************************************************************)
(* What sign-in promises, apart from its statements: an account belongs to *)
(* the identity that opened it, for good, and only the owner of an account *)
(* is admitted.  SignIn implements it.                                     *)
(***************************************************************************)
CONSTANTS Person, Email, EmailOf, Nobody

VARIABLES
  owner,    \* owner[e]: the identity the account of address e belongs to
  admitted  \* the identities that have been let in

Init ==
  /\ owner = [e \in Email |-> Nobody]
  /\ admitted = {}

Open(p) ==
  /\ owner[EmailOf[p]] = Nobody
  /\ owner' = [owner EXCEPT ![EmailOf[p]] = p]
  /\ UNCHANGED admitted

Admit(p) ==
  /\ owner[EmailOf[p]] = p
  /\ admitted' = admitted \cup {p}
  /\ UNCHANGED owner

Next == \E p \in Person : Open(p) \/ Admit(p)

Spec == Init /\ [][Next]_<<owner, admitted>>
================================================================================
