-------------------------------- MODULE MCSignIn --------------------------------
(***************************************************************************)
(* A small instance of SignIn for TLC: two identities with one address, a  *)
(* provider's and a mocked one.                                            *)
(***************************************************************************)
EXTENDS SignIn

CONSTANTS Google, Mock, Home, Other

MCAllowLists == {Email, {Other}}
MCEmailOf == [p \in Person |-> Home]
================================================================================
