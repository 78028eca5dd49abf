---------------------------- MODULE MCTeamRevision ----------------------------
(***************************************************************************)
(* Small instances of TeamRevision for TLC.                                *)
(***************************************************************************)
EXTENDS TeamRevision, TLC

\* Handlers are interchangeable, and so are the rows of a team.
HandlerSymmetry == Permutations(Handler)
================================================================================
