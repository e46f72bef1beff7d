----------------------------- MODULE MCCommands -----------------------------
(***************************************************************************)
(* An instance of Commands for TLC.                                        *)
(***************************************************************************)
EXTENDS Commands, TLC

\* Processes are interchangeable, and so are the tokens of logins.
Symmetry == Permutations(Procs) \cup Permutations(Tokens \ Account)
=============================================================================
