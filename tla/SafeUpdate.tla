----------------------------- MODULE SafeUpdate -----------------------------
(***************************************************************************)
(* What an installer owes the file it replaces, whatever command of it     *)
(* fails: the file is written only while a rollback would restore the      *)
(* original, and what a rollback restores changes only while the original  *)
(* is in place.                                                            *)
(***************************************************************************)
CONSTANTS
  Original,  \* the contents before anything was installed
  Contents,  \* all that the file may contain, half written included
  Nothing    \* no usable backup

VARIABLES
  file,      \* what the file contains
  backup     \* what a rollback would put there, or Nothing

vars == <<file, backup>>

Init == file = Original /\ backup = Nothing

Save ==
  /\ file = Original
  /\ backup' \in {Original, Nothing}
  /\ UNCHANGED file

Write ==
  /\ backup = Original
  /\ file' \in Contents
  /\ UNCHANGED backup

Next == Save \/ Write

Spec == Init /\ [][Next]_vars

\* The original is never lost.
Recoverable == file = Original \/ backup = Original
=============================================================================
