--------------------------- MODULE MCLiveInstall ---------------------------
(* Three installations and any number of rollbacks, on every kind of root.  *)
EXTENDS LiveInstall

AllRoots == {"ro", "rw", "rw_errors_remount_ro"}
=============================================================================
