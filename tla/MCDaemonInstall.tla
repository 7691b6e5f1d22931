--------------------------- MODULE MCDaemonInstall ---------------------------
(* Two or three installations by either pair, any number of rollbacks.      *)
EXTENDS DaemonInstall
=============================================================================
