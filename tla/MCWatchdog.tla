----------------------------- MODULE MCWatchdog -----------------------------
(* Small instances of the watchdog.  The bridge may get an id of the list   *)
(* (45) or one outside it (7); the natives have ids of the list.            *)
EXTENDS WatchdogProps

MCClientIds == {7, 43, 45}
MCNativeIds == {43, 45}
=============================================================================
