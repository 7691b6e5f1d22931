-------------------------- MODULE MCAdapterRestart --------------------------
(* Small instances: two ids of the list, natives that may be given both.    *)
EXTENDS AdapterRestart

MCIds == {43, 45}
OneNative == {43}
=============================================================================
