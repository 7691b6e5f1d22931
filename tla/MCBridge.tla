------------------------------ MODULE MCBridge ------------------------------
(* Small instances of the bridge: one or two privacy addresses, one client  *)
(* id, one handle, no --address.                                            *)
EXTENDS BridgeProps

CONSTANTS a1, a2

TwoAddrs == {a1, a2}
OneAddr == {a1}
OneId == {45}
OneHandle == <<49>>
NotGiven == {NoAddr}
BothBonded == {<<a1, a2>>}
SomeBonded == {<<>>, <<a1>>}
=============================================================================
