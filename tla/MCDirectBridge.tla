--------------------------- MODULE MCDirectBridge ---------------------------
(* Both variants of the bridge: two privacy addresses, one client id, one   *)
(* or two handles, with and without --address.                              *)
EXTENDS DirectBridge

CONSTANTS a1, a2

TwoAddrs == {a1, a2}
OneId == {45}
TwoHandles == <<49, 76>>
OneHandle == <<49>>
GivenOrNot == {NoAddr, a1}
BothBonded == {<<a1, a2>>}
OneOrBoth == {<<a1>>, <<a1, a2>>}
=============================================================================
