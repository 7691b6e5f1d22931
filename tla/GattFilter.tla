----------------------------- MODULE GattFilter -----------------------------
(***************************************************************************)
(* The decision of the LD_PRELOAD filter in btadapterd, which interposes   *)
(* BTA_GATTC_Open: given the GATT client that opens, the address it opens  *)
(* and the client id published in /tmp/duet5-bridge-client-id, is the open *)
(* dropped?  Two generations of the filter exist; the installer deploys    *)
(* the second ("rpa-hotfix").                                              *)
(*                                                                         *)
(* A published id is an integer, NoId when the file is missing or empty    *)
(* (bridge_client_id returns -1).  Addresses are of three kinds: the       *)
(* legacy identity prefix cc:59:35:9f of the keyboard, a resolvable        *)
(* private address of the keyboard, and any other device.                  *)
(***************************************************************************)
EXTENDS Integers

NoId == -1

AddrKinds == {"identity", "rpa", "other"}

\* The kinds that belong to the keyboard.
DuetKinds == {"identity", "rpa"}

\* The GATT client ids the native HoGP and BAS clients had on the image.
KnownNative == {43, 45, 46, 48, 50}

\* client_if is a uint8_t and the published id is an int cast to one.
AsUint8(n) == n % 256

NotTheAllowed(client, allowed) ==
  allowed < 0 \/ client # AsUint8(allowed)

\* duet5-gatt-filter.c: only opens of the identity address are filtered.
BlockedOld(client, kind, allowed) ==
  kind = "identity" /\ NotTheAllowed(client, allowed)

\* Mutant: the bridge is not exempt from the known native ids.
BlockedEveryNative(client, kind, allowed) ==
  \/ allowed >= 0 /\ client \in KnownNative
  \/ kind = "identity" /\ NotTheAllowed(client, allowed)

\* duet5-gatt-filter-rpa-hotfix.c: the known native ids are also stopped,
\* whatever they open, while an id is published.
Blocked(client, kind, allowed) ==
  \/ allowed >= 0 /\ client # AsUint8(allowed) /\ client \in KnownNative
  \/ kind = "identity" /\ NotTheAllowed(client, allowed)
=============================================================================
