----------------------------- MODULE BridgeLife -----------------------------
(***************************************************************************)
(* What the rest of the system sees of the HoGP bridge process: that it    *)
(* runs, that its btclient child holds a GATT client id in Floss, and      *)
(* whether that id is published in /tmp/duet5-bridge-client-id.            *)
(*                                                                         *)
(* Module Watchdog runs the watchdog script and the GATT filter against    *)
(* this lifecycle; module Bridge, the detailed main loop, implements one   *)
(* lifetime of it.                                                         *)
(***************************************************************************)
EXTENDS GattFilter

CONSTANT ClientIds   \* the GATT client ids Floss hands out

\* BTA client interfaces are eight bits wide; the file can be read back as
\* one without loss.
ASSUME ClientIdsAssumption == ClientIds \subseteq 0..255

VARIABLES
  phase,    \* "none", "up", "published", "down" or "exited" (a zombie)
  bt,       \* the btclient child: "none", "running" or "exited"
  cid,      \* the id Floss gave this bridge's btclient, or NoId
  held,     \* Floss still has that id registered
  idFile,   \* contents of the published file, NoId when there is none
  others    \* ids registered by every other GATT client

bridgeVars == <<phase, bt, cid, held, idFile, others>>

LifeTypeOK ==
  /\ phase \in {"none", "up", "published", "down", "exited"}
  /\ bt \in {"none", "running", "exited"}
  /\ cid \in ClientIds \cup {NoId}
  /\ held \in BOOLEAN
  /\ held => cid \in ClientIds
  /\ idFile \in ClientIds \cup {NoId}
  /\ others \subseteq ClientIds

\* A file of an earlier run of the script may still be there.
LifeInit ==
  /\ phase = "none"
  /\ bt = "none"
  /\ cid = NoId
  /\ held = FALSE
  /\ idFile \in ClientIds \cup {NoId}
  /\ others \in SUBSET ClientIds

-----------------------------------------------------------------------------
\* The process is started.  A btclient left behind by a killed predecessor
\* is just another client from now on.
Start ==
  /\ phase = "none"
  /\ phase' = "up"
  /\ bt' = "none"
  /\ cid' = NoId
  /\ held' = FALSE
  /\ others' = IF held THEN others \cup {cid} ELSE others
  /\ UNCHANGED idFile

\* create_uhid raises before anything needs cleaning up.
Abort ==
  /\ phase = "up"
  /\ bt = "none"
  /\ phase' = "exited"
  /\ UNCHANGED <<bt, cid, held, idFile, others>>

Spawn ==
  /\ phase = "up"
  /\ bt = "none"
  /\ bt' = "running"
  /\ UNCHANGED <<phase, cid, held, idFile, others>>

\* Floss completes "gatt register-client".  The answer may come while the
\* bridge is already shutting down, or has been killed.
Register(id) ==
  /\ bt = "running"
  /\ cid = NoId
  /\ id \notin others
  /\ cid' = id
  /\ held' = TRUE
  /\ UNCHANGED <<phase, bt, idFile, others>>

\* The bridge has read its id and publishes it, by an atomic rename.
Publish ==
  /\ phase = "up"
  /\ cid # NoId
  /\ phase' = "published"
  /\ idFile' = cid
  /\ UNCHANGED <<bt, cid, held, others>>

\* Stop or exception: the file is unlinked before anything else is undone.
TearDown ==
  /\ phase \in {"up", "published"}
  /\ bt # "none"
  /\ phase' = "down"
  /\ idFile' = NoId
  /\ UNCHANGED <<bt, cid, held, others>>

\* btclient ends, by "quit", by a signal or by a crash; Floss drops its id.
BtExit ==
  /\ bt = "running"
  /\ bt' = "exited"
  /\ held' = FALSE
  /\ UNCHANGED <<phase, cid, idFile, others>>

\* The process ends; a btclient that ignores "quit" may outlive it.
Exit ==
  /\ phase = "down"
  /\ phase' = "exited"
  /\ UNCHANGED <<bt, cid, held, idFile, others>>

\* SIGKILL or a crash of the interpreter: nothing is cleaned up.
Kill ==
  /\ phase \in {"up", "published", "down"}
  /\ phase' = "exited"
  /\ UNCHANGED <<bt, cid, held, idFile, others>>

LifeNext ==
  \/ Start \/ Abort \/ Spawn
  \/ \E id \in ClientIds : Register(id)
  \/ Publish \/ TearDown \/ BtExit \/ Exit \/ Kill

LifeSpec == LifeInit /\ [][LifeNext]_bridgeVars
=============================================================================
