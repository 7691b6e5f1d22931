--------------------------- MODULE AdapterRestart ---------------------------
(***************************************************************************)
(* The watchdog, the bridge and the natives when btadapterd dies under     *)
(* them.  Its job (btadapterd.conf.duet-runtime-filter) starts it again    *)
(* with the filter preloaded, until it has died too often in ten seconds.  *)
(* All GATT clients and connections die with it.  Nobody tells the bridge: *)
(* it never registers twice, so the id it has published is no longer a     *)
(* client of its own and may be given to another.                          *)
(***************************************************************************)
EXTENDS WatchdogProps

CONSTANT RespawnLimit   \* respawn limit 5 10

ASSUME RespawnAssumption == RespawnLimit \in Nat

VARIABLES
  daemon,    \* btadapterd: "up", "down" or "stopped" (the job gave up)
  respawns   \* respawns in the current ten seconds

adapterVars == <<daemon, respawns>>
restartVars == <<vars, adapterVars>>

RestartInit == Init /\ daemon = "up" /\ respawns = 0

\* Clients, connections and an open in flight were the daemon's.
Forgets ==
  /\ others' = {} /\ held' = FALSE
  /\ linked' = {} /\ call' = NoCall

Dies ==
  /\ daemon = "up"
  /\ Forgets
  /\ daemon' = "down"
  /\ UNCHANGED <<phase, bt, cid, idFile, shVars, respawns>>

Respawn ==
  /\ daemon = "down"
  /\ respawns < RespawnLimit
  /\ daemon' = "up"
  /\ respawns' = respawns + 1
  /\ UNCHANGED vars

GivesUp ==
  /\ daemon = "down"
  /\ respawns = RespawnLimit
  /\ daemon' = "stopped"
  /\ UNCHANGED <<vars, respawns>>

IntervalOver ==
  /\ respawns > 0
  /\ respawns' = 0
  /\ UNCHANGED <<vars, daemon>>

\* Without the daemon nothing registers, and every gdbus fails.
WithoutDaemon ==
  /\ daemon # "up"
  /\ Shell \/ Bridge
  /\ others' = {} /\ held' = FALSE
  /\ UNCHANGED adapterVars

WithDaemon ==
  /\ daemon = "up"
  /\ Next
  /\ UNCHANGED adapterVars

RestartNext ==
  WithDaemon \/ WithoutDaemon \/ Dies \/ Respawn \/ GivesUp \/ IntervalOver

RestartSpec == RestartInit /\ [][RestartNext]_restartVars

\* The script is scheduled, whether the daemon is there or not; an open that
\* was made returns; gdbus does not fail for ever on the same id; the job is
\* respawned while its limit allows it.
RestartFairness ==
  /\ WF_restartVars(Shell /\ (WithDaemon \/ WithoutDaemon))
  /\ WF_restartVars(OpenReturns /\ WithDaemon)
  /\ \A id \in ClientIds : SF_restartVars(UnregisterOther(id) /\ WithDaemon)
  /\ WF_restartVars(Respawn)

RestartFairSpec == RestartSpec /\ RestartFairness

-----------------------------------------------------------------------------
\* What survives of the watchdog's invariant: all but OwnClientKept, and the
\* daemon that is not there holds nothing.
RestartInv ==
  /\ daemon \in {"up", "down", "stopped"} /\ respawns \in 0..RespawnLimit
  /\ FileNamesBridge
  /\ BetweenBridges
  /\ LoopSparesOwn
  /\ PublishedHasFile
  /\ LookHasBridge
  /\ NoChildNoId
  /\ HeldIsRunning
  /\ daemon # "up" => others = {} /\ ~held /\ linked = {} /\ call = NoCall

\* The client of a running btclient is lost with the daemon and in no other
\* way: the script that was started against an earlier daemon, and spares an
\* id it has read from before, does not unregister the bridge's new one.
LostOnlyWithDaemon ==
  [][held /\ ~held' /\ bt' = "running" => daemon' = "down"]_restartVars

\* AUTO-MODE.md: the filter is preloaded "to block competing native Floss
\* clients from opening connections to the Duet 5 KB".  While a bridge stays
\* published, its btclient runs and the daemon stays up, no native client has
\* the keyboard in the end: none is left under an id that was the bridge's.
OnlyTheBridgeKeepsLink ==
  <>[](phase = "published" /\ bt = "running" /\ daemon = "up") =>
    <>[](linked \cap KnownNative \subseteq (IF held THEN {cid} ELSE {}))
=============================================================================
