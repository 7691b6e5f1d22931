--------------------------- MODULE WatchdogProofs ---------------------------
(***************************************************************************)
(* Proofs about the watchdog script and the filter, for every set of       *)
(* client ids: type correctness, the inductive invariant WatchInv and the  *)
(* promises that follow from it; then, under restarts of btadapterd and    *)
(* for every respawn limit, what survives of that invariant, and that the  *)
(* bridge's client is lost with the daemon only.                           *)
(***************************************************************************)
EXTENDS AdapterRestart, TLAPS

\* An eight bit id comes back from the file as it went in.
LEMMA AsUint8Id ==
  ASSUME NEW n \in 0..255
  PROVE  AsUint8(n) = n
BY SMT DEF AsUint8

\* The hotfix filter drops every open the first filter dropped: deploying it
\* in place of the other lets no client through that was stopped before.
THEOREM HotfixStopsNoLess ==
  \A client, allowed \in Int, kind \in AddrKinds :
    BlockedOld(client, kind, allowed) => Blocked(client, kind, allowed)
BY DEF BlockedOld, Blocked

-----------------------------------------------------------------------------
LEMMA IdFacts ==
  /\ NoId \notin ClientIds
  /\ NativeIds \subseteq ClientIds
  /\ \A id \in ClientIds : AsUint8(id) = id
BY ClientIdsAssumption, NativeIdsAssumption, AsUint8Id, SMT DEF NoId

\* The steps of the program preserve the types.
LEMMA TypeStep == TypeOK /\ [Next]_vars => TypeOK'
<1> SUFFICES ASSUME TypeOK, [Next]_vars PROVE TypeOK'
  OBVIOUS
<1> USE IdFacts DEF TypeOK, LifeTypeOK
<1>1. ASSUME Shell PROVE TypeOK'
  <2>1. CASE Clear
    BY <2>1 DEF Clear, Reaped, stackVars
  <2>2. CASE Launch
    BY <2>2 DEF Launch, Start, stackVars
  <2>3. CASE Test
    BY <2>3 DEF Test, bridgeVars, stackVars
  <2>4. CASE Look
    BY <2>4 DEF Look, Reaped, stackVars, IDS
  <2>5. CASE SkipOwn
    BY <2>5 DEF SkipOwn, Advance, IDS, bridgeVars, stackVars
  <2>6. ASSUME NEW id \in {IDS[i] : i \in 1..Len(IDS)}, UnregisterOther(id)
        PROVE  TypeOK'
    BY <2>6 DEF UnregisterOther, Unregister, Reaped, Advance, IDS
  <2>7. CASE UnregisterFails
    BY <2>7 DEF UnregisterFails, Reaped, Advance, IDS, stackVars
  <2>8. CASE Nap
    BY <2>8 DEF Nap, Reaped, stackVars
  <2>9. CASE Rest
    BY <2>9 DEF Rest, bridgeVars, stackVars
  <2> QED
    BY <1>1, <2>1, <2>2, <2>3, <2>4, <2>5, <2>6, <2>7, <2>8, <2>9 DEF Shell
<1>2. ASSUME Bridge PROVE TypeOK'
  <2> USE <1>2 DEF Bridge, shVars
  <2>1. CASE UNCHANGED linked /\ (Abort \/ Spawn \/ Exit \/ Kill)
    BY <2>1 DEF Abort, Spawn, Exit, Kill
  <2>2. CASE UNCHANGED linked /\ Publish
    BY <2>2 DEF Publish
  <2>3. CASE UNCHANGED linked /\ TearDown
    BY <2>3 DEF TearDown
  <2>4. ASSUME NEW id \in ClientIds, UNCHANGED linked, Register(id) PROVE TypeOK'
    BY <2>4 DEF Register
  <2>5. CASE BtExit /\ linked' = linked \ {cid}
    BY <2>5 DEF BtExit
  <2> QED
    BY <2>1, <2>2, <2>3, <2>4, <2>5 DEF BridgeStep
<1>3. ASSUME Floss PROVE TypeOK'
  <2>1. ASSUME NEW id \in NativeIds, NativeRegisters(id) PROVE TypeOK'
    BY <2>1 DEF NativeRegisters, shVars, stackVars
  <2>2. ASSUME NEW id \in ClientIds, NEW kind \in AddrKinds, FilterCheck(id, kind)
        PROVE  TypeOK'
    BY <2>2 DEF FilterCheck, Calls, bridgeVars, shVars
  <2>3. CASE OpenReturns
    <3>1. Registered(call.client) => call.client \in ClientIds
      BY DEF Registered
    <3> QED
      BY <2>3, <3>1 DEF OpenReturns, Calls, NoCall, AddrKinds, bridgeVars, shVars
  <2>4. CASE LinkLost
    BY <2>4 DEF LinkLost, bridgeVars, shVars
  <2> QED
    BY <1>3, <2>1, <2>2, <2>3, <2>4 DEF Floss
<1>4. CASE UNCHANGED vars
  BY <1>4 DEF vars, bridgeVars, shVars, stackVars
<1> QED
  BY <1>1, <1>2, <1>3, <1>4 DEF Next

\* Every variable of the watchdog model keeps its type.
THEOREM TypeCorrect == Spec => []TypeOK
<1>1. ASSUME Init PROVE TypeOK
  <2>1. LifeTypeOK
    BY <1>1 DEF Init, LifeInit, LifeTypeOK
  <2>2. call \in Calls
    BY <1>1 DEF Init, Calls, NoCall, AddrKinds
  <2>3. pos \in 1..Len(IDS)
    BY <1>1 DEF Init, IDS
  <2> QED
    BY <1>1, <2>1, <2>2, <2>3 DEF Init, TypeOK
<1> QED
  BY <1>1, TypeStep, PTL DEF Spec

-----------------------------------------------------------------------------
\* One step of the script keeps the invariant.
LEMMA ShellStep == TypeOK /\ WatchInv /\ Shell => WatchInv'
<1> SUFFICES ASSUME TypeOK, WatchInv, Shell PROVE WatchInv'
  OBVIOUS
<1> USE IdFacts DEF TypeOK, LifeTypeOK, WatchInv, FileNamesBridge, OwnClientKept,
        BetweenBridges, LoopSparesOwn, PublishedHasFile, LookHasBridge,
        NoChildNoId, HeldIsRunning
<1>1. CASE Clear
  BY <1>1 DEF Clear, Reaped
<1>2. CASE Launch
  BY <1>2 DEF Launch, Start
<1>3. CASE Test
  BY <1>3 DEF Test, bridgeVars
<1>4. CASE Look
  BY <1>4 DEF Look, Reaped, Numeric
<1>5. CASE SkipOwn
  BY <1>5 DEF SkipOwn, Advance, bridgeVars
<1>6. ASSUME NEW id \in {IDS[i] : i \in 1..Len(IDS)}, UnregisterOther(id)
      PROVE  WatchInv'
  <2>1. id # cid
    BY <1>6 DEF UnregisterOther, Spares
  <2>2. held' = held
    BY <1>6, <2>1 DEF UnregisterOther, Unregister
  <2> QED
    BY <1>6, <2>2 DEF UnregisterOther, Reaped, Advance
<1>7. CASE UnregisterFails
  BY <1>7 DEF UnregisterFails, Reaped, Advance
<1>8. CASE Nap
  BY <1>8 DEF Nap, Reaped
<1>9. CASE Rest
  BY <1>9 DEF Rest, Test, bridgeVars
<1> QED
  BY <1>1, <1>2, <1>3, <1>4, <1>5, <1>6, <1>7, <1>8, <1>9 DEF Shell

\* One step of the bridge process keeps it, wherever the script is.
LEMMA BridgeKeeps == TypeOK /\ WatchInv /\ Bridge => WatchInv'
<1> SUFFICES ASSUME TypeOK, WatchInv, Bridge PROVE WatchInv'
  OBVIOUS
<1> USE IdFacts DEF TypeOK, LifeTypeOK, WatchInv, FileNamesBridge, OwnClientKept,
        BetweenBridges, LoopSparesOwn, PublishedHasFile, LookHasBridge,
        NoChildNoId, HeldIsRunning, Bridge, shVars
<1>1. CASE Abort
  BY <1>1 DEF Abort
<1>2. CASE Spawn
  BY <1>2 DEF Spawn
<1>3. ASSUME NEW id \in ClientIds, Register(id) PROVE WatchInv'
  BY <1>3 DEF Register
<1>4. CASE Publish
  BY <1>4 DEF Publish
<1>5. CASE TearDown
  BY <1>5 DEF TearDown
<1>6. CASE BtExit
  BY <1>6 DEF BtExit
<1>7. CASE Exit
  BY <1>7 DEF Exit
<1>8. CASE Kill
  BY <1>8 DEF Kill
<1> QED
  BY <1>1, <1>2, <1>3, <1>4, <1>5, <1>6, <1>7, <1>8 DEF BridgeStep

\* The stack and the native clients touch nothing the invariant is about.
LEMMA FlossKeeps == WatchInv /\ (Floss \/ UNCHANGED vars) => WatchInv'
BY DEF Floss, NativeRegisters, FilterCheck, OpenReturns, LinkLost, vars,
       bridgeVars, shVars, stackVars, WatchInv, FileNamesBridge, OwnClientKept,
       BetweenBridges, LoopSparesOwn, PublishedHasFile, LookHasBridge,
       NoChildNoId, HeldIsRunning

\* The inductive invariant holds in every reachable state.
THEOREM WatchInvariant == Spec => []WatchInv
<1>1. Init => WatchInv
  BY IdFacts DEF Init, LifeInit, WatchInv, FileNamesBridge, OwnClientKept,
     BetweenBridges, LoopSparesOwn, PublishedHasFile, LookHasBridge,
     NoChildNoId, HeldIsRunning
<1>2. TypeOK /\ WatchInv /\ [Next]_vars => WatchInv'
  BY ShellStep, BridgeKeeps, FlossKeeps DEF Next
<1> QED
  BY <1>1, <1>2, TypeCorrect, PTL DEF Spec

\* A published id is always the id of the bridge that runs.
THEOREM FileIsOurs == Spec => []FileNamesBridge
<1>1. WatchInv => FileNamesBridge
  BY DEF WatchInv
<1> QED
  BY <1>1, WatchInvariant, PTL

\* The watchdog never takes the GATT client of a running btclient away, for
\* any set of client ids and however the bridge starts, stops and dies.
THEOREM OwnClientIsKept == Spec => []OwnClientKept
<1>1. WatchInv => OwnClientKept
  BY DEF WatchInv
<1> QED
  BY <1>1, WatchInvariant, PTL

\* The filter never stands in the way of the published bridge.
THEOREM BridgeIsNotBlocked == Spec => []BridgeNotBlocked
<1>1. TypeOK /\ WatchInv => BridgeNotBlocked
  <2> SUFFICES ASSUME TypeOK, WatchInv, phase = "published",
                      NEW kind \in DuetKinds
               PROVE  ~Blocked(cid, kind, idFile)
    BY DEF BridgeNotBlocked
  <2>1. idFile = cid /\ cid \in ClientIds
    BY DEF TypeOK, LifeTypeOK, WatchInv, PublishedHasFile
  <2>2. AsUint8(idFile) = cid /\ ~(idFile < 0)
    BY <2>1, IdFacts, ClientIdsAssumption
  <2> QED
    BY <2>1, <2>2 DEF Blocked, NotTheAllowed
<1> QED
  BY <1>1, TypeCorrect, WatchInvariant, PTL

\* Nobody is unregistered before the bridge has an id of its own.
THEOREM NativesAreSpared == Spec => NativesSparedBeforeId
<1>1. WatchInv /\ [Next]_vars => [~(others \subseteq others') => cid # NoId]_vars
  <2> SUFFICES ASSUME WatchInv, Next, ~(others \subseteq others') PROVE cid # NoId
    OBVIOUS
  <2>1. ~Bridge /\ ~Floss
    BY DEF Bridge, BridgeStep, Abort, Spawn, Register, Publish, TearDown, BtExit,
       Exit, Kill, Floss, NativeRegisters, FilterCheck, OpenReturns, LinkLost,
       bridgeVars
  <2>2. PICK id \in {IDS[i] : i \in 1..Len(IDS)} : UnregisterOther(id)
    BY <2>1 DEF Next, Shell, Clear, Launch, Start, Test, Look, SkipOwn,
       UnregisterFails, Nap, Rest, bridgeVars
  <2> QED
    BY <2>2 DEF UnregisterOther, WatchInv, LoopSparesOwn
<1> QED
  BY <1>1, WatchInvariant, PTL DEF Spec, NativesSparedBeforeId


-----------------------------------------------------------------------------
\* Under restarts of btadapterd.

\* The part of WatchInv that says nothing of what Floss holds.
Survives ==
  /\ FileNamesBridge
  /\ BetweenBridges
  /\ LoopSparesOwn
  /\ PublishedHasFile
  /\ LookHasBridge
  /\ NoChildNoId
  /\ HeldIsRunning

LEMMA ShellSurvives == TypeOK /\ Survives /\ Shell => Survives'
<1> SUFFICES ASSUME TypeOK, Survives, Shell PROVE Survives'
  OBVIOUS
<1> USE IdFacts DEF TypeOK, LifeTypeOK, Survives, FileNamesBridge,
        BetweenBridges, LoopSparesOwn, PublishedHasFile, LookHasBridge,
        NoChildNoId, HeldIsRunning
<1>1. CASE Clear
  BY <1>1 DEF Clear, Reaped
<1>2. CASE Launch
  BY <1>2 DEF Launch, Start
<1>3. CASE Test
  BY <1>3 DEF Test, bridgeVars
<1>4. CASE Look
  BY <1>4 DEF Look, Reaped, Numeric
<1>5. CASE SkipOwn
  BY <1>5 DEF SkipOwn, Advance, bridgeVars
<1>6. ASSUME NEW id \in {IDS[i] : i \in 1..Len(IDS)}, UnregisterOther(id)
      PROVE  Survives'
  <2>1. held' = held
    BY <1>6 DEF UnregisterOther, Unregister, Spares
  <2> QED
    BY <1>6, <2>1 DEF UnregisterOther, Reaped, Advance
<1>7. CASE UnregisterFails
  BY <1>7 DEF UnregisterFails, Reaped, Advance
<1>8. CASE Nap
  BY <1>8 DEF Nap, Reaped
<1>9. CASE Rest
  BY <1>9 DEF Rest, bridgeVars
<1> QED
  BY <1>1, <1>2, <1>3, <1>4, <1>5, <1>6, <1>7, <1>8, <1>9 DEF Shell

LEMMA BridgeSurvives == TypeOK /\ Survives /\ Bridge => Survives'
<1> SUFFICES ASSUME TypeOK, Survives, Bridge PROVE Survives'
  OBVIOUS
<1> USE IdFacts DEF TypeOK, LifeTypeOK, Survives, FileNamesBridge,
        BetweenBridges, LoopSparesOwn, PublishedHasFile, LookHasBridge,
        NoChildNoId, HeldIsRunning, Bridge, shVars
<1>1. CASE Abort
  BY <1>1 DEF Abort
<1>2. CASE Spawn
  BY <1>2 DEF Spawn
<1>3. ASSUME NEW id \in ClientIds, Register(id) PROVE Survives'
  BY <1>3 DEF Register
<1>4. CASE Publish
  BY <1>4 DEF Publish
<1>5. CASE TearDown
  BY <1>5 DEF TearDown
<1>6. CASE BtExit
  BY <1>6 DEF BtExit
<1>7. CASE Exit
  BY <1>7 DEF Exit
<1>8. CASE Kill
  BY <1>8 DEF Kill
<1> QED
  BY <1>1, <1>2, <1>3, <1>4, <1>5, <1>6, <1>7, <1>8 DEF BridgeStep

LEMMA FlossSurvives == Survives /\ (Floss \/ UNCHANGED vars) => Survives'
BY DEF Floss, NativeRegisters, FilterCheck, OpenReturns, LinkLost, vars,
       bridgeVars, shVars, stackVars, Survives, FileNamesBridge,
       BetweenBridges, LoopSparesOwn, PublishedHasFile, LookHasBridge,
       NoChildNoId, HeldIsRunning

-----------------------------------------------------------------------------
\* The daemon, and what it holds when it is not there.
AdapterOK ==
  /\ daemon \in {"up", "down", "stopped"} /\ respawns \in 0..RespawnLimit
  /\ daemon # "up" => others = {} /\ ~held /\ linked = {} /\ call = NoCall

\* The steps of the daemon's job touch nothing of the bridge or the script.
LEMMA DaemonSteps ==
  ASSUME TypeOK, AdapterOK, Survives, Dies \/ Respawn \/ GivesUp \/ IntervalOver
  PROVE  TypeOK' /\ AdapterOK' /\ Survives'
<1> USE RespawnAssumption
<1>1. CASE Dies
  <2>1. UNCHANGED <<phase, bt, cid, idFile, sh, seen, pos>>
    BY <1>1 DEF Dies, shVars
  <2>2. others' = {} /\ held' = FALSE /\ linked' = {} /\ call' = NoCall
    BY <1>1 DEF Dies, Forgets
  <2>3. NoCall \in Calls
    BY DEF NoCall, Calls, AddrKinds
  <2>4. TypeOK'
    BY <2>1, <2>2, <2>3 DEF TypeOK, LifeTypeOK
  <2>5. Survives'
    BY <2>1, <2>2 DEF Survives, FileNamesBridge, BetweenBridges, LoopSparesOwn,
       PublishedHasFile, LookHasBridge, NoChildNoId, HeldIsRunning
  <2>6. AdapterOK'
    BY <1>1, <2>2 DEF Dies, AdapterOK
  <2> QED
    BY <2>4, <2>5, <2>6
<1>2. CASE Respawn \/ GivesUp \/ IntervalOver
  <2>1. UNCHANGED vars
    BY <1>2 DEF Respawn, GivesUp, IntervalOver
  <2>2. TypeOK' /\ Survives'
    BY <2>1, TypeStep, FlossSurvives
  <2>3. AdapterOK'
    BY <1>2, <2>1 DEF Respawn, GivesUp, IntervalOver, AdapterOK, vars, bridgeVars, stackVars
  <2> QED
    BY <2>2, <2>3
<1> QED
  BY <1>1, <1>2

\* Without the daemon the connections that are not there stay away.
LEMMA NothingLinked ==
  ASSUME AdapterOK, WithoutDaemon
  PROVE  linked' = {} /\ call' = NoCall
<1>1. linked = {} /\ call = NoCall /\ (Shell \/ Bridge)
  BY DEF AdapterOK, WithoutDaemon
<1>2. CASE Shell
  BY <1>1, <1>2 DEF Shell, Clear, Launch, Test, Look, SkipOwn, UnregisterOther,
     Unregister, UnregisterFails, Nap, Rest, stackVars
<1>3. CASE Bridge
  BY <1>1, <1>3 DEF Bridge, BridgeStep
<1> QED
  BY <1>1, <1>2, <1>3

LEMMA RestartStep ==
  ASSUME TypeOK, RestartInv, [RestartNext]_restartVars
  PROVE  TypeOK' /\ RestartInv'
<1>0. AdapterOK /\ Survives
  BY DEF RestartInv, AdapterOK, Survives
<1> SUFFICES TypeOK' /\ AdapterOK' /\ Survives'
  BY DEF RestartInv, AdapterOK, Survives
<1>1. CASE WithDaemon
  <2>1. TypeOK' /\ Survives'
    BY <1>0, <1>1, TypeStep, ShellSurvives, BridgeSurvives, FlossSurvives
       DEF WithDaemon, Next
  <2> QED
    BY <1>0, <1>1, <2>1 DEF WithDaemon, AdapterOK, adapterVars
<1>2. CASE WithoutDaemon
  <2>1. TypeOK' /\ Survives'
    BY <1>0, <1>2, TypeStep, ShellSurvives, BridgeSurvives DEF WithoutDaemon, Next
  <2>2. AdapterOK'
    BY <1>0, <1>2, NothingLinked DEF WithoutDaemon, AdapterOK, adapterVars
  <2> QED
    BY <2>1, <2>2
<1>3. CASE Dies \/ Respawn \/ GivesUp \/ IntervalOver
  BY <1>0, <1>3, DaemonSteps
<1>4. CASE UNCHANGED restartVars
  <2>1. UNCHANGED vars /\ UNCHANGED adapterVars
    BY <1>4 DEF restartVars
  <2>2. TypeOK' /\ Survives'
    BY <1>0, <2>1, TypeStep, FlossSurvives
  <2> QED
    BY <1>0, <2>1, <2>2 DEF AdapterOK, adapterVars, vars, bridgeVars, stackVars
<1> QED
  BY <1>1, <1>2, <1>3, <1>4 DEF RestartNext

\* Whenever the daemon dies, comes back or gives up: the published id is the
\* running bridge's, the script spares it and nothing stale survives between
\* two bridges.
THEOREM RestartInvariant == RestartSpec => []RestartInv
<1>1. RestartInit => TypeOK
  <2> SUFFICES ASSUME Init PROVE TypeOK
    BY DEF RestartInit
  <2>1. LifeTypeOK
    BY DEF Init, LifeInit, LifeTypeOK
  <2>2. call \in Calls
    BY DEF Init, Calls, NoCall, AddrKinds
  <2>3. pos \in 1..Len(IDS)
    BY DEF Init, IDS
  <2> QED
    BY <2>1, <2>2, <2>3 DEF Init, TypeOK
<1>2. RestartInit => RestartInv
  BY IdFacts, RespawnAssumption
     DEF RestartInit, Init, LifeInit, RestartInv, FileNamesBridge,
     BetweenBridges, LoopSparesOwn, PublishedHasFile, LookHasBridge,
     NoChildNoId, HeldIsRunning
<1> QED
  BY <1>1, <1>2, RestartStep, PTL DEF RestartSpec

\* No command of the script takes the client of a running btclient away, not
\* even with an id it has read before the daemon was restarted.
THEOREM ClientLostWithDaemon == RestartSpec => LostOnlyWithDaemon
<1>1. ASSUME RestartInv, RestartNext, held, ~held', bt' = "running"
      PROVE  daemon' = "down"
  <2>1. LoopSparesOwn /\ daemon = "up" /\ ~UNCHANGED vars
    BY <1>1 DEF RestartInv, vars, bridgeVars
  <2>2. CASE WithDaemon
    <3>1. CASE Shell
      BY <1>1, <2>1, <3>1 DEF Shell, Clear, Launch, Start, Test, Look, SkipOwn,
         UnregisterOther, Unregister, Spares, UnregisterFails, Nap, Rest, bridgeVars,
         LoopSparesOwn
    <3>2. CASE Bridge
      BY <1>1, <3>2 DEF Bridge, BridgeStep, Abort, Spawn, Register, Publish,
         TearDown, BtExit, Exit, Kill
    <3>3. CASE Floss
      BY <1>1, <3>3 DEF Floss, NativeRegisters, FilterCheck, OpenReturns, LinkLost,
         bridgeVars
    <3> QED
      BY <2>2, <3>1, <3>2, <3>3 DEF WithDaemon, Next
  <2>3. CASE Dies
    BY <2>3 DEF Dies
  <2> QED
    BY <1>1, <2>1, <2>2, <2>3
       DEF RestartNext, WithoutDaemon, Respawn, GivesUp, IntervalOver
<1>2. RestartInv /\ [RestartNext]_restartVars
        => [held /\ ~held' /\ bt' = "running" => daemon' = "down"]_restartVars
  BY <1>1
<1> QED
  BY <1>2, RestartInvariant, PTL DEF RestartSpec, LostOnlyWithDaemon
=============================================================================
