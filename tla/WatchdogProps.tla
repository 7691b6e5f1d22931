--------------------------- MODULE WatchdogProps ----------------------------
(***************************************************************************)
(* What the watchdog script and the filter promise, and the inductive      *)
(* invariant from which WatchdogProofs derives it.                         *)
(***************************************************************************)
EXTENDS Watchdog

\* While a bridge process runs, a published id is the id of that bridge and
\* of no predecessor: the script removes a stale file before it starts a
\* bridge, and a bridge publishes only the id Floss gave it.
FileNamesBridge ==
  phase # "none" /\ idFile # NoId => idFile = cid

\* The script never unregisters the client of a running btclient, which
\* would abort on it ("btclient exited: -6"): not with an id it read in an
\* earlier round, not in the middle of a shutdown, not while the bridge has
\* registered and not published yet, and not after the bridge was killed.
OwnClientKept ==
  bt = "running" /\ cid # NoId => held

\* No other client is unregistered before this bridge has a client of its
\* own to protect: with an id left over from a killed bridge the script
\* would disconnect the natives while nothing replaces them.
NativesSparedBeforeId ==
  [][~(others \subseteq others') => cid # NoId]_vars

\* The filter never drops an open the bridge makes while it is published,
\* whichever id Floss gave it (one of the native ids included).
BridgeNotBlocked ==
  phase = "published" /\ held =>
    \A kind \in DuetKinds : ~Blocked(cid, kind, idFile)

\* A bridge that died, of whatever cause, is started again, although a
\* zombie still answers `kill -0`.
Relaunched == phase = "exited" ~> phase = "up"

\* Once a bridge stays published, the native clients lose the keyboard and
\* do not get it back, though they register again each time and although an
\* open may have passed the filter before the id was published.  One is exempt:
\* a native that was given the published id itself, as can happen after a
\* restart of the daemon, keeps it (OnlyTheBridgeKeepsLink of AdapterRestart).
NativesEventuallyOut ==
  <>[](phase = "published") => <>[](linked \cap KnownNative \subseteq {cid})

-----------------------------------------------------------------------------
\* Between two bridges nothing runs that could register or publish.
BetweenBridges ==
  /\ sh \in {"clear", "launch", "reap"} => phase = "none"
  /\ sh = "launch" => idFile = NoId

\* The id the for loop spares is the id of this bridge, all the way through.
LoopSparesOwn == sh = "loop" => seen = cid /\ cid # NoId

PublishedHasFile == phase = "published" => idFile = cid /\ cid # NoId

\* `kill -0` succeeded and nothing has collected the child since.
LookHasBridge == sh = "look" => phase # "none"

NoChildNoId == bt = "none" => cid = NoId

HeldIsRunning == held => bt = "running" /\ cid # NoId

WatchInv ==
  /\ FileNamesBridge
  /\ OwnClientKept
  /\ BetweenBridges
  /\ LoopSparesOwn
  /\ PublishedHasFile
  /\ LookHasBridge
  /\ NoChildNoId
  /\ HeldIsRunning
=============================================================================
