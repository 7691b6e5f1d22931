------------------------------ MODULE Watchdog ------------------------------
(***************************************************************************)
(* run-duet5-bridge.sh, the script the Upstart job runs: it starts the     *)
(* bridge again and again and, while the bridge lives and has published    *)
(* its GATT client id, unregisters the native Floss clients that compete   *)
(* for the keyboard.  It runs against                                      *)
(*   - the bridge process (BridgeLife), which registers, publishes, stops  *)
(*     and dies at any moment;                                             *)
(*   - the native clients, which register, open connections and come back  *)
(*     after they were unregistered;                                       *)
(*   - the filter in btadapterd, which reads the published id when an open *)
(*     is made, some time before the open takes effect.                    *)
(***************************************************************************)
EXTENDS BridgeLife, Sequences

CONSTANT NativeIds   \* the ids clients other than the bridge register with

ASSUME NativeIdsAssumption == NativeIds \subseteq ClientIds

IDS == <<43, 45, 46, 48, 50>>

VARIABLES
  sh,      \* where the script is
  seen,    \* $bridge_id, NoId for the empty string
  pos,     \* the next of IDS the for loop looks at
  call,    \* the call of BTA_GATTC_Open being made, or NoCall
  linked   \* the clients that hold a GATT connection to the keyboard

shVars == <<sh, seen, pos>>
stackVars == <<call, linked>>
vars == <<bridgeVars, shVars, stackVars>>

NoCall == [client |-> NoId, kind |-> "other", verdict |-> "none"]

Calls == [client : ClientIds \cup {NoId}, kind : AddrKinds,
          verdict : {"none", "allow", "block"}]

Registered(id) == id \in others \/ (held /\ id = cid)

TypeOK ==
  /\ LifeTypeOK
  /\ sh \in {"clear", "launch", "test", "look", "loop", "nap", "reap"}
  /\ seen \in ClientIds \cup {NoId}
  /\ pos \in 1..Len(IDS)
  /\ call \in Calls
  /\ linked \subseteq ClientIds

Init ==
  /\ LifeInit
  /\ others \subseteq NativeIds
  /\ sh = "clear"
  /\ seen = NoId
  /\ pos = 1
  /\ call = NoCall
  /\ linked = {}

-----------------------------------------------------------------------------
\* The script.  A shell collects a dead child only when it next runs a
\* foreground command; until then `kill -0` still finds the zombie.

\* Mutant: nothing collects the child.
ZombieStays == phase' = phase

Reaped == phase' = IF phase = "exited" THEN "none" ELSE phase

\* Mutant: the files of the previous bridge are left in place.
ClearKeepsFile ==
  /\ sh = "clear"
  /\ Reaped
  /\ sh' = "launch"
  /\ UNCHANGED <<bt, cid, held, idFile, others, seen, pos, stackVars>>

Clear ==
  /\ sh = "clear"
  /\ idFile' = NoId
  /\ Reaped
  /\ sh' = "launch"
  /\ UNCHANGED <<bt, cid, held, others, seen, pos, stackVars>>

Launch ==
  /\ sh = "launch"
  /\ Start
  /\ sh' = "test"
  /\ UNCHANGED <<seen, pos, stackVars>>

\* `while kill -0 "$bridge"`, then bridge_id="".
Test ==
  /\ sh = "test"
  /\ IF phase = "none"
       THEN sh' = "reap" /\ UNCHANGED seen
       ELSE sh' = "look" /\ seen' = NoId
  /\ UNCHANGED <<bridgeVars, pos, stackVars>>

\* Mutant: no guard, an empty $bridge_id goes through the loop.
AnyText(text) == TRUE

\* The case statement that lets only a string of digits pass.
Numeric(text) == text # NoId

\* The file is tested for and read, and the numeric guard decides.  A file
\* unlinked between the two reads as empty; the rename that publishes it
\* means that it is never seen half written.
Look ==
  /\ sh = "look"
  /\ seen' = idFile
  /\ sh' = IF Numeric(idFile) THEN "loop" ELSE "nap"
  /\ pos' = 1
  /\ Reaped
  /\ UNCHANGED <<bt, cid, held, idFile, others, stackVars>>

\* Mutant: the loop runs past the end of the list.
AdvanceTooFar == sh' = "loop" /\ pos' = pos + 1

Advance ==
  IF pos = Len(IDS) THEN sh' = "nap" /\ pos' = 1
                    ELSE sh' = "loop" /\ pos' = pos + 1

\* Mutant: the list is unregistered blindly.
SparesNone(id) == FALSE

\* [ -n "$bridge_id" ] && [ "$id" = "$bridge_id" ]
Spares(id) == seen # NoId /\ id = seen

SkipOwn ==
  /\ sh = "loop"
  /\ Spares(IDS[pos])
  /\ Advance
  /\ UNCHANGED <<bridgeVars, seen, stackVars>>

\* Floss forgets the client and closes its connections.
Unregister(id) ==
  /\ others' = others \ {id}
  /\ held' = (held /\ id # cid)
  /\ linked' = linked \ {id}

UnregisterOther(id) ==
  /\ sh = "loop"
  /\ IDS[pos] = id
  /\ ~Spares(IDS[pos])
  /\ Unregister(id)
  /\ Reaped
  /\ Advance
  /\ UNCHANGED <<bt, cid, idFile, seen, call>>

\* gdbus fails, for instance because btadapterd does not answer: `|| true`.
UnregisterFails ==
  /\ sh = "loop"
  /\ ~Spares(IDS[pos])
  /\ Reaped
  /\ Advance
  /\ UNCHANGED <<bt, cid, held, idFile, others, seen, stackVars>>

Nap ==
  /\ sh = "nap"
  /\ Reaped
  /\ sh' = "test"
  /\ UNCHANGED <<bt, cid, held, idFile, others, seen, pos, stackVars>>

\* `wait` returns at once, the child has been collected; then sleep 2.
Rest ==
  /\ sh = "reap"
  /\ sh' = "clear"
  /\ UNCHANGED <<bridgeVars, seen, pos, stackVars>>

Shell ==
  \/ Clear \/ Launch \/ Test \/ Look \/ SkipOwn
  \/ \E id \in {IDS[i] : i \in 1..Len(IDS)} : UnregisterOther(id)
  \/ UnregisterFails \/ Nap \/ Rest

-----------------------------------------------------------------------------
\* The bridge process.  Its own steps are those of BridgeLife; the client
\* of a btclient that ends loses its connection with its id.

BridgeStep ==
  \/ /\ \/ Abort \/ Spawn \/ Publish \/ TearDown \/ Exit \/ Kill
        \/ \E id \in ClientIds : Register(id)
     /\ UNCHANGED linked
  \/ BtExit /\ linked' = linked \ {cid}

Bridge ==
  /\ BridgeStep
  /\ UNCHANGED <<shVars, call>>

-----------------------------------------------------------------------------
\* Floss: the native clients and the calls of BTA_GATTC_Open.

NativeRegisters(id) ==
  /\ ~Registered(id)
  /\ others' = others \cup {id}
  /\ UNCHANGED <<phase, bt, cid, held, idFile, shVars, stackVars>>

\* A client calls BTA_GATTC_Open and the filter reads the file.  Natives
\* open anything; the bridge opens the keyboard, once it has published.
FilterCheck(id, kind) ==
  /\ call = NoCall
  /\ \/ id \in others
     \/ held /\ id = cid /\ phase = "published" /\ kind \in DuetKinds
  /\ call' = [client |-> id, kind |-> kind,
              verdict |-> IF Blocked(id, kind, idFile) THEN "block" ELSE "allow"]
  /\ UNCHANGED <<bridgeVars, shVars, linked>>

\* real_open9 runs, or the call returns without it.  The stack refuses an
\* open for a client that is no longer registered.
OpenReturns ==
  /\ call # NoCall
  /\ linked' = IF /\ call.verdict = "allow"
                  /\ call.kind \in DuetKinds
                  /\ Registered(call.client)
                 THEN linked \cup {call.client} ELSE linked
  /\ call' = NoCall
  /\ UNCHANGED <<bridgeVars, shVars>>

\* The keyboard is switched off or moves out of range.
LinkLost ==
  /\ linked # {}
  /\ linked' = {}
  /\ UNCHANGED <<bridgeVars, shVars, call>>

Floss ==
  \/ \E id \in NativeIds : NativeRegisters(id)
  \/ \E id \in ClientIds, kind \in AddrKinds : FilterCheck(id, kind)
  \/ OpenReturns
  \/ LinkLost

Next == Shell \/ Bridge \/ Floss

Spec == Init /\ [][Next]_vars
=============================================================================
