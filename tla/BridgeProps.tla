---------------------------- MODULE BridgeProps -----------------------------
(***************************************************************************)
(* What one run of the bridge promises, and the lifecycle it implements.   *)
(***************************************************************************)
EXTENDS Bridge

Commands ==
  {Cmd(op) : op \in {"list", "register", "transport", "auth", "direct"}}
    \cup {Connect(a) : a \in Addrs}
    \cup {Notify(a, h) : a \in Addrs, h \in Elems(Handles)}

Lines ==
  {DeviceLine(a) : a \in Addrs}
    \cup {RegisteredLine(ok, id) : ok \in BOOLEAN, id \in ClientIds}
    \cup {ConnectionLine(a, up) : a \in Addrs, up \in BOOLEAN}
    \cup {NotificationLine(a, h) : a \in Addrs, h \in Elems(Handles)}

TypeOK ==
  /\ pc \in {"start", "create", "bind", "select", "line", "setup", "mode", "retry",
             "send", "poll", "unlink", "disconnect", "quit", "destroy", "done", "killed"}
  /\ {stopping, registered, connected, setup, modeSet, cooldown, retryDue,
      regPending, ptp} \subseteq BOOLEAN
  /\ address \in Addrs \cup {NoAddr}
  /\ Elems(addresses) \subseteq Addrs
  /\ index \in Nat /\ (addresses # <<>> => index < Len(addresses))
  /\ Elems(queue) \subseteq Commands
  /\ Elems(lines) \cup Elems(out) \subseteq Lines
  /\ idFile \in ClientIds \cup {NoId} /\ cid \in ClientIds \cup {NoId}
  /\ bt \in {"none", "running", "exited"}
  /\ Elems(bonded) \subseteq Addrs /\ wanted \subseteq Addrs
  /\ link \in Addrs \cup {NoAddr}
  /\ enabled \subseteq Elems(Handles)

\* address and address_index name the same candidate, though three places
\* move them: the first device line, the callbacks and the retry timer.
IndexAligned == addresses # <<>> => address = addresses[index + 1]

\* When the bridge has nothing left to read or to type and takes itself to
\* be connected and set up, it is: the link exists and is the link of
\* `address`, every handle is enabled on it and the touchpad mode is set.
\* Commands of an earlier connection, a link lost under a command and a
\* reconnection nobody asked for must not leave it half armed.
ArmedWhenQuiet ==
  pc = "select" /\ out = <<>> /\ queue = <<>> /\ bt = "running"
    /\ connected /\ setup /\ modeSet
  => link = address /\ enabled = Elems(Handles) /\ ptp

\* A report the keyboard sent is never thrown away because the bridge has
\* moved on to another candidate in the meantime.
NoReportLost ==
  pc = "line" /\ lines # <<>> /\ Head(lines).type = "notification"
  => Head(lines).addr = address /\ connected

\* Commands do not pile up behind the 0.8 s pacing, however often the
\* keyboard connects and disconnects.
QueueBound == Len(queue) <= (IF Len(Handles) > 4 THEN Len(Handles) ELSE 4)

\* One GATT client per run: a second bonded "Duet 5 KB" in the list, or a
\* device line that comes again, does not register another.
OneRegistration ==
  Cardinality({i \in 1..Len(queue) : queue[i] = Cmd("register")})
    + (IF regPending THEN 1 ELSE 0) + (IF cid # NoId THEN 1 ELSE 0) <= 1

-----------------------------------------------------------------------------
HasConnect == queue # <<>> /\ Head(queue).op = "connect"

\* A keyboard that connects, asked for or not, is armed in the end, unless
\* it goes away again or the bridge ends.
EventuallyArmed ==
  link # NoAddr /\ Running ~>
    (link # NoAddr /\ enabled = Elems(Handles) /\ ptp) \/ link = NoAddr \/ Ended

\* While it is not connected, a registered bridge never stops trying.
KeepsTrying ==
  Running /\ registered /\ link = NoAddr ~> link # NoAddr \/ HasConnect \/ Ended

\* A stop request ends the process, wherever it arrives and whatever
\* btclient does.
StopEnds == stopping ~> Ended

\* README.md: "Pair `Duet 5 KB` normally after the service is running; the
\* bridge waits for the bonded name".
FindsBond == bonded # <<>> ~> address # NoAddr \/ Ended

\* `--address` is documented as "normally auto-detected": the bridge tries
\* every candidate it listed until one connects.
EveryCandidateTried ==
  \A a \in Addrs :
    a \in Elems(addresses) ~>
      (HasConnect /\ Head(queue).addr = a) \/ connected \/ Ended

-----------------------------------------------------------------------------
\* A run of the main loop is a lifetime of the bridge as BridgeLife has it:
\* in particular the file holds the id of the client that is registered, it
\* appears only after the registration and is gone before the client is.

phaseOf ==
  CASE pc = "start" -> "none"
    [] pc \in {"disconnect", "quit", "destroy"} -> "down"
    [] Ended -> "exited"
    [] Running /\ idFile # NoId -> "published"
    [] OTHER -> "up"

Life == INSTANCE BridgeLife
          WITH phase <- phaseOf, held <- (bt = "running" /\ cid # NoId), others <- {}

ImplementsLife == Life!LifeSpec
=============================================================================
