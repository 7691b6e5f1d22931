------------------------------- MODULE Bridge -------------------------------
(***************************************************************************)
(* One run of duet5-hogp-bridge.py: create the UHID device, start btclient *)
(* (BtClient), then loop over what btclient prints, the queue of commands  *)
(* typed to it and two timers; on a signal or an exception, undo it all.   *)
(*                                                                         *)
(* One line is handled per step, and a step of the loop's tail is a step   *)
(* here: btclient, Floss and the keyboard move between any two.  Times are *)
(* abstracted to "the 0.8 s (the 6 s) are over", true at any moment.       *)
(***************************************************************************)
EXTENDS BtClient

CONSTANT GivenAddrs   \* what --address may be; NoAddr when it is not given

ASSUME GivenAssumption == GivenAddrs \subseteq Addrs \cup {NoAddr}

VARIABLES
  pc,          \* where main is
  stopping,    \* set by the handler of SIGTERM and SIGINT
  address,     \* the candidate in use, or NoAddr
  addresses,   \* the candidates
  index,       \* address_index, counted from 0
  registered, connected,
  setup,       \* notification_setup
  modeSet,     \* mode_set
  queue,       \* command_queue
  lines,       \* what is left of the lines read in this round
  cooldown,    \* next_command_at is still to come
  retryDue,    \* the last connect was more than 6 s ago
  idFile       \* contents of /tmp/duet5-bridge-client-id, or NoId

addrVars == <<address, addresses, index>>
connVars == <<connected, setup, modeSet>>
regVars == <<registered, idFile>>
quietVars == <<stopping, addrVars, connVars, regVars, cooldown, retryDue>>
localVars == <<pc, quietVars, queue, lines>>
vars == <<localVars, btClientVars>>

Running == pc \notin {"start", "done", "killed"}
Ended == pc \in {"done", "killed"}

Init ==
  /\ BtInit
  /\ pc = "start" /\ stopping = FALSE
  /\ address \in GivenAddrs
  /\ addresses = IF address = NoAddr THEN <<>> ELSE <<address>>
  /\ index = 0
  /\ registered = FALSE /\ idFile = NoId
  /\ connected = FALSE /\ setup = FALSE /\ modeSet = FALSE
  /\ queue = <<>> /\ lines = <<>>
  /\ cooldown = FALSE /\ retryDue = TRUE

-----------------------------------------------------------------------------
\* An exception anywhere in the try block, and the end of the loop, lead to
\* the unlinks of the finally block.
Raise == pc' = "unlink"

Begin ==
  /\ pc = "start"
  /\ pc' = "create"
  /\ UNCHANGED <<quietVars, queue, lines, btClientVars>>

\* create_uhid and BtClientPty(); either may raise, outside the try block.
Create ==
  /\ pc = "create"
  /\ \/ pc' = "bind" /\ bt' = "running"
     \/ pc' = "done" /\ UNCHANGED bt
  /\ UNCHANGED <<quietVars, queue, lines,
                 out, cid, regPending, bonded, wanted, linkVars>>

\* After 2 s the device must be bound to hid-multitouch.
Bind ==
  /\ pc = "bind"
  /\ \/ /\ pc' = "select"
        /\ queue' = <<Cmd(IF address = NoAddr THEN "list" ELSE "register")>>
     \/ Raise /\ UNCHANGED queue
  /\ UNCHANGED <<quietVars, lines, btClientVars>>

\* All that btclient has printed is taken in.  When btclient is gone and
\* nothing is left, reading the terminal raises.
Select ==
  /\ pc = "select"
  /\ IF stopping THEN Raise /\ UNCHANGED <<lines, out>>
     ELSE \/ pc' = "line" /\ lines' = out /\ out' = <<>>
          \/ bt = "exited" /\ out = <<>> /\ Raise /\ UNCHANGED <<lines, out>>
  /\ UNCHANGED <<quietVars, queue, btVars, bonded, wanted, linkVars>>

-----------------------------------------------------------------------------
\* One line of output, by the pattern it matches.

NextLine(type) ==
  /\ pc = "line" /\ lines # <<>> /\ Head(lines).type = type
  /\ lines' = Tail(lines)
  /\ UNCHANGED <<stopping, cooldown, btClientVars>>

\* Mutant: every new candidate is registered for.
NewCandidate(a) == a \notin Elems(addresses)

FirstCandidate(a) == address = NoAddr

OnDevice ==
  /\ NextLine("device")
  /\ LET a == Head(lines).addr IN
       /\ addresses' = IF a \in Elems(addresses) THEN addresses
                                                 ELSE Append(addresses, a)
       /\ IF FirstCandidate(a)
            THEN address' = a /\ queue' = Append(queue, Cmd("register"))
            ELSE UNCHANGED <<address, queue>>
  /\ UNCHANGED <<pc, index, connVars, regVars, retryDue>>

\* Typed before the first connect of a registration.
Options == <<Cmd("transport"), Cmd("auth"), Cmd("direct")>>

FirstConnect == IF address = NoAddr THEN <<>> ELSE <<Connect(address)>>

\* A failed registration raises, and so does a failed write of the id file,
\* after `registered` was set.
OnRegistered ==
  /\ NextLine("registered")
  /\ IF Head(lines).ok /\ ~registered
       THEN /\ registered' = TRUE
            /\ \/ /\ idFile' = Head(lines).id
                  /\ queue' = queue \o Options \o FirstConnect
                  /\ retryDue' = (retryDue /\ address = NoAddr)
                  /\ UNCHANGED pc
               \/ Raise /\ UNCHANGED <<idFile, queue, retryDue>>
       ELSE /\ IF Head(lines).ok THEN UNCHANGED pc ELSE Raise
            /\ UNCHANGED <<regVars, queue, retryDue>>
  /\ UNCHANGED <<addrVars, connVars>>

\* The candidate after the one in use becomes the address.
Rotate ==
  /\ index' = (index + 1) % Len(addresses)
  /\ address' = addresses[index' + 1]

\* Mutants: one too high; left behind.
IndexTooHigh(a) == CHOOSE i \in 1..Len(addresses) : addresses[i] = a
IndexStays(a) == index

\* addresses.index(a)
IndexOf(a) == (CHOOSE i \in 1..Len(addresses) : addresses[i] = a) - 1

\* Mutants: a flag of the earlier connection survives.
KeepsSetup == connected' = TRUE /\ modeSet' = FALSE /\ UNCHANGED setup
KeepsMode == connected' = TRUE /\ setup' = FALSE /\ UNCHANGED modeSet

NewConnection == connected' = TRUE /\ setup' = FALSE /\ modeSet' = FALSE

GoesUp(a) == address' = a /\ index' = IndexOf(a) /\ NewConnection

\* Mutant: the loss of the link is not noted.
MissesDown == Rotate /\ UNCHANGED connVars

GoesDown == connected' = FALSE /\ Rotate /\ UNCHANGED <<setup, modeSet>>

OnConnection ==
  /\ NextLine("connection")
  /\ LET a == Head(lines).addr IN
       IF Head(lines).up /\ a \in Elems(addresses) THEN GoesUp(a)
       ELSE IF ~Head(lines).up /\ a = address THEN GoesDown
       ELSE UNCHANGED <<address, index, connVars>>
  /\ UNCHANGED <<pc, addresses, regVars, retryDue, queue>>

\* The report goes to UHID, which may raise, unless it is of another address.
OnNotification ==
  /\ NextLine("notification")
  /\ UNCHANGED pc \/ (Head(lines).addr = address /\ Raise)
  /\ UNCHANGED <<addrVars, connVars, regVars, retryDue, queue>>

NoMoreLines ==
  /\ pc = "line" /\ lines = <<>>
  /\ pc' = "setup"
  /\ UNCHANGED <<quietVars, queue, lines, btClientVars>>

-----------------------------------------------------------------------------
\* The tail of the loop.

\* Mutant: commands of an earlier connection may still be queued.
SetupAtOnce == connected /\ ~setup

SetupDue == connected /\ ~setup /\ queue = <<>>

Setup ==
  /\ pc = "setup"
  /\ pc' = "mode"
  /\ IF SetupDue
       THEN /\ queue' = queue \o [i \in 1..Len(Handles) |-> Notify(address, Handles[i])]
            /\ setup' = TRUE
       ELSE UNCHANGED <<queue, setup>>
  /\ UNCHANGED <<stopping, addrVars, connected, modeSet, regVars, cooldown, retryDue,
                 lines, btClientVars>>

\* gdbus also succeeds when the link was lost a moment ago: the write then
\* has no effect.
Mode ==
  /\ pc = "mode"
  /\ IF connected /\ setup /\ queue = <<>> /\ ~modeSet
       THEN \/ modeSet' = TRUE /\ ptp' = (ptp \/ link = address) /\ pc' = "retry"
            \/ Raise /\ UNCHANGED <<modeSet, ptp>>
       ELSE pc' = "retry" /\ UNCHANGED <<modeSet, ptp>>
  /\ UNCHANGED <<stopping, addrVars, connected, setup, regVars, cooldown, retryDue,
                 queue, lines, out, btVars, bonded, wanted, link, enabled>>

\* Mutant: the timer fires whether connected or not.
RetryAlways == registered /\ addresses # <<>> /\ queue = <<>> /\ retryDue

RetryWanted == registered /\ addresses # <<>> /\ ~connected /\ queue = <<>> /\ retryDue

Retry ==
  /\ pc = "retry"
  /\ pc' = "send"
  /\ IF RetryWanted
       THEN Rotate /\ queue' = Append(queue, Connect(address')) /\ retryDue' = FALSE
       ELSE UNCHANGED <<address, index, queue, retryDue>>
  /\ UNCHANGED <<stopping, addresses, connVars, regVars, cooldown, lines, btClientVars>>

\* The command has left the queue when the write to the terminal raises.
Send ==
  /\ pc = "send"
  /\ IF queue # <<>> /\ ~cooldown
       THEN /\ queue' = Tail(queue)
            /\ \/ Type(Head(queue)) /\ cooldown' = TRUE /\ pc' = "poll"
               \/ Raise /\ UNCHANGED <<btClientVars, cooldown>>
       ELSE pc' = "poll" /\ UNCHANGED <<btClientVars, queue, cooldown>>
  /\ UNCHANGED <<stopping, addrVars, connVars, regVars, retryDue, lines>>

Poll ==
  /\ pc = "poll"
  /\ IF bt = "exited" THEN Raise ELSE pc' = "select"
  /\ UNCHANGED <<quietVars, queue, lines, btClientVars>>

-----------------------------------------------------------------------------
\* The end.

\* Mutant: the file outlives an orderly stop.
UnlinkForgotten ==
  /\ pc = "unlink"
  /\ pc' = "disconnect"
  /\ UNCHANGED <<quietVars, queue, lines, btClientVars>>

Unlink ==
  /\ pc = "unlink"
  /\ pc' = "disconnect"
  /\ idFile' = NoId
  /\ UNCHANGED <<stopping, addrVars, connVars, registered, cooldown, retryDue, queue,
                 lines, btClientVars>>

\* A failure to type it is swallowed.
Disconnect ==
  /\ pc = "disconnect"
  /\ pc' = "quit"
  /\ IF address # NoAddr /\ registered
       THEN Type([Connect(address) EXCEPT !.op = "disconnect"]) \/ UNCHANGED btClientVars
       ELSE UNCHANGED btClientVars
  /\ UNCHANGED <<quietVars, queue, lines>>

\* "quit", and at most 3 s for it; a btclient that is still there is sent
\* SIGTERM and not waited for.
\* Mutant: btclient is waited for without a limit.
QuitWaits ==
  /\ pc = "quit"
  /\ bt = "exited"
  /\ pc' = "destroy"
  /\ UNCHANGED <<quietVars, queue, lines, btClientVars>>

Quit ==
  /\ pc = "quit"
  /\ pc' = "destroy"
  /\ BtGone \/ UNCHANGED btClientVars
  /\ UNCHANGED <<quietVars, queue, lines>>

\* UHID_DESTROY.
Destroy ==
  /\ pc = "destroy"
  /\ pc' = "done"
  /\ UNCHANGED <<quietVars, queue, lines, btClientVars>>

Process ==
  \/ Begin \/ Create \/ Bind \/ Select
  \/ OnDevice \/ OnRegistered \/ OnConnection \/ OnNotification \/ NoMoreLines
  \/ Setup \/ Mode \/ Retry \/ Send \/ Poll
  \/ Unlink \/ Disconnect \/ Quit \/ Destroy

\* SIGTERM and SIGINT only set the flag.
Signal ==
  /\ Running /\ ~stopping
  /\ stopping' = TRUE
  /\ UNCHANGED <<pc, addrVars, connVars, regVars, cooldown, retryDue, queue, lines,
                 btClientVars>>

Killed ==
  /\ Running
  /\ pc' = "killed"
  /\ UNCHANGED <<quietVars, queue, lines, btClientVars>>

Cooled ==
  /\ Running /\ cooldown
  /\ cooldown' = FALSE
  /\ UNCHANGED <<pc, stopping, addrVars, connVars, regVars, retryDue, queue, lines,
                 btClientVars>>

RetryTick ==
  /\ Running /\ ~retryDue
  /\ retryDue' = TRUE
  /\ UNCHANGED <<pc, stopping, addrVars, connVars, regVars, cooldown, queue, lines,
                 btClientVars>>

Next ==
  \/ Process \/ Signal \/ Killed \/ Cooled \/ RetryTick
  \/ External /\ UNCHANGED localVars

Spec == Init /\ [][Next]_vars

\* The interpreter runs, time passes, and Floss answers a registration.
Fairness ==
  /\ WF_vars(Process)
  /\ WF_vars(Cooled)
  /\ WF_vars(RetryTick)
  /\ \A id \in ClientIds : WF_vars(RegisterReply(id) /\ UNCHANGED localVars)

FairSpec == Spec /\ Fairness
=============================================================================
