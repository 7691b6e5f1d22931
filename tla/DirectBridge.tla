---------------------------- MODULE DirectBridge ----------------------------
(***************************************************************************)
(* duet5-hogp-bridge-direct.py, the variant of the bridge that publishes   *)
(* nothing and asks Floss for direct connections.  Its handlers are those  *)
(* of module Bridge, line for line; what differs is                        *)
(*   - the answer to a registration and the end of the loop, which touch   *)
(*     no file;                                                            *)
(*   - Floss: a direct connection is an attempt that ends when it succeeds *)
(*     or fails, so that a keyboard which goes away does not come back     *)
(*     unless the retry timer asks for it.                                 *)
(* A run is of one program or of the other, so that what BridgeProps says  *)
(* is checked of both.                                                     *)
(***************************************************************************)
EXTENDS BridgeProps

VARIABLE direct   \* the program that runs is the direct variant

DirectRegistered ==
  /\ NextLine("registered")
  /\ IF Head(lines).ok /\ ~registered
       THEN /\ registered' = TRUE
            /\ queue' = queue \o Options \o FirstConnect
            /\ retryDue' = (retryDue /\ address = NoAddr)
            /\ UNCHANGED pc
       ELSE /\ IF Head(lines).ok THEN UNCHANGED pc ELSE Raise
            /\ UNCHANGED <<registered, queue, retryDue>>
  /\ UNCHANGED <<idFile, addrVars, connVars>>

\* There is nothing to unlink.
LeaveLoop ==
  /\ pc = "unlink"
  /\ pc' = "disconnect"
  /\ UNCHANGED <<quietVars, queue, lines, btClientVars>>

DirectStart == Begin \/ Create \/ Bind

DirectLines ==
  \/ Select \/ NoMoreLines
  \/ OnDevice \/ DirectRegistered \/ OnConnection \/ OnNotification

DirectTail == Setup \/ Mode \/ Retry \/ Send \/ Poll

DirectEnd == LeaveLoop \/ Disconnect \/ Quit \/ Destroy

DirectProcess == DirectStart \/ DirectLines \/ DirectTail \/ DirectEnd

\* The attempt is over with the connection.
DirectLinkUp(a) ==
  /\ Room
  /\ a \in wanted
  /\ link = NoAddr
  /\ link' = a
  /\ wanted' = wanted \ {a}
  /\ Prints(ConnectionLine(a, TRUE))
  /\ UNCHANGED <<btVars, bonded, enabled, ptp>>

DirectExternal ==
  \/ \E id \in ClientIds : RegisterReply(id)
  \/ \E a \in Addrs : DirectLinkUp(a) \/ ConnectFails(a) \/ Bond(a)
  \/ \E h \in Elems(Handles) : Report(h)
  \/ LinkDown
  \/ BtExit

DirectNext ==
  \/ DirectProcess \/ Signal \/ Killed \/ Cooled \/ RetryTick
  \/ DirectExternal /\ UNCHANGED localVars

-----------------------------------------------------------------------------
\* Either of the two programs, from its start to its end.

eitherVars == <<vars, direct>>

EitherInit == Init /\ direct \in BOOLEAN

EitherNext ==
  /\ \/ direct /\ DirectNext
     \/ ~direct /\ Next
  /\ UNCHANGED direct

EitherSpec == EitherInit /\ [][EitherNext]_eitherVars

\* The same scheduling and the same Floss for both.
EitherProcess == IF direct THEN DirectProcess ELSE Process

EitherFairSpec ==
  /\ EitherSpec
  /\ WF_eitherVars(EitherProcess /\ UNCHANGED direct)
  /\ WF_eitherVars(Cooled /\ UNCHANGED direct)
  /\ WF_eitherVars(RetryTick /\ UNCHANGED direct)
  /\ \A id \in ClientIds :
       WF_eitherVars(RegisterReply(id) /\ UNCHANGED <<localVars, direct>>)
=============================================================================
