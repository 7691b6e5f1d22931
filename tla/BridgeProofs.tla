---------------------------- MODULE BridgeProofs ----------------------------
(***************************************************************************)
(* Proofs about the main loop of the bridge, in both variants and for any  *)
(* number of addresses, handles and client ids: the candidate index and    *)
(* the address name the same candidate, one GATT client is registered per  *)
(* run, and the queue of commands stays short.                             *)
(***************************************************************************)
EXTENDS DirectBridge, FiniteSetTheorems, TLAPS

\* What btclient prints and what is typed to it.  Only the addresses of device
\* and connection lines, and of connect commands, are told apart from none.
DeviceLines == {DeviceLine(a) : a \in Addrs}
RegisteredLines == {RegisteredLine(ok, id) : ok \in BOOLEAN, id \in ClientIds}
ConnectionLines == {ConnectionLine(a, up) : a \in Addrs, up \in BOOLEAN}
NotificationLines ==
  {NotificationLine(a, h) : a \in Addrs \cup {NoAddr}, h \in Elems(Handles)}
SomeLines == DeviceLines \cup RegisteredLines \cup ConnectionLines \cup NotificationLines

PlainCommands == {Cmd(op) : op \in {"list", "register", "transport", "auth", "direct"}}
ConnectCommands == {Connect(a) : a \in Addrs}
NotifyCommands == {Notify(a, h) : a \in Addrs \cup {NoAddr}, h \in Elems(Handles)}
SomeCommands == PlainCommands \cup ConnectCommands \cup NotifyCommands

LEMMA LineFacts ==
  /\ \A a \in Addrs : DeviceLine(a) \in SomeLines
  /\ \A ok \in BOOLEAN, id \in ClientIds : RegisteredLine(ok, id) \in SomeLines
  /\ \A a \in Addrs, up \in BOOLEAN : ConnectionLine(a, up) \in SomeLines
  /\ \A a \in Addrs \cup {NoAddr}, h \in Elems(Handles) :
       NotificationLine(a, h) \in SomeLines
  /\ \A l \in SomeLines : l.type \in {"device", "connection"} => l.addr \in Addrs
<1>1. \A a \in Addrs : DeviceLine(a) \in SomeLines
  BY DEF SomeLines, DeviceLines
<1>2. \A ok \in BOOLEAN, id \in ClientIds : RegisteredLine(ok, id) \in SomeLines
  BY DEF SomeLines, RegisteredLines
<1>3. \A a \in Addrs, up \in BOOLEAN : ConnectionLine(a, up) \in SomeLines
  BY DEF SomeLines, ConnectionLines
<1>4. \A a \in Addrs \cup {NoAddr}, h \in Elems(Handles) :
        NotificationLine(a, h) \in SomeLines
  BY DEF SomeLines, NotificationLines
<1>5. ASSUME NEW l \in SomeLines, l.type \in {"device", "connection"}
      PROVE  l.addr \in Addrs
  <2>1. CASE l \in DeviceLines
    BY <2>1 DEF DeviceLines, DeviceLine
  <2>2. CASE l \in RegisteredLines
    BY <1>5, <2>2 DEF RegisteredLines, RegisteredLine
  <2>3. CASE l \in ConnectionLines
    BY <2>3 DEF ConnectionLines, ConnectionLine
  <2>4. CASE l \in NotificationLines
    BY <1>5, <2>4 DEF NotificationLines, NotificationLine
  <2> QED
    BY <2>1, <2>2, <2>3, <2>4 DEF SomeLines
<1> QED
  BY <1>1, <1>2, <1>3, <1>4, <1>5

LEMMA LineIds == \A l \in SomeLines : l.type = "registered" => l.id \in ClientIds
<1> SUFFICES ASSUME NEW l \in SomeLines, l.type = "registered" PROVE l.id \in ClientIds
  OBVIOUS
<1>1. CASE l \in DeviceLines
  BY <1>1 DEF DeviceLines, DeviceLine
<1>2. CASE l \in RegisteredLines
  BY <1>2 DEF RegisteredLines, RegisteredLine
<1>3. CASE l \in ConnectionLines
  BY <1>3 DEF ConnectionLines, ConnectionLine
<1>4. CASE l \in NotificationLines
  BY <1>4 DEF NotificationLines, NotificationLine
<1> QED
  BY <1>1, <1>2, <1>3, <1>4 DEF SomeLines

LEMMA CommandFacts ==
  /\ \A op \in {"list", "register", "transport", "auth", "direct"} :
       Cmd(op) \in SomeCommands
  /\ \A a \in Addrs : Connect(a) \in SomeCommands
  /\ \A a \in Addrs \cup {NoAddr}, h \in Elems(Handles) : Notify(a, h) \in SomeCommands
  /\ \A c \in SomeCommands : c.op = "connect" => c.addr \in Addrs
<1>1. \A op \in {"list", "register", "transport", "auth", "direct"} :
        Cmd(op) \in SomeCommands
  BY DEF SomeCommands, PlainCommands
<1>2. \A a \in Addrs : Connect(a) \in SomeCommands
  BY DEF SomeCommands, ConnectCommands
<1>3. \A a \in Addrs \cup {NoAddr}, h \in Elems(Handles) : Notify(a, h) \in SomeCommands
  BY DEF SomeCommands, NotifyCommands
<1>4. ASSUME NEW c \in SomeCommands, c.op = "connect"
      PROVE  c.addr \in Addrs
  <2>1. CASE c \in PlainCommands
    BY <1>4, <2>1 DEF PlainCommands, Cmd
  <2>2. CASE c \in ConnectCommands
    BY <2>2 DEF ConnectCommands, Connect
  <2>3. CASE c \in NotifyCommands
    BY <1>4, <2>3 DEF NotifyCommands, Notify
  <2> QED
    BY <2>1, <2>2, <2>3 DEF SomeCommands
<1> QED
  BY <1>1, <1>2, <1>3, <1>4

LEMMA SeqFacts ==
  ASSUME NEW S, NEW s \in Seq(S)
  PROVE  /\ \A x \in S : Append(s, x) \in Seq(S)
         /\ \A t \in Seq(S) : s \o t \in Seq(S) /\ Len(s \o t) = Len(s) + Len(t)
         /\ s # <<>> => Tail(s) \in Seq(S) /\ Head(s) \in S
OBVIOUS

LEMMA FunctionIsSeq ==
  ASSUME NEW S, NEW n \in Nat, NEW f \in [1..n -> S] PROVE f \in Seq(S)
OBVIOUS

-----------------------------------------------------------------------------
\* What passes between the bridge and btclient.
TalkInv ==
  /\ out \in Seq(SomeLines) /\ lines \in Seq(SomeLines)
  /\ queue \in Seq(SomeCommands)
  /\ bonded \in Seq(Addrs)
  /\ link \in Addrs \cup {NoAddr}

\* The candidates: none and no address, or the one at the index.
CandidateInv ==
  /\ addresses \in Seq(Addrs)
  /\ address \in Addrs \cup {NoAddr}
  /\ addresses = <<>> => address = NoAddr /\ index = 0
  /\ addresses # <<>> => /\ index \in 0..(Len(addresses) - 1)
                         /\ address = addresses[index + 1]

\* The next candidate is one, whatever is the number of them.
LEMMA RotateKeeps ==
  ASSUME CandidateInv, addresses # <<>>, Rotate, addresses' = addresses
  PROVE  CandidateInv' /\ address' \in Addrs
<1>1. Len(addresses) \in Nat \ {0} /\ index \in Nat
  BY DEF CandidateInv
<1>2. index' \in 0..(Len(addresses) - 1)
  BY <1>1 DEF Rotate
<1> QED
  BY <1>2 DEF Rotate, CandidateInv

LEMMA DeviceStep == TalkInv /\ CandidateInv /\ OnDevice => TalkInv' /\ CandidateInv'
<1> SUFFICES ASSUME TalkInv, CandidateInv, OnDevice PROVE TalkInv' /\ CandidateInv'
  OBVIOUS
<1> DEFINE a == Head(lines).addr
<1>1. /\ lines # <<>> /\ Head(lines).type = "device" /\ lines' = Tail(lines)
      /\ UNCHANGED <<out, bonded, link, index>>
    BY DEF OnDevice, NextLine, btClientVars, linkVars
<1>2. lines' \in Seq(SomeLines) /\ Head(lines) \in SomeLines
  BY <1>1 DEF TalkInv
<1>3. a \in Addrs
  BY <1>1, <1>2, LineFacts
<1>4. addresses' = IF a \in Elems(addresses) THEN addresses ELSE Append(addresses, a)
  BY DEF OnDevice
<1>5. IF address = NoAddr THEN address' = a /\ queue' = Append(queue, Cmd("register"))
                          ELSE UNCHANGED <<address, queue>>
  BY DEF OnDevice, FirstCandidate
<1>6. queue' \in Seq(SomeCommands)
  <2>1. Cmd("register") \in SomeCommands
    BY CommandFacts
  <2> QED
    BY <1>5, <2>1, SeqFacts DEF TalkInv
<1>7. CandidateInv'
  <2>1. CASE addresses = <<>>
    <3>1. address = NoAddr /\ index = 0 /\ a \notin Elems(addresses)
      BY <2>1 DEF CandidateInv, Elems
    <3> HIDE DEF a
    <3>2. addresses' = <<a>> /\ address' = a /\ index' = 0
      BY <1>1, <1>4, <1>5, <2>1, <3>1
    <3> QED
      BY <1>3, <3>2 DEF CandidateInv
  <2>2. CASE addresses # <<>>
    <3>1. address \in Addrs /\ index \in 0..(Len(addresses) - 1) /\ Len(addresses) \in Nat
      BY <2>2 DEF CandidateInv
    <3>2. address' = address /\ index' = index
      BY <1>1, <1>5, <3>1, BtAssumption
    <3> HIDE DEF a
    <3>3. /\ addresses' \in Seq(Addrs) /\ Len(addresses') >= Len(addresses)
          /\ Len(addresses') \in Nat
          /\ \A i \in 1..Len(addresses) : addresses'[i] = addresses[i]
      BY <1>3, <1>4 DEF CandidateInv
    <3> QED
      BY <2>2, <3>1, <3>2, <3>3 DEF CandidateInv
  <2> QED
    BY <2>1, <2>2
<1> QED
  BY <1>1, <1>2, <1>6, <1>7 DEF TalkInv

LEMMA ConnectionStep == TalkInv /\ CandidateInv /\ OnConnection => TalkInv' /\ CandidateInv'
<1> SUFFICES ASSUME TalkInv, CandidateInv, OnConnection PROVE TalkInv' /\ CandidateInv'
  OBVIOUS
<1>0. TalkInv'
  BY SeqFacts DEF OnConnection, NextLine, btClientVars, linkVars, TalkInv
<1> SUFFICES CandidateInv'
  BY <1>0
<1> DEFINE a == Head(lines).addr
<1>1. lines # <<>> /\ Head(lines).type = "connection" /\ addresses' = addresses
    BY DEF OnConnection, NextLine
<1>2. Head(lines) \in SomeLines
  BY <1>1 DEF TalkInv
<1>3. a \in Addrs
  BY <1>1, <1>2, LineFacts
<1>4. CASE a \in Elems(addresses) /\ GoesUp(a)
  <2>1. \E i \in 1..Len(addresses) : addresses[i] = a
    BY <1>4 DEF Elems
  <2>2. PICK i \in 1..Len(addresses) : addresses[i] = a /\ index' = i - 1
    BY <1>4, <2>1 DEF GoesUp, IndexOf
  <2>3. address' = a
    BY <1>4 DEF GoesUp
  <2>4. Len(addresses) \in Nat
    BY DEF CandidateInv
  <2> HIDE DEF a
  <2>5. index' \in 0..(Len(addresses) - 1) /\ index' + 1 = i /\ addresses # <<>>
    BY <2>2, <2>4
  <2> QED
    BY <1>1, <1>3, <2>2, <2>3, <2>5 DEF CandidateInv
<1>5. CASE a = address /\ GoesDown
  <2>1. addresses # <<>>
    BY <1>3, <1>5, BtAssumption DEF CandidateInv
  <2> QED
    BY <1>1, <1>5, <2>1, RotateKeeps DEF GoesDown
<1>6. CASE UNCHANGED <<address, index>>
  BY <1>1, <1>6 DEF CandidateInv
<1> QED
  BY <1>4, <1>5, <1>6 DEF OnConnection, connVars

-----------------------------------------------------------------------------
\* A command that is typed prints lines of the bonded and of the linked one.
LEMMA TypeKeeps ==
  ASSUME NEW c, c.op = "connect" => c.addr \in Addrs,
         out \in Seq(SomeLines), bonded \in Seq(Addrs), link \in Addrs \cup {NoAddr},
         Type(c)
  PROVE  /\ out' \in Seq(SomeLines) /\ bonded' \in Seq(Addrs)
         /\ link' \in Addrs \cup {NoAddr}
<1>1. CASE UNCHANGED btClientVars
  BY <1>1 DEF btClientVars, linkVars
<1>2. CASE Executes(c)
  <2>1. bonded' = bonded /\ link' \in {link, NoAddr}
    BY <1>2 DEF Executes, NoLink
  <2> DEFINE more == [i \in 1..Len(bonded) |-> DeviceLine(bonded[i])]
  <2>2. more \in Seq(SomeLines)
    <3>1. Len(bonded) \in Nat /\ \A i \in 1..Len(bonded) : bonded[i] \in Addrs
      OBVIOUS
    <3>2. more \in [1..Len(bonded) -> SomeLines]
      BY <3>1, LineFacts
    <3> HIDE DEF more
    <3> QED
      BY <3>1, <3>2, FunctionIsSeq
  <2>3. \/ out' = out \o more
        \/ c.op = "connect" /\ out' = Append(out, ConnectionLine(c.addr, TRUE))
        \/ out' = out
    BY <1>2 DEF Executes
  <2>4. c.op = "connect" => ConnectionLine(c.addr, TRUE) \in SomeLines
    BY LineFacts
  <2> HIDE DEF more
  <2>5. out' \in Seq(SomeLines)
    BY <2>2, <2>3, <2>4, SeqFacts
  <2> QED
    BY <2>1, <2>5
<1> QED
  BY <1>1, <1>2 DEF Type

\* What happens at btclient on its own, for either Floss.
LEMMA ExternalKeeps ==
  ASSUME TalkInv, External \/ DirectExternal, UNCHANGED localVars
  PROVE  TalkInv'
<1>1. UNCHANGED <<lines, queue>>
  BY DEF localVars
<1>2. ASSUME NEW l \in SomeLines, Prints(l) PROVE out' \in Seq(SomeLines)
  BY <1>2 DEF Prints, TalkInv
<1> USE DEF btVars, linkVars
<1>3. ASSUME NEW id \in ClientIds, RegisterReply(id) PROVE TalkInv'
  BY <1>1, <1>2, <1>3, LineFacts DEF RegisterReply, TalkInv
<1>4. ASSUME NEW b \in Addrs, LinkUp(b) \/ DirectLinkUp(b) PROVE TalkInv'
  BY <1>1, <1>2, <1>4, LineFacts DEF LinkUp, DirectLinkUp, TalkInv
<1>5. ASSUME NEW b \in Addrs, ConnectFails(b) PROVE TalkInv'
  BY <1>1, <1>2, <1>5, LineFacts DEF ConnectFails, TalkInv
<1>6. ASSUME NEW b \in Addrs, Bond(b) PROVE TalkInv'
  BY <1>1, <1>6 DEF Bond, TalkInv
<1>7. ASSUME NEW h \in Elems(Handles), Report(h) PROVE TalkInv'
  BY <1>1, <1>2, <1>7, LineFacts DEF Report, TalkInv
<1>8. CASE LinkDown
  BY <1>1, <1>2, <1>8, LineFacts DEF LinkDown, NoLink, TalkInv
<1>9. CASE BtExit
  BY <1>1, <1>9 DEF BtExit, BtGone, NoLink, TalkInv
<1> QED
  BY <1>3, <1>4, <1>5, <1>6, <1>7, <1>8, <1>9 DEF External, DirectExternal

\* The lines that change no candidate.
LEMMA OtherLines ==
  ASSUME TalkInv, CandidateInv, OnRegistered \/ DirectRegistered \/ OnNotification
  PROVE  TalkInv' /\ CandidateInv'
<1>1. /\ lines # <<>> /\ lines' = Tail(lines)
      /\ UNCHANGED <<out, bonded, link, address, addresses, index>>
  BY DEF OnRegistered, DirectRegistered, OnNotification, NextLine, btClientVars,
     linkVars, addrVars
<1>2. lines' \in Seq(SomeLines)
  BY <1>1 DEF TalkInv
<1>3. Options \in Seq(SomeCommands) /\ FirstConnect \in Seq(SomeCommands)
  <2>1. Options \in Seq(SomeCommands)
    BY CommandFacts DEF Options
  <2>2. address # NoAddr => Connect(address) \in SomeCommands
    BY CommandFacts DEF CandidateInv
  <2>3. FirstConnect \in Seq(SomeCommands)
    BY <2>2 DEF FirstConnect
  <2> QED
    BY <2>1, <2>3
<1>4. queue' = queue \/ queue' = queue \o Options \o FirstConnect
  BY DEF OnRegistered, DirectRegistered, OnNotification
<1>5. queue' \in Seq(SomeCommands)
  <2>1. queue \in Seq(SomeCommands)
    BY DEF TalkInv
  <2>2. queue \o Options \in Seq(SomeCommands)
    BY <1>3, <2>1, SeqFacts
  <2>3. (queue \o Options) \o FirstConnect \in Seq(SomeCommands)
    BY <1>3, <2>2, SeqFacts
  <2> QED
    BY <1>4, <2>1, <2>3
<1> QED
  BY <1>1, <1>2, <1>5 DEF TalkInv, CandidateInv

-----------------------------------------------------------------------------
\* The steps of a round that are neither a line nor a command, and the end.
LEMMA PlainSteps ==
  ASSUME TalkInv, CandidateInv,
         \/ Begin \/ Create \/ NoMoreLines \/ Mode \/ Poll \/ Unlink \/ LeaveLoop
         \/ Destroy \/ Signal \/ Killed \/ Cooled \/ RetryTick \/ Quit
  PROVE  TalkInv' /\ CandidateInv'
<1>1. UNCHANGED <<out, lines, queue, bonded, address, addresses, index>>
      /\ link' \in {link, NoAddr}
  BY DEF Begin, Create, NoMoreLines, Mode, Poll, Unlink, LeaveLoop, Destroy, Signal,
     Killed, Cooled, RetryTick, Quit, BtGone, NoLink, quietVars, addrVars,
     btClientVars, linkVars
<1> QED
  BY <1>1 DEF TalkInv, CandidateInv

LEMMA BindAndSelect ==
  ASSUME TalkInv, CandidateInv, Bind \/ Select
  PROVE  TalkInv' /\ CandidateInv'
<1>1. UNCHANGED <<bonded, link, address, addresses, index>>
  BY DEF Bind, Select, quietVars, addrVars, btClientVars, linkVars
<1>2. CASE Bind
  <2>1. \A op \in {"list", "register"} : <<Cmd(op)>> \in Seq(SomeCommands)
    BY CommandFacts
  <2>2. UNCHANGED <<out, lines>> /\ queue' \in Seq(SomeCommands)
    BY <1>2, <2>1 DEF Bind, btClientVars, TalkInv
  <2> QED
    BY <1>1, <2>2 DEF TalkInv, CandidateInv
<1>3. CASE Select
  <2>1. /\ queue' = queue
        /\ \/ lines' = out /\ out' = <<>>
           \/ UNCHANGED <<lines, out>>
    BY <1>3 DEF Select, Raise
  <2>2. out' \in Seq(SomeLines) /\ lines' \in Seq(SomeLines)
    <3>1. /\ out \in Seq(SomeLines) /\ lines \in Seq(SomeLines)
          /\ <<>> \in Seq(SomeLines)
      BY DEF TalkInv
    <3> QED
      BY <2>1, <3>1
  <2>3. TalkInv'
    BY <1>1, <2>1, <2>2 DEF TalkInv
  <2> QED
    BY <1>1, <2>3 DEF CandidateInv
<1> QED
  BY <1>2, <1>3

LEMMA SetupStep == TalkInv /\ CandidateInv /\ Setup => TalkInv' /\ CandidateInv'
<1> SUFFICES ASSUME TalkInv, CandidateInv, Setup PROVE TalkInv' /\ CandidateInv'
  OBVIOUS
<1> DEFINE more == [i \in 1..Len(Handles) |-> Notify(address, Handles[i])]
<1>1. /\ UNCHANGED <<out, lines, bonded, link, address, addresses, index>>
      /\ queue' \in {queue, queue \o more}
  BY DEF Setup, addrVars, btClientVars, linkVars
<1>2. more \in Seq(SomeCommands)
  <2>1. Len(Handles) \in Nat /\ \A i \in 1..Len(Handles) : Handles[i] \in Elems(Handles)
    BY BtAssumption DEF Elems
  <2>2. more \in [1..Len(Handles) -> SomeCommands]
    BY <2>1, CommandFacts DEF CandidateInv
  <2> HIDE DEF more
  <2> QED
    BY <2>1, <2>2, FunctionIsSeq
<1> HIDE DEF more
<1>3. queue' \in Seq(SomeCommands)
  BY <1>1, <1>2, SeqFacts DEF TalkInv
<1> QED
  BY <1>1, <1>3 DEF TalkInv, CandidateInv

LEMMA RetryStep == TalkInv /\ CandidateInv /\ Retry => TalkInv' /\ CandidateInv'
<1> SUFFICES ASSUME TalkInv, CandidateInv, Retry PROVE TalkInv' /\ CandidateInv'
  OBVIOUS
<1>1. UNCHANGED <<out, lines, bonded, link, addresses>>
  BY DEF Retry, btClientVars, linkVars
<1>2. CASE RetryWanted
  <2>1. /\ addresses # <<>> /\ Rotate
        /\ queue' = Append(queue, Connect(address'))
    BY <1>2 DEF Retry, RetryWanted
  <2>2. CandidateInv' /\ address' \in Addrs
    BY <1>1, <2>1, RotateKeeps
  <2>3. Connect(address') \in SomeCommands
    BY <2>2, CommandFacts
  <2>4. queue' \in Seq(SomeCommands)
    BY <2>1, <2>3, SeqFacts DEF TalkInv
  <2> QED
    BY <1>1, <2>2, <2>4 DEF TalkInv
<1>3. CASE UNCHANGED <<address, index, queue>>
  BY <1>1, <1>3 DEF TalkInv, CandidateInv
<1> QED
  BY <1>2, <1>3 DEF Retry

LEMMA SendStep == TalkInv /\ CandidateInv /\ Send => TalkInv' /\ CandidateInv'
<1> SUFFICES ASSUME TalkInv, CandidateInv, Send PROVE TalkInv' /\ CandidateInv'
  OBVIOUS
<1>1. UNCHANGED <<lines, address, addresses, index>>
  BY DEF Send, addrVars
<1>2. CASE queue # <<>> /\ Type(Head(queue)) /\ queue' = Tail(queue)
  <2>1. Head(queue) \in SomeCommands /\ queue' \in Seq(SomeCommands)
    BY <1>2, SeqFacts DEF TalkInv
  <2>2. Head(queue).op = "connect" => Head(queue).addr \in Addrs
    BY <2>1, CommandFacts
  <2>3. /\ out' \in Seq(SomeLines) /\ bonded' \in Seq(Addrs)
        /\ link' \in Addrs \cup {NoAddr}
    BY <1>2, <2>2, TypeKeeps DEF TalkInv
  <2> QED
    BY <1>1, <2>1, <2>3 DEF TalkInv, CandidateInv
<1>3. CASE UNCHANGED <<btClientVars, queue>>
  BY <1>1, <1>3 DEF btClientVars, linkVars, TalkInv, CandidateInv
<1>4. CASE queue # <<>> /\ queue' = Tail(queue) /\ UNCHANGED btClientVars
  <2>1. queue' \in Seq(SomeCommands)
    BY <1>4, SeqFacts DEF TalkInv
  <2> QED
    BY <1>1, <1>4, <2>1 DEF btClientVars, linkVars, TalkInv, CandidateInv
<1> QED
  BY <1>2, <1>3, <1>4 DEF Send

LEMMA DisconnectStep ==
  TalkInv /\ CandidateInv /\ Disconnect => TalkInv' /\ CandidateInv'
<1> SUFFICES ASSUME TalkInv, CandidateInv, Disconnect PROVE TalkInv' /\ CandidateInv'
  OBVIOUS
<1> DEFINE c == [Connect(address) EXCEPT !.op = "disconnect"]
<1>1. UNCHANGED <<lines, queue, address, addresses, index>>
  BY DEF Disconnect, quietVars, addrVars
<1>2. c.op # "connect"
  BY DEF Connect
<1>3. CASE Type(c)
  <2> HIDE DEF c
  <2>1. /\ out' \in Seq(SomeLines) /\ bonded' \in Seq(Addrs)
        /\ link' \in Addrs \cup {NoAddr}
    BY <1>2, <1>3, TypeKeeps DEF TalkInv
  <2> QED
    BY <1>1, <2>1 DEF TalkInv, CandidateInv
<1>4. CASE UNCHANGED btClientVars
  BY <1>1, <1>4 DEF btClientVars, linkVars, TalkInv, CandidateInv
<1> QED
  BY <1>3, <1>4 DEF Disconnect

-----------------------------------------------------------------------------
LEMMA Initially == EitherInit => TalkInv /\ CandidateInv
<1> SUFFICES ASSUME EitherInit PROVE TalkInv /\ CandidateInv
  OBVIOUS
<1>1. TalkInv
  BY BtAssumption DEF EitherInit, Init, BtInit, TalkInv
<1>2. CandidateInv
  <2>1. CASE address = NoAddr
    BY <2>1 DEF EitherInit, Init, CandidateInv
  <2>2. CASE address # NoAddr
    <3>1. address \in Addrs /\ addresses = <<address>> /\ index = 0
      BY <2>2, GivenAssumption DEF EitherInit, Init
    <3> QED
      BY <3>1 DEF CandidateInv
  <2> QED
    BY <2>1, <2>2
<1> QED
  BY <1>1, <1>2

\* Every step of either program keeps both.
LEMMA EitherStep ==
  TalkInv /\ CandidateInv /\ [EitherNext]_eitherVars => TalkInv' /\ CandidateInv'
<1> SUFFICES ASSUME TalkInv, CandidateInv, [EitherNext]_eitherVars
             PROVE  TalkInv' /\ CandidateInv'
  OBVIOUS
<1>1. CASE \/ Process \/ DirectProcess
           \/ Signal \/ Killed \/ Cooled \/ RetryTick
  BY <1>1, PlainSteps, BindAndSelect, DeviceStep, OtherLines, ConnectionStep, SetupStep,
     RetryStep, SendStep, DisconnectStep
     DEF Process, DirectProcess, DirectStart, DirectLines, DirectTail, DirectEnd
<1>2. CASE (External \/ DirectExternal) /\ UNCHANGED localVars
  <2>1. TalkInv'
    BY <1>2, ExternalKeeps
  <2> QED
    BY <1>2, <2>1 DEF localVars, quietVars, addrVars, CandidateInv
<1>3. CASE UNCHANGED eitherVars
  BY <1>3 DEF eitherVars, vars, localVars, quietVars, addrVars, btClientVars, linkVars,
     TalkInv, CandidateInv
<1> QED
  BY <1>1, <1>2, <1>3 DEF EitherNext, Next, DirectNext

\* address and address_index name the same candidate in every run of either
\* program: the list line, the connection lines and the retry timer never
\* move one without the other.
THEOREM OneCandidate == EitherSpec => []IndexAligned
<1>1. TalkInv /\ CandidateInv => IndexAligned
  BY DEF CandidateInv, IndexAligned
<1> QED
  BY <1>1, Initially, EitherStep, PTL DEF EitherSpec

-----------------------------------------------------------------------------
\* One registration, and a queue that stays short.  Before it is registered
\* the bridge asks for nothing but the list and one registration, and no
\* connection exists; afterwards it never asks again.

Has(s, type) == \E i \in 1..Len(s) : s[i].type = type

Early == {"start", "create", "bind"}

\* A registration was asked for: it is on its way, or was answered.
Asked == regPending \/ cid # NoId \/ Has(out, "registered") \/ Has(lines, "registered")

AsksNoMore(q) == \A i \in 1..Len(q) : q[i].op # "register"

FirstQueue(q) ==
  /\ Len(q) <= 2
  /\ \A i \in 1..Len(q) : q[i].op \in {"list", "register"}
  /\ \A i \in 1..Len(q) : q[i].op = "register" => i = Len(q)

Before ==
  /\ FirstQueue(queue)
  /\ Asked => queue = <<>> /\ address # NoAddr
  /\ address = NoAddr => Len(queue) <= 1 /\ AsksNoMore(queue)
  /\ pc \in Early => queue = <<>> /\ ~Asked
  /\ wanted = {} /\ link = NoAddr /\ connected = FALSE
  /\ ~Has(out, "connection") /\ ~Has(lines, "connection")

After ==
  /\ address # NoAddr
  /\ pc \notin Early
  /\ AsksNoMore(queue)
  /\ QueueBound

RegInv ==
  /\ regPending => cid = NoId
  /\ registered => After
  /\ ~registered => Before

LEMMA HasFacts ==
  ASSUME NEW S, NEW s \in Seq(S), NEW type
  PROVE  /\ ~Has(<<>>, type)
         /\ s # <<>> /\ Has(Tail(s), type) => Has(s, type)
         /\ \A x \in S : Has(Append(s, x), type) => Has(s, type) \/ x.type = type
         /\ \A t \in Seq(S) : Has(s \o t, type) => Has(s, type) \/ Has(t, type)
         /\ s # <<>> => Has(s, Head(s).type)
BY DEF Has

LEMMA AskFacts ==
  ASSUME NEW S, NEW q \in Seq(S), AsksNoMore(q)
  PROVE  /\ q # <<>> => AsksNoMore(Tail(q)) /\ Head(q).op # "register"
         /\ \A x \in S : x.op # "register" => AsksNoMore(Append(q, x))
         /\ \A t \in Seq(S) : AsksNoMore(t) => AsksNoMore(q \o t)
BY DEF AsksNoMore

LEMMA ThreePieces ==
  ASSUME NEW S, NEW s \in Seq(S), NEW t \in Seq(S), NEW u \in Seq(S),
         AsksNoMore(s), AsksNoMore(t), AsksNoMore(u)
  PROVE  /\ Len((s \o t) \o u) = Len(s) + Len(t) + Len(u)
         /\ AsksNoMore((s \o t) \o u)
<1>1. s \o t \in Seq(S) /\ AsksNoMore(s \o t)
  BY AskFacts
<1>2. Len(s \o t) = Len(s) + Len(t)
  OBVIOUS
<1>3. \A v \in Seq(S) : Len(v \o u) = Len(v) + Len(u)
  OBVIOUS
<1>4. Len((s \o t) \o u) = Len(s \o t) + Len(u)
  BY <1>1, <1>3, Zenon
<1>5. AsksNoMore((s \o t) \o u)
  BY <1>1, AskFacts
<1>6. Len((s \o t) \o u) = Len(s) + Len(t) + Len(u)
  BY <1>2, <1>4
<1> QED
  BY <1>5, <1>6

LEMMA FirstQueueGrows ==
  ASSUME NEW S, NEW q \in Seq(S), FirstQueue(q), Len(q) <= 1, AsksNoMore(q),
         NEW x \in S, x.op = "register"
  PROVE  FirstQueue(Append(q, x))
BY DEF FirstQueue, AsksNoMore

LEMMA FirstQueueShrinks ==
  ASSUME NEW S, NEW q \in Seq(S), FirstQueue(q), q # <<>>
  PROVE  /\ FirstQueue(Tail(q)) /\ Len(Tail(q)) <= 1
         /\ Head(q).op \in {"list", "register"}
         /\ Head(q).op = "register" => Tail(q) = <<>>
BY DEF FirstQueue

LEMMA FirstQueueBound == Before /\ queue \in Seq(SomeCommands) => QueueBound
BY BtAssumption DEF Before, FirstQueue, QueueBound

\* What changes neither the registration, nor the candidate, nor the queue.
LEMMA RegFrame ==
  ASSUME RegInv, UNCHANGED <<registered, queue, address, cid>>,
         pc' \in Early => pc \in Early,
         regPending' = regPending \/ regPending' = FALSE,
         wanted' \subseteq wanted, link' \in {link, NoAddr}, connected' = connected,
         \A type : Has(out', type) \/ Has(lines', type) => Has(out, type) \/ Has(lines, type)
  PROVE  RegInv'
<1>0. regPending' => cid' = NoId
  BY DEF RegInv
<1>1. Asked' => Asked
  BY DEF Asked, RegInv, Has
<1>2. CASE registered
  <2>1. After
    BY <1>2 DEF RegInv
  <2>2. AsksNoMore(queue)'
    BY <2>1 DEF After, AsksNoMore
  <2>3. QueueBound'
    BY <2>1 DEF After, QueueBound
  <2>4. After'
    BY <2>1, <2>2, <2>3 DEF After, Early
  <2> QED
    BY <1>0, <1>2, <2>4 DEF RegInv
<1>3. CASE ~registered
  <2>1. ~Has(out, "connection")' /\ ~Has(lines, "connection")'
    BY <1>3 DEF RegInv, Before, Has
  <2>0. Before
    BY <1>3 DEF RegInv
  <2>2. Before'
    <3>1. FirstQueue(queue)'
      BY <2>0 DEF Before, FirstQueue
    <3>2. wanted' = {} /\ link' = NoAddr /\ connected' = FALSE
      BY <2>0 DEF Before
    <3>3. address' = NoAddr => Len(queue') <= 1 /\ AsksNoMore(queue)'
      BY <2>0 DEF Before, AsksNoMore
    <3>4. Asked' => queue' = <<>> /\ address' # NoAddr
      BY <1>1, <2>0 DEF Before
    <3>5. pc' \in Early => queue' = <<>> /\ ~Asked'
      BY <1>1, <2>0 DEF Before
    <3> QED
      BY <2>1, <3>1, <3>2, <3>3, <3>4, <3>5 DEF Before, Early, FirstQueue, AsksNoMore
  <2> QED
    BY <1>0, <1>3, <2>2 DEF RegInv
<1> QED
  BY <1>2, <1>3 DEF RegInv

LEMMA RegPlain ==
  ASSUME RegInv,
         \/ Begin \/ Create \/ NoMoreLines \/ Mode \/ Poll \/ Unlink \/ LeaveLoop
         \/ Destroy \/ Signal \/ Killed \/ Cooled \/ RetryTick \/ Quit \/ Select
  PROVE  RegInv'
<1>1. UNCHANGED <<registered, queue, address, connected, cid>>
  BY DEF Begin, Create, NoMoreLines, Mode, Poll, Unlink, LeaveLoop, Destroy, Signal,
     Killed, Cooled, RetryTick, Quit, Select, BtGone, quietVars, regVars, connVars,
     addrVars, btClientVars, btVars
<1>2. /\ regPending' = regPending \/ regPending' = FALSE
      /\ wanted' \subseteq wanted
      /\ link' \in {link, NoAddr}
      /\ pc' \in Early => pc \in Early
  BY DEF Begin, Create, NoMoreLines, Mode, Poll, Unlink, LeaveLoop, Destroy, Signal,
     Killed, Cooled, RetryTick, Quit, Select, BtGone, NoLink, Raise, Early, Running,
     quietVars, btClientVars, btVars, linkVars
<1>3. \/ UNCHANGED <<out, lines>>
      \/ out' = <<>> /\ lines' = out
  BY DEF Begin, Create, NoMoreLines, Mode, Poll, Unlink, LeaveLoop, Destroy, Signal,
     Killed, Cooled, RetryTick, Quit, Select, BtGone, btClientVars
<1>4. \A type : Has(out', type) \/ Has(lines', type) => Has(out, type) \/ Has(lines, type)
  BY <1>3 DEF Has
<1> QED
  BY <1>1, <1>2, <1>4, RegFrame

\* Once registered, only the queue and the address matter.
LEMMA RegAfter ==
  ASSUME RegInv, registered, UNCHANGED <<registered, queue>>, address' # NoAddr,
         pc' \in Early => pc \in Early, regPending' => cid' = NoId
  PROVE  RegInv'
<1>1. After
  BY DEF RegInv
<1>2. AsksNoMore(queue)'
  BY <1>1 DEF After, AsksNoMore
<1>3. QueueBound'
  BY <1>1 DEF After, QueueBound
<1>4. After'
  BY <1>1, <1>2, <1>3 DEF After, Early
<1> QED
  BY <1>4 DEF RegInv

LEMMA RegBind == RegInv /\ Bind => RegInv'
<1> SUFFICES ASSUME RegInv, Bind PROVE RegInv'
  OBVIOUS
<1>1. /\ UNCHANGED <<registered, address, regPending, cid, out, lines, wanted, link, connected>>
      /\ pc = "bind" /\ pc' \notin Early
  BY DEF Bind, Raise, Early, quietVars, addrVars, regVars, connVars, btClientVars, btVars,
     linkVars
<1>2. ~registered /\ queue = <<>> /\ ~Asked /\ Before
  BY <1>1 DEF RegInv, Before, After, Early
<1>3. ~Asked' /\ ~Has(out, "connection")' /\ ~Has(lines, "connection")'
  BY <1>1, <1>2 DEF Asked, Has, Before
<1>4. /\ FirstQueue(queue)' /\ Len(queue') <= 1
      /\ address = NoAddr => AsksNoMore(queue)'
  BY <1>2 DEF Bind, FirstQueue, AsksNoMore, Cmd
<1>5. Before'
  BY <1>1, <1>2, <1>3, <1>4 DEF Before, Early, FirstQueue, AsksNoMore
<1> QED
  BY <1>1, <1>2, <1>5 DEF RegInv

LEMMA RegDevice == TalkInv /\ CandidateInv /\ RegInv /\ OnDevice => RegInv'
<1> SUFFICES ASSUME TalkInv, CandidateInv, RegInv, OnDevice PROVE RegInv'
  OBVIOUS
<1>1. /\ UNCHANGED <<pc, registered, regPending, cid, out, wanted, link, connected>>
      /\ lines # <<>> /\ lines' = Tail(lines) /\ pc = "line"
  BY DEF OnDevice, NextLine, regVars, connVars, btClientVars, btVars, linkVars
<1>2. \A type : Has(out', type) \/ Has(lines', type) => Has(out, type) \/ Has(lines, type)
  BY <1>1, HasFacts DEF TalkInv
<1>3. CASE address # NoAddr
  <2>1. UNCHANGED <<address, queue>>
    BY <1>3 DEF OnDevice, FirstCandidate
  <2> QED
    BY <1>1, <1>2, <2>1, RegFrame
<1>4. CASE address = NoAddr
  <2>1. ~registered /\ Before
    BY <1>4 DEF RegInv, After
  <2>2. Len(queue) <= 1 /\ AsksNoMore(queue) /\ FirstQueue(queue) /\ ~Asked
    BY <1>4, <2>1 DEF Before
  <2>3. queue' = Append(queue, Cmd("register"))
    BY <1>4 DEF OnDevice, FirstCandidate
  <2>4. FirstQueue(queue')
    <3>1. Cmd("register") \in SomeCommands /\ Cmd("register").op = "register"
      BY CommandFacts DEF Cmd
    <3> QED
      BY <2>2, <2>3, <3>1, FirstQueueGrows DEF TalkInv
  <2>5. address' # NoAddr
    <3>1. address' = Head(lines).addr /\ Head(lines).type = "device"
      BY <1>4 DEF OnDevice, NextLine, FirstCandidate
    <3>2. Head(lines) \in SomeLines
      BY <1>1, SeqFacts DEF TalkInv
    <3> QED
      BY <3>1, <3>2, LineFacts, BtAssumption
  <2>6. ~Asked' /\ ~Has(out, "connection")' /\ ~Has(lines, "connection")'
    BY <1>1, <1>2, <2>1, <2>2 DEF Asked, Before, Has
  <2>7. Before'
    BY <1>1, <2>1, <2>4, <2>5, <2>6 DEF Before, Early, FirstQueue, AsksNoMore
  <2> QED
    BY <1>1, <2>1, <2>7 DEF RegInv
<1> QED
  BY <1>3, <1>4

LEMMA RegNotification == TalkInv /\ RegInv /\ OnNotification => RegInv'
<1> SUFFICES ASSUME TalkInv, RegInv, OnNotification PROVE RegInv'
  OBVIOUS
<1>1. /\ UNCHANGED <<registered, queue, address, regPending, cid, out, wanted, link,
                     connected>>
      /\ lines # <<>> /\ lines' = Tail(lines)
      /\ pc' \in {pc, "unlink"}
  BY DEF OnNotification, NextLine, Raise, addrVars, regVars, connVars, btClientVars, btVars,
     linkVars
<1>2. \A type : Has(out', type) \/ Has(lines', type) => Has(out, type) \/ Has(lines, type)
  BY <1>1, HasFacts DEF TalkInv
<1> QED
  BY <1>1, <1>2, RegFrame DEF Early

LEMMA RegRegistered ==
  TalkInv /\ CandidateInv /\ RegInv /\ (OnRegistered \/ DirectRegistered) => RegInv'
<1> SUFFICES ASSUME TalkInv, CandidateInv, RegInv, OnRegistered \/ DirectRegistered
             PROVE  RegInv'
  OBVIOUS
<1>1. /\ UNCHANGED <<address, regPending, cid, out, wanted, link, connected>>
      /\ lines # <<>> /\ lines' = Tail(lines)
      /\ pc = "line" /\ Head(lines).type = "registered"
      /\ pc' \in {pc, "unlink"}
  BY DEF OnRegistered, DirectRegistered, NextLine, Raise, addrVars, connVars,
     btClientVars, btVars, linkVars
<1>2. \A type : Has(out', type) \/ Has(lines', type) => Has(out, type) \/ Has(lines, type)
  BY <1>1, HasFacts DEF TalkInv
<1>3. CASE ~(Head(lines).ok /\ ~registered)
  <2>1. UNCHANGED <<registered, queue>>
    BY <1>3 DEF OnRegistered, DirectRegistered, regVars
  <2> QED
    BY <1>1, <1>2, <2>1, RegFrame DEF Early
<1>4. CASE Head(lines).ok /\ ~registered
  <2>1. Has(lines, "registered")
    BY <1>1, HasFacts DEF TalkInv
  <2>2. queue = <<>> /\ address # NoAddr
    BY <1>4, <2>1 DEF RegInv, Before, Asked
  <2>3. registered' = TRUE /\ queue' \in {queue, queue \o Options \o FirstConnect}
    BY <1>4 DEF OnRegistered, DirectRegistered
  <2>4. /\ Options \in Seq(SomeCommands) /\ FirstConnect \in Seq(SomeCommands)
        /\ Len(Options) = 3 /\ Len(FirstConnect) = 1
        /\ AsksNoMore(<<>>) /\ AsksNoMore(Options) /\ AsksNoMore(FirstConnect)
    <3>1. /\ Cmd("transport").op = "transport" /\ Cmd("auth").op = "auth"
          /\ Cmd("direct").op = "direct" /\ Connect(address).op = "connect"
      BY DEF Cmd, Connect
    <3>2. address \in Addrs
      BY <2>2 DEF CandidateInv
    <3> QED
      BY <2>2, <3>1, <3>2, CommandFacts DEF AsksNoMore, Options, FirstConnect
  <2>5. AsksNoMore(queue') /\ Len(queue') <= 4
    <3>1. queue \in Seq(SomeCommands) /\ Len(queue) = 0 /\ AsksNoMore(queue)
      BY <2>2, <2>4
    <3>2. /\ Len((queue \o Options) \o FirstConnect)
               = Len(queue) + Len(Options) + Len(FirstConnect)
          /\ AsksNoMore((queue \o Options) \o FirstConnect)
      BY <2>4, <3>1, ThreePieces
    <3>5. Len(queue) + Len(Options) + Len(FirstConnect) <= 4
      BY <2>4, <3>1
    <3>3. CASE queue' = queue
      BY <3>1, <3>3
    <3>4. CASE queue' = (queue \o Options) \o FirstConnect
      BY <3>2, <3>4, <3>5
    <3> QED
      BY <2>3, <3>3, <3>4
  <2>6. QueueBound'
    BY <2>5, BtAssumption DEF QueueBound
  <2>7. After'
    BY <1>1, <2>2, <2>5, <2>6 DEF After, Early, AsksNoMore
  <2> QED
    BY <1>1, <2>3, <2>7 DEF RegInv
<1> QED
  BY <1>3, <1>4

\* A connection line comes to a registered bridge, which keeps a candidate.
LEMMA RegConnection == TalkInv /\ CandidateInv /\ RegInv /\ OnConnection => RegInv'
<1> SUFFICES ASSUME TalkInv, CandidateInv, RegInv, OnConnection PROVE RegInv'
  OBVIOUS
<1>1. /\ UNCHANGED <<pc, registered, queue, addresses, regPending, cid>>
      /\ lines # <<>> /\ Head(lines).type = "connection"
  BY DEF OnConnection, NextLine, regVars, btClientVars, btVars
<1>2. Has(lines, "connection")
  BY <1>1, HasFacts DEF TalkInv
<1>3. registered /\ address # NoAddr
  BY <1>2 DEF RegInv, Before, After
<1>4. addresses' # <<>> /\ CandidateInv'
  BY <1>1, <1>3, ConnectionStep DEF CandidateInv
<1>5. address' # NoAddr
  BY <1>4, BtAssumption DEF CandidateInv
<1> QED
  BY <1>1, <1>3, <1>5, RegAfter DEF RegInv

LEMMA RegSetup == TalkInv /\ CandidateInv /\ RegInv /\ Setup => RegInv'
<1> SUFFICES ASSUME TalkInv, CandidateInv, RegInv, Setup PROVE RegInv'
  OBVIOUS
<1>1. /\ UNCHANGED <<registered, address, connected, regPending, cid, out, lines, wanted, link>>
      /\ pc' \notin Early
  BY DEF Setup, Early, addrVars, regVars, btClientVars, btVars, linkVars
<1>2. \A type : Has(out', type) \/ Has(lines', type) => Has(out, type) \/ Has(lines, type)
  BY <1>1 DEF Has
<1>3. CASE UNCHANGED queue
  BY <1>1, <1>2, <1>3, RegFrame
<1>4. CASE SetupDue
  <2> DEFINE more == [i \in 1..Len(Handles) |-> Notify(address, Handles[i])]
  <2>1. registered /\ queue = <<>> /\ address # NoAddr
    BY <1>4 DEF RegInv, Before, After, SetupDue
  <2>2. queue' = <<>> \o more
    BY <1>4, <2>1 DEF Setup
  <2>3. Len(Handles) \in Nat
    BY BtAssumption
  <2>4. more \in Seq(SomeCommands)
    <3>1. \A i \in 1..Len(Handles) : Handles[i] \in Elems(Handles)
      BY BtAssumption DEF Elems
    <3>2. more \in [1..Len(Handles) -> SomeCommands]
      BY <3>1, CommandFacts DEF CandidateInv
    <3> HIDE DEF more
    <3> QED
      BY <2>3, <3>2, FunctionIsSeq
  <2>5. Len(more) = Len(Handles) /\ \A i \in 1..Len(more) : more[i].op # "register"
    BY <2>3 DEF Notify
  <2> HIDE DEF more
  <2>6. queue' = more
    BY <2>2, <2>4
  <2>7. AsksNoMore(queue)' /\ QueueBound'
    BY <2>3, <2>5, <2>6 DEF AsksNoMore, QueueBound
  <2>8. After'
    BY <1>1, <2>1, <2>7 DEF After, Early
  <2> QED
    BY <1>1, <2>1, <2>8 DEF RegInv
<1> QED
  BY <1>3, <1>4 DEF Setup

LEMMA RegRetry == TalkInv /\ CandidateInv /\ RegInv /\ Retry => RegInv'
<1> SUFFICES ASSUME TalkInv, CandidateInv, RegInv, Retry PROVE RegInv'
  OBVIOUS
<1>1. /\ UNCHANGED <<registered, addresses, connected, regPending, cid, out, lines, wanted, link>>
      /\ pc' \notin Early
  BY DEF Retry, Early, regVars, connVars, btClientVars, btVars, linkVars
<1>2. \A type : Has(out', type) \/ Has(lines', type) => Has(out, type) \/ Has(lines, type)
  BY <1>1 DEF Has
<1>3. CASE UNCHANGED <<queue, address>>
  BY <1>1, <1>2, <1>3, RegFrame
<1>4. CASE RetryWanted
  <2>1. /\ registered /\ queue = <<>> /\ addresses # <<>> /\ Rotate
        /\ queue' = Append(queue, Connect(address'))
    BY <1>4 DEF Retry, RetryWanted
  <2>2. address' # NoAddr
    BY <1>1, <2>1, RotateKeeps, BtAssumption
  <2>3. queue' = <<Connect(address')>>
    BY <2>1
  <2>4. AsksNoMore(queue)' /\ QueueBound'
    BY <2>3, BtAssumption DEF AsksNoMore, Connect, QueueBound
  <2>5. After'
    BY <1>1, <2>2, <2>4 DEF After, Early
  <2> QED
    BY <1>1, <2>1, <2>5 DEF RegInv
<1> QED
  BY <1>3, <1>4 DEF Retry

LEMMA RegSend == TalkInv /\ RegInv /\ Send => RegInv'
<1> SUFFICES ASSUME TalkInv, RegInv, Send PROVE RegInv'
  OBVIOUS
<1>1. UNCHANGED <<registered, address, connected, lines>> /\ pc' \notin Early
  BY DEF Send, Raise, Early, addrVars, regVars, connVars
<1>2. CASE UNCHANGED <<btClientVars, queue>>
  <2>1. \A type : Has(out', type) \/ Has(lines', type) => Has(out, type) \/ Has(lines, type)
    BY <1>1, <1>2 DEF btClientVars, Has
  <2> QED
    BY <1>1, <1>2, <2>1, RegFrame DEF btClientVars, btVars, linkVars
<1>3. CASE queue # <<>> /\ Type(Head(queue)) /\ queue' = Tail(queue)
  <2> DEFINE c == Head(queue)
  <2>0. Type(c)
    BY <1>3
  <2>1. /\ cid' = cid
        /\ regPending' => regPending \/ c.op = "register"
    <3> HIDE DEF c
    <3>1. CASE Executes(c)
      BY <3>1 DEF Executes
    <3>2. CASE UNCHANGED btClientVars
      BY <3>2 DEF btClientVars, btVars
    <3> QED
      BY <2>0, <3>1, <3>2 DEF Type
  <2>2. CASE registered
    <3>1. After /\ c.op # "register"
      BY <1>3, <2>2, AskFacts DEF RegInv, After, TalkInv
    <3>2. AsksNoMore(queue')
      BY <1>3, <3>1, AskFacts DEF After, TalkInv
    <3>3. QueueBound'
      <4>1. Len(queue') <= Len(queue) /\ Len(queue') \in Nat /\ Len(queue) \in Nat
        BY <1>3 DEF TalkInv
      <4> QED
        BY <3>1, <4>1, BtAssumption DEF After, QueueBound
    <3>4. After'
      BY <1>1, <3>1, <3>2, <3>3 DEF After, Early, AsksNoMore
    <3> QED
      BY <1>1, <2>1, <2>2, <3>1, <3>4 DEF RegInv
  <2>3. CASE ~registered
    <3>1. Before /\ ~Asked
      BY <1>3, <2>3 DEF RegInv, Before
    <3>2. /\ c.op \in {"list", "register"} /\ FirstQueue(queue')
          /\ c.op = "register" => queue' = <<>>
          /\ Len(queue') <= 1
      <4>1. queue \in Seq(SomeCommands) /\ FirstQueue(queue) /\ queue # <<>>
        BY <1>3, <3>1 DEF Before, TalkInv
      <4>2. /\ FirstQueue(Tail(queue)) /\ Len(Tail(queue)) <= 1
            /\ Head(queue).op \in {"list", "register"}
            /\ Head(queue).op = "register" => Tail(queue) = <<>>
        BY <4>1, FirstQueueShrinks
      <4> QED
        BY <1>3, <4>2
    <3>3. wanted' = wanted /\ link' = link
      BY <1>3, <3>2 DEF Type, Executes, btClientVars, linkVars
    <3>4. \A type \in {"registered", "connection"} : Has(out', type) => Has(out, type)
      <4> DEFINE more == [i \in 1..Len(bonded) |-> DeviceLine(bonded[i])]
      <4>1. out' = out \/ out' = out \o more
        BY <1>3, <3>2 DEF Type, Executes, btClientVars
      <4>2. more \in Seq(SomeLines) /\ \A i \in 1..Len(more) : more[i].type = "device"
        <5>1. Len(bonded) \in Nat /\ \A i \in 1..Len(bonded) : bonded[i] \in Addrs
          BY DEF TalkInv
        <5>2. more \in [1..Len(bonded) -> SomeLines]
          BY <5>1, LineFacts
        <5>3. \A i \in 1..Len(more) : more[i].type = "device"
          BY <5>1 DEF DeviceLine
        <5> HIDE DEF more
        <5> QED
          BY <5>1, <5>2, <5>3, FunctionIsSeq
      <4> HIDE DEF more
      <4>3. \A type \in {"registered", "connection"} : ~Has(more, type)
        BY <4>2 DEF Has
      <4>4. ASSUME NEW type PROVE Has(out \o more, type) => Has(out, type) \/ Has(more, type)
        BY <4>2, HasFacts DEF TalkInv
      <4>5. CASE out' = out
        BY <4>5
      <4>6. CASE out' = out \o more
        BY <4>3, <4>4, <4>6
      <4> QED
        BY <4>1, <4>5, <4>6
    <3>5. Asked' => c.op = "register"
      BY <1>1, <2>1, <3>1, <3>4 DEF Asked, Has
    <3>6. address = NoAddr => c.op # "register" /\ AsksNoMore(queue')
      BY <1>3, <3>1, AskFacts DEF Before, TalkInv
    <3>7. ~Has(out, "connection")' /\ ~Has(lines, "connection")'
      BY <1>1, <3>1, <3>4 DEF Before, Has
    <3>8. Before'
      BY <1>1, <3>1, <3>2, <3>3, <3>5, <3>6, <3>7
         DEF Before, Early, FirstQueue, AsksNoMore
    <3>9. cid = NoId
      BY <3>1 DEF Asked
    <3> QED
      BY <1>1, <2>1, <2>3, <3>8, <3>9 DEF RegInv
  <2> QED
    BY <2>2, <2>3
<1>4. CASE queue # <<>> /\ queue' = Tail(queue) /\ UNCHANGED btClientVars
  <2>1. UNCHANGED <<regPending, cid, out, wanted, link>>
    BY <1>4 DEF btClientVars, btVars, linkVars
  <2>2. queue \in Seq(SomeCommands) /\ Len(queue') <= Len(queue) /\ Len(queue') \in Nat
    BY <1>4 DEF TalkInv
  <2>3. CASE registered
    <3>1. AsksNoMore(queue')
      BY <1>4, <2>2, <2>3, AskFacts DEF RegInv, After
    <3>2. QueueBound'
      BY <2>2, <2>3, BtAssumption DEF RegInv, After, QueueBound
    <3>3. After'
      BY <1>1, <2>3, <3>1, <3>2 DEF RegInv, After, Early, AsksNoMore
    <3> QED
      BY <1>1, <2>1, <2>3, <3>3 DEF RegInv
  <2>4. CASE ~registered
    <3>1. Before /\ ~Asked
      BY <1>4, <2>4 DEF RegInv, Before
    <3>2. FirstQueue(queue') /\ Len(queue') <= 1
      BY <1>4, <2>2, <3>1, FirstQueueShrinks DEF Before
    <3>3. address = NoAddr => AsksNoMore(queue')
      BY <1>4, <2>2, <3>1, AskFacts DEF Before
    <3>4. ~Asked'
      BY <1>1, <2>1, <3>1 DEF Asked, Has
    <3>5. Before'
      BY <1>1, <2>1, <3>1, <3>2, <3>3, <3>4 DEF Before, Early, FirstQueue, AsksNoMore, Has
    <3> QED
      BY <1>1, <2>1, <2>4, <3>5 DEF RegInv
  <2> QED
    BY <2>3, <2>4
<1> QED
  BY <1>2, <1>3, <1>4 DEF Send

LEMMA RegDisconnect == RegInv /\ Disconnect => RegInv'
<1> SUFFICES ASSUME RegInv, Disconnect PROVE RegInv'
  OBVIOUS
<1>1. UNCHANGED <<registered, queue, address, connected, lines>> /\ pc' \notin Early
  BY DEF Disconnect, Early, quietVars, addrVars, regVars, connVars
<1>2. CASE registered
  <2>1. /\ cid' = cid
        /\ regPending' => regPending
    BY DEF Disconnect, Type, Executes, Connect, btClientVars, btVars
  <2>2. address # NoAddr
    BY <1>2 DEF RegInv, After
  <2> QED
    BY <1>1, <1>2, <2>1, <2>2, RegAfter DEF RegInv
<1>3. CASE ~registered
  <2>1. UNCHANGED btClientVars
    BY <1>3 DEF Disconnect
  <2>2. \A type : Has(out', type) \/ Has(lines', type) => Has(out, type) \/ Has(lines, type)
    BY <1>1, <2>1 DEF btClientVars, Has
  <2> QED
    BY <1>1, <2>1, <2>2, RegFrame DEF btClientVars, btVars, linkVars
<1> QED
  BY <1>2, <1>3

\* Floss and the keyboard: nothing connects that was not asked for, and an
\* answer to a registration leaves none on its way.
LEMMA RegExternal ==
  ASSUME TalkInv, RegInv, External \/ DirectExternal, UNCHANGED localVars
  PROVE  RegInv'
<1>1. UNCHANGED <<pc, registered, queue, address, connected, lines>>
  BY DEF localVars, quietVars, addrVars, regVars, connVars
<1>2. ASSUME NEW l \in SomeLines, Prints(l), NEW type
      PROVE  Has(out', type) => Has(out, type) \/ l.type = type
  BY <1>2, HasFacts DEF Prints, TalkInv
<1>3. ASSUME wanted # {} \/ link # NoAddr, UNCHANGED <<cid, regPending>> PROVE RegInv'
  <2>1. registered /\ address # NoAddr
    BY <1>3 DEF RegInv, Before, After
  <2> QED
    BY <1>1, <1>3, <2>1, RegAfter DEF RegInv
<1>4. ASSUME NEW id \in ClientIds, RegisterReply(id) PROVE RegInv'
  <2>1. /\ regPending /\ regPending' = FALSE
        /\ UNCHANGED <<wanted, link>>
        /\ \E ok \in BOOLEAN : Prints(RegisteredLine(ok, id))
    BY <1>4 DEF RegisterReply, linkVars
  <2>2. CASE registered
    <3>1. address # NoAddr
      BY <2>2 DEF RegInv, After
    <3> QED
      BY <1>1, <2>1, <2>2, <3>1, RegAfter
  <2>3. CASE ~registered
    <3>1. Before /\ Asked
      BY <2>1, <2>3 DEF RegInv, Asked
    <3>2. queue = <<>> /\ address # NoAddr /\ pc \notin Early
      BY <3>1 DEF Before
    <3>3. ~Has(out, "connection")' /\ ~Has(lines, "connection")'
      <4>1. \A ok \in BOOLEAN : /\ RegisteredLine(ok, id) \in SomeLines
                                /\ RegisteredLine(ok, id).type = "registered"
        BY LineFacts DEF RegisteredLine
      <4>2. PICK ok \in BOOLEAN : Prints(RegisteredLine(ok, id))
        BY <2>1
      <4>3. Has(out', "connection") => Has(out, "connection")
        BY <1>2, <4>1, <4>2
      <4> QED
        BY <1>1, <3>1, <4>3 DEF Before, Has
    <3>4. Before'
      BY <1>1, <2>1, <3>1, <3>2, <3>3 DEF Before, Early, FirstQueue, AsksNoMore
    <3> QED
      BY <1>1, <2>1, <2>3, <3>4 DEF RegInv
  <2> QED
    BY <2>2, <2>3
<1>5. ASSUME NEW b \in Addrs, LinkUp(b) \/ DirectLinkUp(b) \/ ConnectFails(b) PROVE RegInv'
  BY <1>3, <1>5 DEF LinkUp, DirectLinkUp, ConnectFails, btVars
<1>6. CASE LinkDown
  BY <1>3, <1>6 DEF LinkDown, btVars
<1>7. ASSUME NEW b \in Addrs, Bond(b) PROVE RegInv'
  <2>1. \A type : Has(out', type) \/ Has(lines', type) => Has(out, type) \/ Has(lines, type)
    BY <1>1, <1>7 DEF Bond, Has
  <2> QED
    BY <1>1, <1>7, <2>1, RegFrame DEF Bond, btVars, linkVars
<1>8. CASE BtExit
  <2>1. \A type : Has(out', type) \/ Has(lines', type) => Has(out, type) \/ Has(lines, type)
    BY <1>1, <1>8 DEF BtExit, BtGone, Has
  <2> QED
    BY <1>1, <1>8, <2>1, RegFrame DEF BtExit, BtGone, NoLink
<1>9. ASSUME NEW h \in Elems(Handles), Report(h) PROVE RegInv'
  <2>1. UNCHANGED <<cid, regPending, wanted, link>> /\ Prints(NotificationLine(link, h))
    BY <1>9 DEF Report, btVars, linkVars
  <2>2. NotificationLine(link, h) \in SomeLines
        /\ NotificationLine(link, h).type = "notification"
    BY LineFacts DEF TalkInv, NotificationLine
  <2>3. CASE registered
    <3>1. address # NoAddr
      BY <2>3 DEF RegInv, After
    <3> QED
      BY <1>1, <2>1, <2>3, <3>1, RegAfter DEF RegInv
  <2>4. CASE ~registered
    <3>1. Before
      BY <2>4 DEF RegInv
    <3>2. /\ Has(out', "connection") => Has(out, "connection")
          /\ Has(out', "registered") => Has(out, "registered")
      BY <1>2, <2>1, <2>2
    <3>3. (Asked' => Asked) /\ ~Has(out, "connection")' /\ ~Has(lines, "connection")'
      BY <1>1, <2>1, <3>1, <3>2 DEF Before, Asked, Has
    <3>4. Before'
      BY <1>1, <2>1, <3>1, <3>3 DEF Before, Early, FirstQueue, AsksNoMore
    <3> QED
      BY <1>1, <2>1, <2>4, <3>4 DEF RegInv
  <2> QED
    BY <2>3, <2>4
<1> QED
  BY <1>4, <1>5, <1>6, <1>7, <1>8, <1>9 DEF External, DirectExternal

LEMMA RegInitially == EitherInit => RegInv
BY BtAssumption DEF EitherInit, Init, BtInit, RegInv, Before, Asked, Has, Early, FirstQueue,
   AsksNoMore

LEMMA RegStep ==
  TalkInv /\ CandidateInv /\ RegInv /\ [EitherNext]_eitherVars => RegInv'
<1> SUFFICES ASSUME TalkInv, CandidateInv, RegInv, [EitherNext]_eitherVars
             PROVE  RegInv'
  OBVIOUS
<1>1. CASE \/ Process \/ DirectProcess
           \/ Signal \/ Killed \/ Cooled \/ RetryTick
  BY <1>1, RegPlain, RegBind, RegDevice, RegRegistered, RegConnection, RegNotification,
     RegSetup, RegRetry, RegSend, RegDisconnect
     DEF Process, DirectProcess, DirectStart, DirectLines, DirectTail, DirectEnd
<1>2. CASE (External \/ DirectExternal) /\ UNCHANGED localVars
  BY <1>2, RegExternal
<1>3. CASE UNCHANGED eitherVars
  <2>1. \A type : Has(out', type) \/ Has(lines', type) => Has(out, type) \/ Has(lines, type)
    BY <1>3 DEF eitherVars, vars, localVars, btClientVars, Has
  <2> QED
    BY <1>3, <2>1, RegFrame
       DEF eitherVars, vars, localVars, quietVars, addrVars, regVars, connVars,
           btClientVars, btVars, linkVars
<1> QED
  BY <1>1, <1>2, <1>3 DEF EitherNext, Next, DirectNext

\* The queue of commands never holds more than the four of a registration or
\* the notifications of one connection, however often the keyboard comes and
\* goes.
THEOREM QueueStaysShort == EitherSpec => []QueueBound
<1>1. TalkInv /\ RegInv => QueueBound
  BY FirstQueueBound DEF TalkInv, RegInv, After
<1> QED
  BY <1>1, Initially, EitherStep, RegInitially, RegStep, PTL DEF EitherSpec

\* A run of either program registers one GATT client: a registration queued,
\* on its way or answered excludes the others.
THEOREM RegistersOnce == EitherSpec => []OneRegistration
<1>1. TalkInv /\ RegInv => OneRegistration
  <2> SUFFICES ASSUME TalkInv, RegInv PROVE OneRegistration
    OBVIOUS
  <2> DEFINE asks == {i \in 1..Len(queue) : queue[i] = Cmd("register")}
  <2>1. Cmd("register").op = "register" /\ Len(queue) \in Nat
    BY DEF Cmd, TalkInv
  <2>2. CASE asks = {}
    BY <2>2, FS_EmptySet DEF OneRegistration, RegInv
  <2>3. CASE asks # {}
    <3>1. Before
      BY <2>1, <2>3 DEF RegInv, After, AsksNoMore
    <3>2. asks = {Len(queue)}
      BY <2>1, <2>3, <3>1 DEF Before, FirstQueue
    <3>3. Cardinality(asks) = 1
      BY <3>2, FS_Singleton
    <3>4. ~regPending /\ cid = NoId
      BY <2>3, <3>1 DEF Before, Asked
    <3> QED
      BY <3>3, <3>4 DEF OneRegistration
  <2> QED
    BY <2>2, <2>3
<1> QED
  BY <1>1, Initially, EitherStep, RegInitially, RegStep, PTL DEF EitherSpec
=============================================================================
