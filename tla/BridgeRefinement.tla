-------------------------- MODULE BridgeRefinement --------------------------
(***************************************************************************)
(* Proof that both variants of the bridge implement BridgeLife: what the   *)
(* watchdog and the filter are shown to live with is what the main loop    *)
(* does.                                                                   *)
(***************************************************************************)
EXTENDS BridgeProofs

Main == {"create", "bind", "select", "line", "setup", "mode", "retry", "send", "poll",
         "unlink"}
Down == {"disconnect", "quit", "destroy"}

\* Every registration that was answered with success carries the client's id.
Answers(s, id) ==
  \A i \in 1..Len(s) : s[i].type = "registered" /\ s[i].ok => s[i].id = id

LifeInv ==
  /\ Answers(out, cid) /\ Answers(lines, cid)
  /\ bt \in {"none", "running", "exited"}
  /\ pc \in {"start", "create"} => bt = "none"
  /\ bt = "none" => pc \in {"start", "create", "done", "killed"}
  /\ ~registered => idFile = NoId
  /\ pc \in Down \/ direct => idFile = NoId

LEMMA AnswerFacts ==
  ASSUME NEW S, NEW s \in Seq(S), NEW id, Answers(s, id)
  PROVE  /\ s # <<>> => /\ Answers(Tail(s), id)
                        /\ Head(s).type = "registered" /\ Head(s).ok => Head(s).id = id
         /\ \A x \in S : (x.type = "registered" /\ x.ok => x.id = id)
                           => Answers(Append(s, x), id)
         /\ \A t \in Seq(S) : Answers(t, id) => Answers(s \o t, id)
BY DEF Answers

\* Before the answer to a registration no line carries an id.
LEMMA NoAnswerYet ==
  ASSUME NEW s \in Seq(SomeLines), Answers(s, NoId), NEW id
  PROVE  Answers(s, id)
<1>1. NoId \notin ClientIds
  BY BtAssumption DEF NoId
<1> QED
  BY <1>1, LineIds DEF Answers

\* Typing a command prints lines, and leaves the rest of this invariant alone.
LEMMA TypeAnswers ==
  ASSUME TalkInv, Answers(out, cid), NEW c, c.op = "connect" => c.addr \in Addrs, Type(c)
  PROVE  Answers(out', cid) /\ UNCHANGED <<bt, cid>>
<1>1. UNCHANGED <<bt, cid>>
  BY DEF Type, Executes, btClientVars, btVars
<1> DEFINE more == [i \in 1..Len(bonded) |-> DeviceLine(bonded[i])]
<1>2. \/ out' = out \o more
      \/ c.op = "connect" /\ out' = Append(out, ConnectionLine(c.addr, TRUE))
      \/ out' = out
  BY DEF Type, Executes, btClientVars
<1>3. more \in Seq(SomeLines) /\ Answers(more, cid)
  <2>1. Len(bonded) \in Nat /\ \A i \in 1..Len(bonded) : bonded[i] \in Addrs
    BY DEF TalkInv
  <2>2. more \in [1..Len(bonded) -> SomeLines]
    BY <2>1, LineFacts
  <2>3. \A i \in 1..Len(more) : more[i].type = "device"
    BY <2>1 DEF DeviceLine
  <2> HIDE DEF more
  <2> QED
    BY <2>1, <2>2, <2>3, FunctionIsSeq DEF Answers
<1> HIDE DEF more
<1>4. ASSUME c.op = "connect" PROVE Answers(Append(out, ConnectionLine(c.addr, TRUE)), cid)
  <2>1. /\ ConnectionLine(c.addr, TRUE) \in SomeLines
        /\ ConnectionLine(c.addr, TRUE).type = "connection"
    BY <1>4, LineFacts DEF ConnectionLine
  <2> QED
    BY <2>1, AnswerFacts DEF TalkInv
<1>5. Answers(out \o more, cid)
  BY <1>3, AnswerFacts DEF TalkInv
<1> QED
  BY <1>1, <1>2, <1>4, <1>5

-----------------------------------------------------------------------------
\* What is left of the invariant once the lines are known to be right.
LEMMA LifeFrame ==
  ASSUME LifeInv, Answers(out', cid'), Answers(lines', cid'),
         UNCHANGED <<bt, direct>>,
         registered' = registered \/ registered' = TRUE,
         idFile' \in {idFile, NoId},
         pc' \in {"start", "create"} => pc \in {"start", "create"},
         bt = "none" => pc' \in {"start", "create", "done", "killed"},
         pc' \in Down => pc \in Down \/ idFile' = NoId
  PROVE  LifeInv'
<1>1. Answers(out, cid)' /\ Answers(lines, cid)'
  BY DEF Answers
<1>2. ~registered' => idFile' = NoId
  BY DEF LifeInv
<1>3. pc' \in Down \/ direct' => idFile' = NoId
  BY DEF LifeInv
<1>4. pc' \in {"start", "create"} => bt' = "none"
  BY DEF LifeInv
<1>5. bt' \in {"none", "running", "exited"}
  BY DEF LifeInv
<1> QED
  BY <1>1, <1>2, <1>3, <1>4, <1>5 DEF LifeInv, Down

\* The steps that leave what was printed alone.
LEMMA LifePlain ==
  ASSUME LifeInv, UNCHANGED direct,
         \/ Begin \/ Bind \/ NoMoreLines \/ Setup \/ Mode \/ Retry \/ Poll \/ Unlink
         \/ (LeaveLoop /\ direct) \/ Destroy \/ Signal \/ Killed \/ Cooled \/ RetryTick
  PROVE  LifeInv'
<1>1. UNCHANGED <<out, lines, cid, bt, registered>> /\ idFile' \in {idFile, NoId}
  BY DEF Begin, Bind, NoMoreLines, Setup, Mode, Retry, Poll, Unlink, LeaveLoop, Destroy,
     Signal, Killed, Cooled, RetryTick, quietVars, regVars, connVars, btClientVars, btVars
<1>2. /\ pc' \in {"start", "create"} => pc \in {"start", "create"}
      /\ bt = "none" => pc' \in {"start", "create", "done", "killed"}
  BY DEF Begin, Bind, NoMoreLines, Setup, Mode, Retry, Poll, Unlink, LeaveLoop, Destroy,
     Signal, Killed, Cooled, RetryTick, Raise, Running, LifeInv
<1>3. pc' \in Down => pc \in Down \/ idFile' = NoId
  BY DEF Begin, Bind, NoMoreLines, Setup, Mode, Retry, Poll, Unlink, LeaveLoop, Destroy,
     Signal, Killed, Cooled, RetryTick, Raise, Down, LifeInv, quietVars, regVars
<1>4. Answers(out', cid') /\ Answers(lines', cid')
  BY <1>1 DEF LifeInv
<1> QED
  BY <1>1, <1>2, <1>3, <1>4, LifeFrame

LEMMA LifeSelect == LifeInv /\ Select /\ UNCHANGED direct => LifeInv'
<1> SUFFICES ASSUME LifeInv, Select, UNCHANGED direct PROVE LifeInv'
  OBVIOUS
<1>1. /\ UNCHANGED <<cid, bt, registered, idFile>>
      /\ pc = "select" /\ pc' \in {"line", "unlink"}
      /\ \/ UNCHANGED <<out, lines>>
         \/ lines' = out /\ out' = <<>>
  BY DEF Select, Raise, quietVars, regVars, btVars
<1>2. Answers(<<>>, cid)
  BY DEF Answers
<1>3. Answers(out', cid') /\ Answers(lines', cid')
  BY <1>1, <1>2 DEF LifeInv
<1> QED
  BY <1>1, <1>3, LifeFrame DEF LifeInv, Down

\* One line less to handle.
LEMMA LifeLine ==
  ASSUME TalkInv, LifeInv, UNCHANGED direct,
         OnDevice \/ DirectRegistered \/ OnConnection \/ OnNotification
  PROVE  LifeInv'
<1>1. /\ UNCHANGED <<cid, bt, idFile, out>>
      /\ registered' = registered \/ registered' = TRUE
      /\ pc = "line" /\ pc' \in {"line", "unlink"}
      /\ lines # <<>> /\ lines' = Tail(lines)
  BY DEF OnDevice, DirectRegistered, OnConnection, OnNotification, NextLine, Raise,
     regVars, btClientVars, btVars
<1>2. Answers(out', cid') /\ Answers(lines', cid')
  BY <1>1, AnswerFacts DEF LifeInv, TalkInv
<1> QED
  BY <1>1, <1>2, LifeFrame DEF LifeInv, Down

\* The answer to the registration is published.
LEMMA LifePublish ==
  ASSUME TalkInv, LifeInv, UNCHANGED direct, ~direct, OnRegistered
  PROVE  /\ LifeInv'
         /\ UNCHANGED <<bt, cid>> /\ pc = "line" /\ pc' \in {"line", "unlink"}
         /\ \/ idFile' = idFile
            \/ idFile = NoId /\ idFile' = cid /\ cid # NoId
<1>1. /\ UNCHANGED <<cid, bt, out>>
      /\ pc = "line" /\ pc' \in {"line", "unlink"}
      /\ lines # <<>> /\ lines' = Tail(lines) /\ Head(lines).type = "registered"
  BY DEF OnRegistered, NextLine, Raise, btClientVars, btVars
<1>2. /\ Answers(out', cid') /\ Answers(lines', cid')
      /\ Head(lines).ok => Head(lines).id = cid
  BY <1>1, AnswerFacts DEF LifeInv, TalkInv
<1>3. \/ registered' = TRUE /\ ~registered /\ Head(lines).ok /\ idFile' = Head(lines).id
      \/ idFile' = idFile /\ (registered' = registered \/ registered' = TRUE)
  BY DEF OnRegistered, regVars
<1>4. CASE idFile' = idFile
  <2>1. LifeInv'
    BY <1>1, <1>2, <1>3, <1>4, LifeFrame DEF LifeInv, Down
  <2> QED
    BY <1>1, <1>4, <2>1
<1>5. CASE registered' = TRUE /\ ~registered /\ Head(lines).ok /\ idFile' = Head(lines).id
  <2>1. idFile = NoId /\ idFile' = cid
    BY <1>2, <1>5 DEF LifeInv
  <2>2. cid # NoId
    <3>1. Head(lines) \in SomeLines
      BY <1>1, SeqFacts DEF TalkInv
    <3>2. Head(lines).id \in ClientIds
      BY <1>1, <3>1, LineIds
    <3> QED
      BY <1>2, <1>5, <3>2, BtAssumption DEF NoId
  <2>3. Answers(out, cid)' /\ Answers(lines, cid)'
    BY <1>2 DEF Answers
  <2>4. LifeInv'
    BY <1>1, <1>5, <2>3 DEF LifeInv, Down
  <2> QED
    BY <1>1, <2>1, <2>2, <2>4
<1> QED
  BY <1>3, <1>4, <1>5

LEMMA LifeTyped ==
  ASSUME TalkInv, CandidateInv, LifeInv, UNCHANGED direct, Send \/ Disconnect
  PROVE  LifeInv' /\ UNCHANGED <<bt, cid, idFile>>
<1>1. /\ UNCHANGED <<lines, registered, idFile>>
      /\ \/ pc = "send" /\ pc' \in {"poll", "unlink"}
         \/ pc = "disconnect" /\ pc' = "quit"
  BY DEF Send, Disconnect, Raise, quietVars, regVars
<1>2. \/ UNCHANGED btClientVars
      \/ queue # <<>> /\ Type(Head(queue))
      \/ Type([Connect(address) EXCEPT !.op = "disconnect"])
  BY DEF Send, Disconnect
<1>3. Answers(out', cid) /\ UNCHANGED <<bt, cid>>
  <2>1. CASE UNCHANGED btClientVars
    BY <2>1 DEF LifeInv, btClientVars, btVars
  <2>2. CASE queue # <<>> /\ Type(Head(queue))
    <3>1. Head(queue).op = "connect" => Head(queue).addr \in Addrs
      BY <2>2, SeqFacts, CommandFacts DEF TalkInv
    <3> QED
      BY <2>2, <3>1, TypeAnswers DEF LifeInv
  <2>3. CASE Type([Connect(address) EXCEPT !.op = "disconnect"])
    <3> DEFINE c == [Connect(address) EXCEPT !.op = "disconnect"]
    <3>1. c.op # "connect"
      BY DEF Connect
    <3> HIDE DEF c
    <3> QED
      BY <2>3, <3>1, TypeAnswers DEF LifeInv, c
  <2> QED
    BY <1>2, <2>1, <2>2, <2>3
<1>4. Answers(out', cid') /\ Answers(lines', cid')
  BY <1>1, <1>3 DEF LifeInv
<1>5. LifeInv'
  BY <1>1, <1>3, <1>4, LifeFrame DEF LifeInv, Down
<1> QED
  BY <1>1, <1>3, <1>5

\* btclient is started, or ends.
LEMMA LifeChild ==
  ASSUME LifeInv, UNCHANGED direct, Create \/ Quit
  PROVE  LifeInv'
<1>1. /\ UNCHANGED <<out, lines, cid, registered, idFile>>
      /\ \/ pc = "create" /\ pc' = "bind" /\ bt' = "running"
         \/ pc = "create" /\ pc' = "done" /\ bt' = bt
         \/ pc = "quit" /\ pc' = "destroy" /\ bt' \in {bt, "exited"}
  BY DEF Create, Quit, BtGone, quietVars, regVars, btClientVars, btVars
<1>2. Answers(out, cid)' /\ Answers(lines, cid)'
  BY <1>1 DEF LifeInv, Answers
<1> QED
  BY <1>1, <1>2 DEF LifeInv, Down

\* What Floss and the keyboard do, and which step of the lifecycle it is.
FlossStep ==
  \/ UNCHANGED <<bt, cid>>
  \/ \E id \in ClientIds : /\ bt = "running" /\ cid = NoId
                           /\ cid' = id /\ bt' = bt
  \/ bt = "running" /\ bt' = "exited" /\ cid' = cid

LEMMA LifeExternal ==
  ASSUME TalkInv, RegInv, LifeInv, UNCHANGED direct, External \/ DirectExternal,
         UNCHANGED localVars
  PROVE  LifeInv' /\ FlossStep
<1>1. UNCHANGED <<pc, registered, idFile, lines>>
  BY DEF localVars, quietVars, regVars
<1>2. ASSUME NEW l \in SomeLines, l.type # "registered", Prints(l), UNCHANGED <<bt, cid>>
      PROVE  LifeInv' /\ FlossStep
  <2>1. Answers(out', cid') /\ Answers(lines', cid')
    BY <1>1, <1>2, AnswerFacts DEF LifeInv, TalkInv, Prints
  <2>2. LifeInv'
    BY <1>1, <1>2, <2>1, LifeFrame DEF LifeInv
  <2> QED
    BY <1>2, <2>2 DEF FlossStep
<1>3. ASSUME NEW id \in ClientIds, RegisterReply(id) PROVE LifeInv' /\ FlossStep
  <2>1. bt = "running" /\ bt' = bt /\ cid = NoId
    BY <1>3 DEF RegisterReply, RegInv
  <2>2. PICK ok \in BOOLEAN : /\ Prints(RegisteredLine(ok, id))
                              /\ cid' = IF ok THEN id ELSE cid
    BY <1>3 DEF RegisterReply
  <2>3. /\ RegisteredLine(ok, id) \in SomeLines
        /\ RegisteredLine(ok, id).ok = ok /\ RegisteredLine(ok, id).id = id
    BY LineFacts DEF RegisteredLine
  <2>4. Answers(out, cid') /\ Answers(lines, cid')
    BY <2>1, NoAnswerYet DEF LifeInv, TalkInv
  <2>5. Answers(out', cid') /\ Answers(lines', cid')
    BY <1>1, <2>2, <2>3, <2>4, AnswerFacts DEF TalkInv, Prints
  <2>6. LifeInv'
    BY <1>1, <2>1, <2>5, LifeFrame DEF LifeInv
  <2>7. FlossStep
    BY <2>1, <2>2 DEF FlossStep
  <2> QED
    BY <2>6, <2>7
<1>4. ASSUME NEW a \in Addrs, LinkUp(a) \/ DirectLinkUp(a) \/ ConnectFails(a)
      PROVE  LifeInv' /\ FlossStep
  <2>1. /\ UNCHANGED <<bt, cid>>
        /\ \E up \in BOOLEAN : Prints(ConnectionLine(a, up))
    BY <1>4 DEF LinkUp, DirectLinkUp, ConnectFails, btVars
  <2>2. \A up \in BOOLEAN : /\ ConnectionLine(a, up) \in SomeLines
                            /\ ConnectionLine(a, up).type # "registered"
    BY LineFacts DEF ConnectionLine
  <2> QED
    BY <1>2, <2>1, <2>2
<1>5. CASE LinkDown
  <2>1. UNCHANGED <<bt, cid>> /\ link \in Addrs /\ Prints(ConnectionLine(link, FALSE))
    BY <1>5 DEF LinkDown, btVars, TalkInv
  <2>2. /\ ConnectionLine(link, FALSE) \in SomeLines
        /\ ConnectionLine(link, FALSE).type # "registered"
    BY <2>1, LineFacts DEF ConnectionLine
  <2> QED
    BY <1>2, <2>1, <2>2
<1>6. ASSUME NEW a \in Addrs, Bond(a) PROVE LifeInv' /\ FlossStep
  <2>1. UNCHANGED <<bt, cid, out>>
    BY <1>6 DEF Bond, btVars
  <2>2. Answers(out', cid') /\ Answers(lines', cid')
    BY <1>1, <2>1 DEF LifeInv
  <2> QED
    BY <1>1, <2>1, <2>2, LifeFrame DEF LifeInv, FlossStep
<1>7. ASSUME NEW h \in Elems(Handles), Report(h) PROVE LifeInv' /\ FlossStep
  <2>1. UNCHANGED <<bt, cid>> /\ Prints(NotificationLine(link, h))
    BY <1>7 DEF Report, btVars
  <2>2. /\ NotificationLine(link, h) \in SomeLines
        /\ NotificationLine(link, h).type # "registered"
    BY LineFacts DEF NotificationLine, TalkInv
  <2> QED
    BY <1>2, <2>1, <2>2
<1>8. CASE BtExit
  <2>1. bt = "running" /\ bt' = "exited" /\ UNCHANGED <<cid, out>>
    BY <1>8 DEF BtExit, BtGone
  <2>2. Answers(out, cid)' /\ Answers(lines, cid)'
    BY <1>1, <2>1 DEF LifeInv, Answers
  <2> QED
    BY <1>1, <2>1, <2>2 DEF LifeInv, FlossStep
<1> QED
  BY <1>3, <1>4, <1>5, <1>6, <1>7, <1>8 DEF External, DirectExternal

LEMMA LifeInitially == EitherInit => LifeInv
BY DEF EitherInit, Init, BtInit, LifeInv, Answers, Down

LEMMA LifeStep ==
  TalkInv /\ CandidateInv /\ RegInv /\ LifeInv /\ [EitherNext]_eitherVars => LifeInv'
<1> SUFFICES ASSUME TalkInv, CandidateInv, RegInv, LifeInv, [EitherNext]_eitherVars
             PROVE  LifeInv'
  OBVIOUS
<1>1. CASE direct /\ DirectNext /\ UNCHANGED direct
  BY <1>1, LifePlain, LifeSelect, LifeLine, LifeTyped, LifeChild, LifeExternal
     DEF DirectNext, DirectProcess, DirectStart, DirectLines, DirectTail, DirectEnd
<1>2. CASE ~direct /\ Next /\ UNCHANGED direct
  BY <1>2, LifePlain, LifeSelect, LifeLine, LifePublish, LifeTyped, LifeChild, LifeExternal
     DEF Next, Process
<1>3. CASE UNCHANGED eitherVars
  <2>1. UNCHANGED <<out, lines, bt, cid, pc, registered, idFile, direct>>
    BY <1>3 DEF eitherVars, vars, localVars, quietVars, regVars, btClientVars, btVars
  <2>2. Answers(out', cid') /\ Answers(lines', cid')
    BY <2>1 DEF LifeInv
  <2> QED
    BY <2>1, <2>2, LifeFrame DEF LifeInv
<1> QED
  BY <1>1, <1>2, <1>3 DEF EitherNext

-----------------------------------------------------------------------------
\* The phase a place in main stands for.
LEMMA PhaseFacts ==
  LifeInv => /\ pc = "start" => phaseOf = "none"
             /\ pc \in Down => phaseOf = "down"
             /\ Ended => phaseOf = "exited"
             /\ Running /\ pc \notin Down /\ idFile # NoId => phaseOf = "published"
             /\ Running /\ pc \notin Down /\ idFile = NoId => phaseOf = "up"
BY DEF LifeInv, phaseOf, Down, Ended, Running

LEMMA PhaseFactsNext ==
  LifeInv' => (/\ pc = "start" => phaseOf = "none"
               /\ pc \in Down => phaseOf = "down"
               /\ Ended => phaseOf = "exited"
               /\ Running /\ pc \notin Down /\ idFile # NoId => phaseOf = "published"
               /\ Running /\ pc \notin Down /\ idFile = NoId => phaseOf = "up")'
BY PhaseFacts, PTL

\* A step of the lifecycle, or none.
LifeMoves == [Life!LifeNext]_(Life!bridgeVars)

LEMMA NoMove ==
  ASSUME LifeInv, LifeInv', UNCHANGED <<bt, cid, idFile>>,
         \/ pc' = pc
         \/ pc \in Main /\ pc' \in Main
         \/ pc \in Down /\ pc' \in Down
  PROVE  LifeMoves
<1>1. phaseOf' = phaseOf
  <2>1. CASE pc' = pc
    BY <2>1 DEF phaseOf, Running, Ended
  <2>2. CASE pc \in Main /\ pc' \in Main
    BY <2>2, PhaseFacts, PhaseFactsNext DEF Main, Down, Running
  <2>3. CASE pc \in Down /\ pc' \in Down
    BY <2>3, PhaseFacts, PhaseFactsNext DEF Down
  <2> QED
    BY <2>1, <2>2, <2>3
<1> QED
  BY <1>1 DEF LifeMoves, Life!bridgeVars

LEMMA StartMove == LifeInv /\ LifeInv' /\ RegInv /\ Begin => LifeMoves
<1> SUFFICES ASSUME LifeInv, LifeInv', RegInv, Begin PROVE LifeMoves
  OBVIOUS
<1>1. pc = "start" /\ pc' = "create" /\ UNCHANGED <<bt, cid, idFile, registered>>
  BY DEF Begin, quietVars, regVars, btClientVars, btVars
<1>2. ~registered /\ cid = NoId /\ bt = "none" /\ idFile = NoId
  BY <1>1 DEF LifeInv, RegInv, Before, After, Early, Asked
<1>3. phaseOf = "none" /\ phaseOf' = "up"
  BY <1>1, <1>2, PhaseFacts, PhaseFactsNext DEF Running, Down
<1>4. Life!Start
  BY <1>1, <1>2, <1>3 DEF Life!Start, NoId, Life!NoId
<1> QED
  BY <1>4 DEF LifeMoves, Life!LifeNext

LEMMA CreateMove == LifeInv /\ LifeInv' /\ RegInv /\ Create => LifeMoves
<1> SUFFICES ASSUME LifeInv, LifeInv', RegInv, Create PROVE LifeMoves
  OBVIOUS
<1>1. pc = "create" /\ UNCHANGED <<cid, idFile, registered>>
  BY DEF Create, quietVars, regVars, btClientVars, btVars
<1>2. ~registered /\ cid = NoId /\ bt = "none" /\ idFile = NoId
  BY <1>1 DEF LifeInv, RegInv, Before, After, Early, Asked
<1>3. phaseOf = "up"
  BY <1>1, <1>2, PhaseFacts DEF Running, Down
<1>4. CASE pc' = "bind" /\ bt' = "running"
  <2>1. phaseOf' = "up"
    BY <1>1, <1>2, <1>4, PhaseFactsNext DEF Running, Down
  <2>2. Life!Spawn
    BY <1>1, <1>2, <1>3, <1>4, <2>1 DEF Life!Spawn
  <2> QED
    BY <2>2 DEF LifeMoves, Life!LifeNext
<1>5. CASE pc' = "done" /\ bt' = bt
  <2>1. phaseOf' = "exited"
    BY <1>5, PhaseFactsNext DEF Ended
  <2>2. Life!Abort
    BY <1>1, <1>2, <1>3, <1>5, <2>1 DEF Life!Abort
  <2> QED
    BY <2>2 DEF LifeMoves, Life!LifeNext
<1> QED
  BY <1>4, <1>5 DEF Create

\* Neither variant leaves the loop with a file.
LEMMA DownMove ==
  ASSUME LifeInv, LifeInv', UNCHANGED direct, Unlink \/ (LeaveLoop /\ direct)
  PROVE  LifeMoves
<1>1. pc = "unlink" /\ pc' = "disconnect" /\ UNCHANGED <<bt, cid>> /\ idFile' = NoId
  BY DEF Unlink, LeaveLoop, LifeInv, quietVars, regVars, btClientVars, btVars
<1>2. bt # "none" /\ phaseOf \in {"up", "published"} /\ phaseOf' = "down"
  BY <1>1, PhaseFacts, PhaseFactsNext DEF LifeInv, Running, Down
<1>3. Life!TearDown
  BY <1>1, <1>2 DEF Life!TearDown, NoId, Life!NoId
<1> QED
  BY <1>3 DEF LifeMoves, Life!LifeNext

LEMMA EndMove == LifeInv /\ LifeInv' /\ (Destroy \/ Killed) => LifeMoves
<1> SUFFICES ASSUME LifeInv, LifeInv', Destroy \/ Killed PROVE LifeMoves
  OBVIOUS
<1>1. UNCHANGED <<bt, cid, idFile>> /\ Running /\ pc' \in {"done", "killed"}
  BY DEF Destroy, Killed, Running, quietVars, regVars, btClientVars, btVars
<1>2. phaseOf \in {"up", "published", "down"} /\ phaseOf' = "exited"
  BY <1>1, PhaseFacts, PhaseFactsNext DEF Ended
<1>3. Life!Kill
  BY <1>1, <1>2 DEF Life!Kill
<1> QED
  BY <1>3 DEF LifeMoves, Life!LifeNext

LEMMA QuitMove == LifeInv /\ LifeInv' /\ Quit => LifeMoves
<1> SUFFICES ASSUME LifeInv, LifeInv', Quit PROVE LifeMoves
  OBVIOUS
<1>1. /\ UNCHANGED <<cid, idFile>> /\ pc = "quit" /\ pc' = "destroy"
      /\ bt' = bt \/ bt' = "exited"
  BY DEF Quit, BtGone, quietVars, regVars, btClientVars, btVars
<1>2. CASE bt' = bt
  BY <1>1, <1>2, NoMove DEF Down
<1>3. CASE bt' = "exited" /\ bt' # bt
  <2>1. bt = "running" /\ phaseOf' = phaseOf
    BY <1>1, <1>3, PhaseFacts, PhaseFactsNext DEF LifeInv, Down
  <2>2. Life!BtExit
    BY <1>1, <1>3, <2>1 DEF Life!BtExit
  <2> QED
    BY <2>2 DEF LifeMoves, Life!LifeNext
<1> QED
  BY <1>1, <1>2, <1>3

LEMMA PublishMove ==
  ASSUME TalkInv, LifeInv, LifeInv', UNCHANGED direct, ~direct, OnRegistered
  PROVE  LifeMoves
<1>1. /\ UNCHANGED <<bt, cid>> /\ pc = "line" /\ pc' \in {"line", "unlink"}
      /\ \/ idFile' = idFile
         \/ idFile = NoId /\ idFile' = cid /\ cid # NoId
  BY LifePublish
<1>2. CASE idFile' = idFile
  BY <1>1, <1>2, NoMove DEF Main
<1>3. CASE idFile = NoId /\ idFile' = cid /\ cid # NoId
  <2>1. phaseOf = "up" /\ phaseOf' = "published"
    BY <1>1, <1>3, PhaseFacts, PhaseFactsNext DEF Running, Down
  <2>2. Life!Publish
    BY <1>1, <1>3, <2>1 DEF Life!Publish, NoId, Life!NoId
  <2> QED
    BY <2>2 DEF LifeMoves, Life!LifeNext
<1> QED
  BY <1>1, <1>2, <1>3

LEMMA FlossMove ==
  ASSUME LifeInv, LifeInv', UNCHANGED <<pc, idFile>>, FlossStep
  PROVE  LifeMoves
<1>1. phaseOf' = phaseOf
  BY DEF phaseOf, Running, Ended
<1>2. CASE UNCHANGED <<bt, cid>>
  BY <1>2, NoMove
<1>3. ASSUME NEW id \in ClientIds, bt = "running", cid = NoId, cid' = id, bt' = bt
      PROVE  LifeMoves
  <2>1. id # NoId
    BY BtAssumption DEF NoId
  <2>2. Life!Register(id)
    BY <1>1, <1>3, <2>1 DEF Life!Register, NoId, Life!NoId
  <2> QED
    BY <2>2 DEF LifeMoves, Life!LifeNext
<1>4. CASE bt = "running" /\ bt' = "exited" /\ cid' = cid
  <2>1. Life!BtExit
    BY <1>1, <1>4 DEF Life!BtExit
  <2> QED
    BY <2>1 DEF LifeMoves, Life!LifeNext
<1> QED
  BY <1>2, <1>3, <1>4 DEF FlossStep

\* The other steps are not seen from outside.
LEMMA InnerMove ==
  ASSUME LifeInv, LifeInv',
         \/ Bind \/ Select \/ NoMoreLines \/ OnDevice \/ DirectRegistered
         \/ OnConnection \/ OnNotification \/ Setup \/ Mode \/ Retry \/ Poll
         \/ Signal \/ Cooled \/ RetryTick
  PROVE  LifeMoves
<1>1. UNCHANGED <<bt, cid, idFile>>
  BY DEF Bind, Select, NoMoreLines, OnDevice, DirectRegistered, OnConnection,
     OnNotification, NextLine, Setup, Mode, Retry, Poll, Signal, Cooled, RetryTick,
     quietVars, regVars, btClientVars, btVars
<1>2. pc' = pc \/ (pc \in Main /\ pc' \in Main)
  BY DEF Bind, Select, NoMoreLines, OnDevice, DirectRegistered, OnConnection,
     OnNotification, NextLine, Setup, Mode, Retry, Poll, Signal, Cooled, RetryTick, Raise,
     Main
<1> QED
  BY <1>1, <1>2, NoMove

LEMMA TypedMove ==
  ASSUME TalkInv, CandidateInv, LifeInv, LifeInv', UNCHANGED direct, Send \/ Disconnect
  PROVE  LifeMoves
<1>1. UNCHANGED <<bt, cid, idFile>>
  BY LifeTyped
<1>2. \/ pc \in Main /\ pc' \in Main
      \/ pc \in Down /\ pc' \in Down
  BY DEF Send, Disconnect, Raise, Main, Down
<1> QED
  BY <1>1, <1>2, NoMove

LEMMA EveryMove ==
  TalkInv /\ CandidateInv /\ RegInv /\ LifeInv /\ LifeInv' /\ [EitherNext]_eitherVars
  => LifeMoves
<1> SUFFICES ASSUME TalkInv, CandidateInv, RegInv, LifeInv, LifeInv',
                    [EitherNext]_eitherVars
             PROVE  LifeMoves
  OBVIOUS
<1>1. ASSUME External \/ DirectExternal, UNCHANGED localVars, UNCHANGED direct
      PROVE  LifeMoves
  <2>1. FlossStep
    BY <1>1, LifeExternal
  <2>2. UNCHANGED <<pc, idFile>>
    BY <1>1 DEF localVars, quietVars, regVars
  <2> QED
    BY <2>1, <2>2, FlossMove
<1>2. CASE direct /\ DirectNext /\ UNCHANGED direct
  BY <1>1, <1>2, StartMove, CreateMove, DownMove, EndMove, QuitMove, InnerMove, TypedMove
     DEF DirectNext, DirectProcess, DirectStart, DirectLines, DirectTail, DirectEnd
<1>3. CASE ~direct /\ Next /\ UNCHANGED direct
  BY <1>1, <1>3, StartMove, CreateMove, DownMove, EndMove, QuitMove, InnerMove, TypedMove,
     PublishMove
     DEF Next, Process
<1>4. CASE UNCHANGED eitherVars
  <2>1. UNCHANGED <<bt, cid, pc, idFile>>
    BY <1>4 DEF eitherVars, vars, localVars, quietVars, regVars, btClientVars, btVars
  <2> QED
    BY <2>1, NoMove
<1> QED
  BY <1>2, <1>3, <1>4 DEF EitherNext

LEMMA LifeStarts == EitherInit => Life!LifeInit
<1> SUFFICES ASSUME EitherInit PROVE Life!LifeInit
  OBVIOUS
<1>1. pc = "start" /\ bt = "none" /\ cid = NoId /\ idFile = NoId
  BY DEF EitherInit, Init, BtInit
<1>2. phaseOf = "none"
  BY LifeInitially, <1>1, PhaseFacts
<1> QED
  BY <1>1, <1>2 DEF Life!LifeInit, NoId, Life!NoId

\* Each variant is a lifetime of the bridge as the watchdog and the filter
\* know it: registered before it publishes, the file gone before the client,
\* the id in the file its own, whatever fails or is killed.
THEOREM BridgeIsALife == EitherSpec => ImplementsLife
<1>1. TalkInv /\ CandidateInv /\ RegInv /\ LifeInv /\ LifeInv' /\ [EitherNext]_eitherVars
        => [Life!LifeNext]_(Life!bridgeVars)
  BY EveryMove DEF LifeMoves
<1> QED
  BY <1>1, Initially, EitherStep, RegInitially, RegStep, LifeInitially, LifeStep,
     LifeStarts, PTL
     DEF EitherSpec, ImplementsLife, Life!LifeSpec
=============================================================================
