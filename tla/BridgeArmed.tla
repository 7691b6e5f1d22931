----------------------------- MODULE BridgeArmed -----------------------------
(***************************************************************************)
(* Proofs that both variants of the bridge follow the connection they talk *)
(* about, for any number of addresses, handles and client ids: no report   *)
(* is dropped because the bridge has moved on to another candidate, and a  *)
(* bridge with nothing left to do that takes itself to be armed is.        *)
(*                                                                         *)
(* What the bridge knows lags behind Floss by the lines it has not handled *)
(* yet.  The argument replays them: taken in order from the address the    *)
(* bridge is connected to now, they lead to the link that exists.          *)
(***************************************************************************)
EXTENDS BridgeProofs, SequenceTheorems

AnyAddr == Addrs \cup {NoAddr}

\* The lines that are printed and not handled yet, the oldest first.
Stream == lines \o out

\* The address the bridge is connected to, as far as it knows.
Current == IF connected THEN address ELSE NoAddr

\* What a line makes of it, when the address of the line is a candidate.
Heard(a, l) ==
  IF l.type = "connection" /\ l.up THEN l.addr
  ELSE IF l.type = "connection" /\ l.addr = a THEN NoAddr
  ELSE a

\* f is what the bridge knows before and after each of the lines of s, which
\* it starts on knowing a; no report is of another address.
Follows(f, s, a) ==
  /\ f[0] = a
  /\ \A i \in 1..Len(s) : /\ f[i] = Heard(f[i - 1], s[i])
                          /\ s[i].type = "notification" => s[i].addr = f[i - 1]

Told(s, a, e) == \E f \in [0..Len(s) -> AnyAddr] : Follows(f, s, a) /\ f[Len(s)] = e

LEMMA HeardFacts ==
  ASSUME NEW a \in AnyAddr, NEW l \in SomeLines
  PROVE  Heard(a, l) \in AnyAddr
BY LineFacts DEF Heard, AnyAddr

LEMMA ToldNothing ==
  /\ \A a \in AnyAddr : Told(<<>>, a, a)
  /\ \A a, e : Told(<<>>, a, e) => a = e
<1>1. ASSUME NEW a \in AnyAddr PROVE Told(<<>>, a, a)
  <2> DEFINE f == [i \in 0..0 |-> a]
  <2>1. f \in [0..0 -> AnyAddr] /\ f[0] = a
    OBVIOUS
  <2>2. Len(<<>>) = 0
    OBVIOUS
  <2> HIDE DEF f
  <2>3. Follows(f, <<>>, a)
    BY <2>1, <2>2 DEF Follows
  <2> QED
    BY <2>1, <2>2, <2>3 DEF Told
<1> QED
  BY <1>1 DEF Told, Follows

\* The first of the lines is handled.
LEMMA ToldTail ==
  ASSUME NEW s \in Seq(SomeLines), s # <<>>, NEW a, NEW e, Told(s, a, e)
  PROVE  /\ Told(Tail(s), Heard(a, Head(s)), e)
         /\ Head(s).type = "notification" => Head(s).addr = a
<1>1. PICK f \in [0..Len(s) -> AnyAddr] : Follows(f, s, a) /\ f[Len(s)] = e
  BY DEF Told
<1>2. /\ Len(s) \in Nat \ {0} /\ Len(Tail(s)) = Len(s) - 1 /\ Head(s) = s[1]
      /\ \A i \in 1..Len(Tail(s)) : Tail(s)[i] = s[i + 1]
  OBVIOUS
<1> DEFINE g == [i \in 0..(Len(s) - 1) |-> f[i + 1]]
<1>3. \A i \in 0..(Len(s) - 1) : i + 1 \in 0..Len(s) /\ g[i] = f[i + 1]
  BY <1>2
<1>4. g \in [0..(Len(s) - 1) -> AnyAddr]
  BY <1>3
<1>5. /\ f[0] = a
      /\ \A i \in 1..Len(s) : /\ f[i] = Heard(f[i - 1], s[i])
                              /\ s[i].type = "notification" => s[i].addr = f[i - 1]
  BY <1>1 DEF Follows
<1>6. f[1] = Heard(a, s[1]) /\ (s[1].type = "notification" => s[1].addr = a)
  BY <1>2, <1>5
<1>7. g[0] = Heard(a, Head(s)) /\ g[Len(s) - 1] = e
  BY <1>1, <1>2, <1>3, <1>6
<1>8. ASSUME NEW i \in 1..(Len(s) - 1)
      PROVE  /\ g[i] = Heard(g[i - 1], Tail(s)[i])
             /\ Tail(s)[i].type = "notification" => Tail(s)[i].addr = g[i - 1]
  <2>1. i + 1 \in 1..Len(s) /\ (i + 1) - 1 = i /\ i - 1 \in 0..(Len(s) - 1)
        /\ i \in 0..(Len(s) - 1) /\ (i - 1) + 1 = i
    BY <1>2
  <2>2. g[i] = f[i + 1] /\ g[i - 1] = f[i] /\ Tail(s)[i] = s[i + 1]
    BY <1>2, <1>3, <2>1
  <2> HIDE DEF g
  <2> QED
    BY <1>5, <2>1, <2>2
<1> HIDE DEF g
<1>9. Follows(g, Tail(s), Heard(a, Head(s)))
  BY <1>2, <1>7, <1>8 DEF Follows
<1> QED
  BY <1>2, <1>4, <1>6, <1>7, <1>9 DEF Told

\* One more is printed; a report is of the address that is connected by then.
LEMMA ToldAppend ==
  ASSUME NEW s \in Seq(SomeLines), NEW a, NEW e, Told(s, a, e),
         NEW l \in SomeLines, l.type = "notification" => l.addr = e
  PROVE  Told(Append(s, l), a, Heard(e, l))
<1>1. PICK f \in [0..Len(s) -> AnyAddr] : Follows(f, s, a) /\ f[Len(s)] = e
  BY DEF Told
<1> DEFINE n == Len(s) + 1
           t == Append(s, l)
           g == [i \in 0..n |-> IF i = n THEN Heard(e, l) ELSE f[i]]
<1>2. /\ Len(s) \in Nat /\ Len(t) = n /\ t[n] = l
      /\ \A i \in 1..Len(s) : t[i] = s[i]
  OBVIOUS
<1>3. Heard(e, l) \in AnyAddr
  BY <1>1, <1>2, HeardFacts
<1>4. g \in [0..n -> AnyAddr] /\ g[n] = Heard(e, l) /\ \A i \in 0..Len(s) : g[i] = f[i]
  <2>1. \A i \in 0..n : i # n => i \in 0..Len(s)
    BY <1>2
  <2>2. \A i \in 0..n : (IF i = n THEN Heard(e, l) ELSE f[i]) \in AnyAddr
    BY <1>3, <2>1
  <2>3. g \in [0..n -> AnyAddr]
    BY <2>2
  <2>4. n \in 0..n /\ \A i \in 0..Len(s) : i \in 0..n /\ i # n
    BY <1>2
  <2> QED
    BY <2>3, <2>4
<1>5. /\ f[0] = a
      /\ \A i \in 1..Len(s) : /\ f[i] = Heard(f[i - 1], s[i])
                              /\ s[i].type = "notification" => s[i].addr = f[i - 1]
  BY <1>1 DEF Follows
<1>6. \A i \in 1..Len(s) : i \in 0..Len(s) /\ i - 1 \in 0..Len(s)
  BY <1>2
<1>7. n - 1 = Len(s) /\ Len(s) \in 0..Len(s) /\ 0 \in 0..Len(s)
  BY <1>2
<1>8. \A i \in 1..n : i = n \/ i \in 1..Len(s)
  BY <1>2
<1> HIDE DEF g, t, n
<1>9. ASSUME NEW i \in 1..n
      PROVE  /\ g[i] = Heard(g[i - 1], t[i])
             /\ t[i].type = "notification" => t[i].addr = g[i - 1]
  <2>1. CASE i = n
    BY <1>1, <1>2, <1>4, <1>7, <2>1
  <2>2. CASE i \in 1..Len(s)
    BY <1>2, <1>4, <1>5, <1>6, <2>2
  <2> QED
    BY <1>8, <2>1, <2>2
<1>10. Follows(g, t, a)
  BY <1>2, <1>4, <1>5, <1>7, <1>9 DEF Follows
<1>11. Told(t, a, Heard(e, l))
  BY <1>2, <1>4, <1>10 DEF Told
<1> QED
  BY <1>11 DEF t

\* Device lines say nothing of a connection.
LEMMA ToldDevices ==
  ASSUME NEW s \in Seq(SomeLines), NEW a, NEW e, Told(s, a, e),
         NEW t \in Seq(SomeLines), \A i \in 1..Len(t) : t[i].type = "device"
  PROVE  Told(s \o t, a, e)
<1>1. PICK f \in [0..Len(s) -> AnyAddr] : Follows(f, s, a) /\ f[Len(s)] = e
  BY DEF Told
<1> DEFINE n == Len(s) + Len(t)
           u == s \o t
           g == [i \in 0..n |-> IF i <= Len(s) THEN f[i] ELSE e]
<1>2. /\ Len(s) \in Nat /\ Len(t) \in Nat /\ Len(u) = n
      /\ \A i \in 1..Len(s) : u[i] = s[i]
      /\ \A i \in 1..n : i > Len(s) => u[i] = t[i - Len(s)]
  OBVIOUS
<1>3. /\ g \in [0..n -> AnyAddr]
      /\ \A i \in 0..Len(s) : g[i] = f[i]
      /\ \A i \in 0..n : i >= Len(s) => g[i] = e
  <2>1. e \in AnyAddr
    BY <1>1, <1>2
  <2>2. \A i \in 0..n : i <= Len(s) => i \in 0..Len(s)
    BY <1>2
  <2>3. \A i \in 0..n : (IF i <= Len(s) THEN f[i] ELSE e) \in AnyAddr
    BY <2>1, <2>2
  <2>4. g \in [0..n -> AnyAddr]
    BY <2>3
  <2>5. \A i \in 0..Len(s) : i \in 0..n /\ i <= Len(s)
    BY <1>2
  <2>6. \A i \in 0..n : i >= Len(s) => i = Len(s) \/ ~(i <= Len(s))
    BY <1>2
  <2> QED
    BY <1>1, <2>4, <2>5, <2>6
<1>4. /\ f[0] = a
      /\ \A i \in 1..Len(s) : /\ f[i] = Heard(f[i - 1], s[i])
                              /\ s[i].type = "notification" => s[i].addr = f[i - 1]
  BY <1>1 DEF Follows
<1>5. \A i \in 1..Len(s) : i \in 0..Len(s) /\ i - 1 \in 0..Len(s)
  BY <1>2
<1>6. \A i \in 1..n : ~(i \in 1..Len(s)) =>
        /\ i > Len(s) /\ i >= Len(s) /\ i \in 0..n
        /\ i - 1 \in 0..n /\ i - 1 >= Len(s)
        /\ i - Len(s) \in 1..Len(t)
  BY <1>2
<1>7. 0 \in 0..Len(s) /\ n \in 0..n /\ n >= Len(s)
  BY <1>2
<1> HIDE DEF g, u, n
<1>8. ASSUME NEW i \in 1..n
      PROVE  /\ g[i] = Heard(g[i - 1], u[i])
             /\ u[i].type = "notification" => u[i].addr = g[i - 1]
  <2>1. CASE i \in 1..Len(s)
    BY <1>2, <1>3, <1>4, <1>5, <2>1
  <2>2. CASE ~(i \in 1..Len(s))
    <3>1. u[i].type = "device" /\ g[i] = e /\ g[i - 1] = e
      BY <1>2, <1>3, <1>6, <2>2
    <3> QED
      BY <3>1 DEF Heard
  <2> QED
    BY <2>1, <2>2
<1>9. Follows(g, u, a)
  BY <1>2, <1>3, <1>4, <1>7, <1>8 DEF Follows
<1>10. Told(u, a, e)
  BY <1>2, <1>3, <1>7, <1>9 DEF Told
<1> QED
  BY <1>10 DEF u

-----------------------------------------------------------------------------
\* How the steps move the lines.

LEMMA StreamFacts ==
  ASSUME NEW S, NEW s \in Seq(S), NEW t \in Seq(S)
  PROVE  /\ s \o t \in Seq(S)
         /\ <<>> \o t = t /\ t \o <<>> = t
         /\ s # <<>> => /\ s \o t # <<>>
                        /\ Head(s \o t) = Head(s)
                        /\ Tail(s \o t) = Tail(s) \o t
         /\ \A x \in S : s \o Append(t, x) = Append(s \o t, x)
         /\ \A u \in Seq(S) : s \o (t \o u) = (s \o t) \o u
<1>1. s \o t \in Seq(S) /\ <<>> \o t = t /\ t \o <<>> = t
  BY ConcatEmptySeq
<1>2. ASSUME s # <<>>
      PROVE  s \o t # <<>> /\ Head(s \o t) = Head(s) /\ Tail(s \o t) = Tail(s) \o t
  <2>1. /\ Len(s) \in Nat \ {0} /\ Len(t) \in Nat /\ Len(s \o t) = Len(s) + Len(t)
        /\ \A i \in 1..(Len(s) + Len(t)) :
             (s \o t)[i] = IF i <= Len(s) THEN s[i] ELSE t[i - Len(s)]
    BY <1>2, ConcatProperties
  <2>2. s \o t # <<>> /\ Head(s \o t) = Head(s)
    BY <1>1, <1>2, <2>1
  <2> DEFINE u == s \o t
             v == Tail(s) \o t
  <2>3. /\ Tail(s) \in Seq(S) /\ Len(Tail(s)) = Len(s) - 1
        /\ \A i \in 1..Len(Tail(s)) : Tail(s)[i] = s[i + 1]
    BY <1>2, HeadTailProperties
  <2>4. /\ Tail(u) \in Seq(S) /\ Len(Tail(u)) = Len(u) - 1
        /\ \A i \in 1..Len(Tail(u)) : Tail(u)[i] = u[i + 1]
    BY <1>1, <2>2, HeadTailProperties
  <2>5. /\ v \in Seq(S) /\ Len(v) = Len(Tail(s)) + Len(t)
        /\ \A i \in 1..(Len(Tail(s)) + Len(t)) :
             v[i] = IF i <= Len(Tail(s)) THEN Tail(s)[i] ELSE t[i - Len(Tail(s))]
    BY <2>3, ConcatProperties
  <2>6. Len(Tail(u)) = Len(v)
    BY <2>1, <2>3, <2>4, <2>5
  <2>7. ASSUME NEW i \in 1..Len(Tail(u)) PROVE Tail(u)[i] = v[i]
    <3>1. /\ i + 1 \in 1..(Len(s) + Len(t)) /\ i \in 1..(Len(Tail(s)) + Len(t))
          /\ i <= Len(Tail(s)) => i \in 1..Len(Tail(s))
          /\ (i + 1 <= Len(s)) = (i <= Len(Tail(s)))
          /\ (i + 1) - Len(s) = i - Len(Tail(s))
      BY <2>1, <2>3, <2>4
    <3>2. Tail(u)[i] = IF i + 1 <= Len(s) THEN s[i + 1] ELSE t[(i + 1) - Len(s)]
      BY <2>1, <2>4, <3>1
    <3> HIDE DEF u, v
    <3> QED
      BY <2>3, <2>5, <3>1, <3>2
  <2>8. Tail(u) = v
    <3> HIDE DEF u, v
    <3> QED
      BY <2>4, <2>5, <2>6, <2>7, SeqEqual
  <2> QED
    BY <2>2, <2>8
<1>3. ASSUME NEW x \in S PROVE s \o Append(t, x) = Append(s \o t, x)
  OBVIOUS
<1>4. ASSUME NEW u \in Seq(S) PROVE s \o (t \o u) = (s \o t) \o u
  BY ConcatAssociative
<1> QED
  BY <1>1, <1>2, <1>3, <1>4

\* A line is printed by a btclient that runs.
Printed(l) ==
  /\ l \in SomeLines
  /\ Stream' = Append(Stream, l)
  /\ bt = "running" /\ bt' = bt
  /\ wanted' \subseteq wanted

\* A line is handled.
Handled ==
  OnDevice \/ OnRegistered \/ DirectRegistered \/ OnConnection \/ OnNotification

\* Nothing is printed or handled, and btclient stays what it is.
Still ==
  \/ Begin \/ Create \/ Bind \/ Select \/ NoMoreLines
  \/ Setup \/ Mode \/ Retry \/ Poll
  \/ Unlink \/ LeaveLoop \/ Destroy
  \/ Signal \/ Killed \/ Cooled \/ RetryTick

\* What was read has been handled before the tail of the loop starts, and
\* btclient is started once.
RoundInv ==
  /\ pc \in Early \cup {"select", "setup", "mode", "retry", "send", "poll"} => lines = <<>>
  /\ pc \in {"start", "create"} => bt = "none"

InLoop == pc \notin {"unlink", "disconnect", "quit", "destroy", "done", "killed"}

LEMMA StreamType == TalkInv => Stream \in Seq(SomeLines)
BY SeqFacts DEF TalkInv, Stream

LEMMA HandledMoves ==
  ASSUME TalkInv, Handled
  PROVE  /\ Stream # <<>> /\ Stream' = Tail(Stream)
         /\ Head(Stream) = Head(lines) /\ Head(lines) \in SomeLines
         /\ UNCHANGED btClientVars
         /\ pc = "line" /\ pc' \in {"line", "unlink"}
<1>1. /\ lines # <<>> /\ lines' = Tail(lines) /\ UNCHANGED btClientVars
      /\ pc = "line" /\ pc' \in {"line", "unlink"}
  BY DEF Handled, OnDevice, OnRegistered, DirectRegistered, OnConnection,
     OnNotification, NextLine, Raise
<1>2. out' = out
  BY <1>1 DEF btClientVars
<1>3. lines \in Seq(SomeLines) /\ out \in Seq(SomeLines)
  BY DEF TalkInv
<1>4. Head(lines) \in SomeLines
  BY <1>1, <1>3
<1>5. /\ lines \o out # <<>> /\ Head(lines \o out) = Head(lines)
      /\ Tail(lines \o out) = Tail(lines) \o out
  BY <1>1, <1>3, StreamFacts
<1> QED
  BY <1>1, <1>2, <1>4, <1>5 DEF Stream

LEMMA StillMoves ==
  ASSUME TalkInv, RegInv, RoundInv, Still
  PROVE  /\ Stream' = Stream
         /\ UNCHANGED <<wanted, link, enabled, connected, addresses>>
         /\ connected => address' = address
         /\ bt' = bt \/ (pc = "create" /\ bt' = "running")
         /\ InLoop' => InLoop
<1>1. UNCHANGED <<wanted, link, enabled, connected, addresses>>
  BY DEF Still, Begin, Create, Bind, Select, NoMoreLines, Setup, Mode, Retry, Poll,
     Unlink, LeaveLoop, Destroy, Signal, Killed, Cooled, RetryTick, quietVars,
     addrVars, connVars, btClientVars, linkVars
<1>2. bt' = bt \/ (pc = "create" /\ bt' = "running")
  BY DEF Still, Begin, Create, Bind, Select, NoMoreLines, Setup, Mode, Retry, Poll,
     Unlink, LeaveLoop, Destroy, Signal, Killed, Cooled, RetryTick,
     btClientVars, btVars
<1>3. InLoop' => InLoop
  BY DEF Still, Begin, Create, Bind, Select, NoMoreLines, Setup, Mode, Retry, Poll,
     Unlink, LeaveLoop, Destroy, Signal, Killed, Cooled, RetryTick, Raise, InLoop
<1>4. connected => address' = address
  BY DEF Still, Begin, Create, Bind, Select, NoMoreLines, Setup, Mode, Retry, Poll,
     Unlink, LeaveLoop, Destroy, Signal, Killed, Cooled, RetryTick, RetryWanted,
     quietVars, addrVars
<1>5. Stream' = Stream
  <2>1. CASE Select
    <3>1. lines = <<>> /\ out \in Seq(SomeLines)
      BY <2>1 DEF Select, RoundInv, TalkInv
    <3>2. <<>> \o out = out /\ out \o <<>> = out
      BY <3>1, ConcatEmptySeq
    <3>3. \/ lines' = out /\ out' = <<>>
          \/ UNCHANGED <<lines, out>>
      BY <2>1 DEF Select
    <3> QED
      BY <3>1, <3>2, <3>3 DEF Stream
  <2>2. CASE UNCHANGED <<lines, out>>
    BY <2>2 DEF Stream
  <2>3. ~Select => UNCHANGED <<lines, out>>
    BY DEF Still, Begin, Create, Bind, NoMoreLines, Setup, Mode, Retry, Poll,
       Unlink, LeaveLoop, Destroy, Signal, Killed, Cooled, RetryTick, btClientVars
  <2> QED
    BY <2>1, <2>2, <2>3
<1> QED
  BY <1>1, <1>2, <1>3, <1>4, <1>5

\* A command that is typed prints nothing, device lines or, when it connects
\* the address that is connected, that connection again.
LEMMA TypedMoves ==
  ASSUME TalkInv, UNCHANGED lines, NEW c, Type(c), c.op = "connect" => c.addr \in Addrs
  PROVE  \/ Stream' = Stream /\ UNCHANGED <<bt, wanted, linkVars>> /\ bt # "running"
         \/ /\ bt = "running" /\ bt' = bt
            /\ wanted' \subseteq wanted \/ (c.op = "connect" /\ wanted' = wanted \cup {c.addr})
            /\ \/ c.op = "disconnect" /\ NoLink
               \/ /\ UNCHANGED <<link, ptp>>
                  /\ enabled' = IF c.op = "notify" /\ link = c.addr
                                  THEN enabled \cup {c.handle} ELSE enabled
            /\ \/ Stream' = Stream
               \/ \E t \in Seq(SomeLines) : /\ Stream' = Stream \o t
                                            /\ \A i \in 1..Len(t) : t[i].type = "device"
               \/ /\ c.op = "connect" /\ link = c.addr
                  /\ Stream' = Append(Stream, ConnectionLine(c.addr, TRUE))
                  /\ ConnectionLine(c.addr, TRUE) \in SomeLines
<1>1. lines \in Seq(SomeLines) /\ out \in Seq(SomeLines) /\ bonded \in Seq(Addrs)
  BY DEF TalkInv
<1>2. CASE bt # "running" /\ UNCHANGED btClientVars
  BY <1>2 DEF btClientVars, btVars, Stream
<1>3. CASE Executes(c)
  <2>1. /\ bt = "running" /\ bt' = bt
        /\ \/ c.op = "disconnect" /\ NoLink
           \/ /\ UNCHANGED <<link, ptp>>
              /\ enabled' = IF c.op = "notify" /\ link = c.addr
                              THEN enabled \cup {c.handle} ELSE enabled
    BY <1>3 DEF Executes
  <2>7. wanted' \subseteq wanted \/ (c.op = "connect" /\ wanted' = wanted \cup {c.addr})
    <3>1. wanted' = CASE c.op = "connect" -> wanted \cup {c.addr}
                      [] c.op = "disconnect" -> wanted \ {c.addr}
                      [] OTHER -> wanted
      BY <1>3 DEF Executes
    <3> QED
      BY <3>1
  <2> DEFINE more == [i \in 1..Len(bonded) |-> DeviceLine(bonded[i])]
  <2>2. more \in Seq(SomeLines) /\ \A i \in 1..Len(more) : more[i].type = "device"
    <3>1. Len(bonded) \in Nat /\ \A i \in 1..Len(bonded) : bonded[i] \in Addrs
      BY <1>1
    <3>2. more \in [1..Len(bonded) -> SomeLines]
      BY <3>1, LineFacts
    <3>3. \A i \in 1..Len(bonded) : more[i].type = "device"
      BY DEF DeviceLine
    <3> HIDE DEF more
    <3> QED
      BY <3>1, <3>2, <3>3, FunctionIsSeq
  <2>3. \/ out' = out \o more
        \/ c.op = "connect" /\ link = c.addr /\ out' = Append(out, ConnectionLine(c.addr, TRUE))
        \/ out' = out
    BY <1>3 DEF Executes
  <2> HIDE DEF more
  <2>4. CASE out' = out \o more
    <3>1. Stream' = Stream \o more
      <4>1. lines \o (out \o more) = (lines \o out) \o more
        BY <1>1, <2>2, ConcatAssociative
      <4> QED
        BY <2>4, <4>1 DEF Stream
    <3> QED
      BY <2>1, <2>2, <2>7, <3>1
  <2>5. CASE /\ c.op = "connect" /\ link = c.addr
             /\ out' = Append(out, ConnectionLine(c.addr, TRUE))
    <3>1. ConnectionLine(c.addr, TRUE) \in SomeLines
      BY <2>5, LineFacts
    <3>2. Stream' = Append(Stream, ConnectionLine(c.addr, TRUE))
      <4> DEFINE l == ConnectionLine(c.addr, TRUE)
      <4>1. l \in SomeLines /\ out' = Append(out, l)
        BY <2>5, <3>1
      <4> HIDE DEF l
      <4>2. lines \o Append(out, l) = Append(lines \o out, l)
        BY <1>1, <4>1, StreamFacts
      <4>3. Stream' = Append(Stream, l)
        BY <4>1, <4>2 DEF Stream
      <4> QED
        BY <4>3 DEF l
    <3> QED
      BY <2>1, <2>5, <2>7, <3>1, <3>2
  <2>6. CASE out' = out
    BY <2>1, <2>6, <2>7 DEF Stream
  <2> QED
    BY <2>3, <2>4, <2>5, <2>6
<1> QED
  BY <1>2, <1>3 DEF Type

\* What Floss and the keyboard do: a line and the change it reports, a report,
\* a bond, or the end of btclient.
NoneSaid == Stream' = Stream /\ UNCHANGED <<bt, wanted, linkVars>>

RegisteredSaid ==
  \E l \in SomeLines : l.type = "registered" /\ Printed(l) /\ UNCHANGED linkVars

UpSaid ==
  \E a \in Addrs : /\ a \in wanted /\ link = NoAddr /\ link' = a
                   /\ UNCHANGED <<enabled, ptp>>
                   /\ Printed(ConnectionLine(a, TRUE))

DownSaid == link # NoAddr /\ NoLink /\ Printed(ConnectionLine(link, FALSE))

FailureSaid ==
  \E a \in Addrs : a # link /\ UNCHANGED linkVars /\ Printed(ConnectionLine(a, FALSE))

ReportSaid ==
  \E h \in Elems(Handles) : h \in enabled /\ UNCHANGED linkVars
                              /\ Printed(NotificationLine(link, h))

AllGone == Stream' = Stream /\ bt' = "exited" /\ wanted' = {} /\ NoLink

LEMMA ExternalMoves ==
  ASSUME TalkInv, UNCHANGED localVars, External \/ DirectExternal
  PROVE  \/ NoneSaid \/ RegisteredSaid \/ UpSaid \/ DownSaid \/ FailureSaid \/ ReportSaid
         \/ AllGone
<1>1. lines' = lines /\ lines \in Seq(SomeLines) /\ out \in Seq(SomeLines)
  BY DEF localVars, TalkInv
<1>2. ASSUME NEW l \in SomeLines, Prints(l), bt = "running", bt' = bt, wanted' \subseteq wanted
      PROVE  Printed(l)
  <2>1. lines \o Append(out, l) = Append(lines \o out, l)
    BY <1>1, StreamFacts
  <2>2. Stream' = Append(Stream, l)
    BY <1>1, <1>2, <2>1 DEF Prints, Stream
  <2> QED
    BY <1>2, <2>2 DEF Printed
<1>3. ASSUME NEW id \in ClientIds, RegisterReply(id) PROVE RegisteredSaid
  <2>1. PICK ok \in BOOLEAN : Prints(RegisteredLine(ok, id))
    BY <1>3 DEF RegisterReply
  <2>2. RegisteredLine(ok, id) \in SomeLines /\ RegisteredLine(ok, id).type = "registered"
    BY LineFacts DEF RegisteredLine
  <2>3. Printed(RegisteredLine(ok, id)) /\ UNCHANGED linkVars
    BY <1>2, <1>3, <2>1, <2>2 DEF RegisterReply
  <2> QED
    BY <2>2, <2>3 DEF RegisteredSaid
<1>4. ASSUME NEW a \in Addrs, LinkUp(a) \/ DirectLinkUp(a) PROVE UpSaid
  <2>1. ConnectionLine(a, TRUE) \in SomeLines
    BY LineFacts
  <2>2. Printed(ConnectionLine(a, TRUE))
    BY <1>2, <1>4, <2>1 DEF LinkUp, DirectLinkUp, Room, btVars
  <2> QED
    BY <1>4, <2>2 DEF UpSaid, LinkUp, DirectLinkUp
<1>5. ASSUME NEW a \in Addrs, ConnectFails(a) PROVE FailureSaid
  <2>1. ConnectionLine(a, FALSE) \in SomeLines
    BY LineFacts
  <2>2. Printed(ConnectionLine(a, FALSE))
    BY <1>2, <1>5, <2>1 DEF ConnectFails, Room, btVars
  <2> QED
    BY <1>5, <2>2 DEF FailureSaid, ConnectFails
<1>6. ASSUME NEW a \in Addrs, Bond(a) PROVE NoneSaid
  BY <1>1, <1>6 DEF Bond, NoneSaid, btVars, Stream
<1>7. ASSUME NEW h \in Elems(Handles), Report(h) PROVE ReportSaid
  <2>1. NotificationLine(link, h) \in SomeLines
    BY LineFacts DEF TalkInv
  <2>2. Printed(NotificationLine(link, h))
    BY <1>2, <1>7, <2>1 DEF Report, Room, btVars
  <2> QED
    BY <1>7, <2>2 DEF ReportSaid, Report
<1>8. CASE LinkDown
  <2>1. ConnectionLine(link, FALSE) \in SomeLines
    BY <1>8, LineFacts DEF LinkDown, TalkInv
  <2>2. Printed(ConnectionLine(link, FALSE))
    BY <1>2, <1>8, <2>1 DEF LinkDown, Room, btVars
  <2>3. DownSaid
    BY <1>8, <2>2 DEF DownSaid, LinkDown
  <2> QED
    BY <2>3
<1>9. CASE BtExit
  BY <1>1, <1>9 DEF BtExit, BtGone, AllGone, Stream
<1> QED
  BY <1>3, <1>4, <1>5, <1>6, <1>7, <1>8, <1>9 DEF External, DirectExternal

-----------------------------------------------------------------------------
\* What the bridge connects, waits for and hears of is a candidate.

IsUp(l) == l.type = "connection" /\ l.up

Known(s, K) == \A i \in 1..Len(s) : IsUp(s[i]) => s[i].addr \in K

Asks(q, K) ==
  \A i \in 1..Len(q) : /\ q[i].op = "connect" => q[i].addr \in K
                       /\ q[i].op = "notify" => q[i].addr # NoAddr

KnownInv ==
  /\ Known(Stream, Elems(addresses))
  /\ Asks(queue, Elems(addresses))
  /\ wanted \subseteq Elems(addresses)
  /\ link \in Elems(addresses) \cup {NoAddr}

LEMMA KnownFacts ==
  ASSUME NEW S, NEW s \in Seq(S), NEW K, Known(s, K)
  PROVE  /\ s # <<>> => Known(Tail(s), K) /\ (IsUp(Head(s)) => Head(s).addr \in K)
         /\ \A x \in S : (IsUp(x) => x.addr \in K) => Known(Append(s, x), K)
         /\ \A t \in Seq(S) : Known(t, K) => Known(s \o t, K)
         /\ \A M : K \subseteq M => Known(s, M)
<1> USE DEF Known
<1>1. s # <<>> => Known(Tail(s), K) /\ (IsUp(Head(s)) => Head(s).addr \in K)
  OBVIOUS
<1>2. \A x \in S : (IsUp(x) => x.addr \in K) => Known(Append(s, x), K)
  OBVIOUS
<1>3. \A t \in Seq(S) : Known(t, K) => Known(s \o t, K)
  OBVIOUS
<1>4. \A M : K \subseteq M => Known(s, M)
  OBVIOUS
<1> QED
  BY <1>1, <1>2, <1>3, <1>4

LEMMA AsksFacts ==
  ASSUME NEW S, NEW q \in Seq(S), NEW K, Asks(q, K)
  PROVE  /\ q # <<>> => /\ Asks(Tail(q), K)
                        /\ Head(q).op = "connect" => Head(q).addr \in K
                        /\ Head(q).op = "notify" => Head(q).addr # NoAddr
         /\ \A x \in S : (/\ x.op = "connect" => x.addr \in K
                          /\ x.op = "notify" => x.addr # NoAddr)
                           => Asks(Append(q, x), K)
         /\ \A t \in Seq(S) : Asks(t, K) => Asks(q \o t, K)
         /\ \A M : K \subseteq M => Asks(q, M)
<1> USE DEF Asks
<1>1. q # <<>> => /\ Asks(Tail(q), K)
                  /\ Head(q).op = "connect" => Head(q).addr \in K
                  /\ Head(q).op = "notify" => Head(q).addr # NoAddr
  OBVIOUS
<1>2. \A x \in S : (/\ x.op = "connect" => x.addr \in K
                    /\ x.op = "notify" => x.addr # NoAddr)
                     => Asks(Append(q, x), K)
  OBVIOUS
<1>3. \A t \in Seq(S) : Asks(t, K) => Asks(q \o t, K)
  OBVIOUS
<1>4. \A M : K \subseteq M => Asks(q, M)
  OBVIOUS
<1> QED
  BY <1>1, <1>2, <1>3, <1>4

LEMMA CandidateKnown ==
  ASSUME CandidateInv
  PROVE  /\ address # NoAddr => address \in Elems(addresses)
         /\ addresses # <<>> /\ Rotate /\ addresses' = addresses
              => address' \in Elems(addresses)
<1>1. ASSUME address # NoAddr PROVE address \in Elems(addresses)
  <2>1. /\ Len(addresses) \in Nat /\ index \in 0..(Len(addresses) - 1)
        /\ address = addresses[index + 1]
    BY <1>1 DEF CandidateInv
  <2> QED
    BY <2>1 DEF Elems
<1>2. ASSUME addresses # <<>>, Rotate, addresses' = addresses
      PROVE  address' \in Elems(addresses)
  <2>1. CandidateInv' /\ address' \in Addrs
    BY <1>2, RotateKeeps
  <2>2. /\ Len(addresses) \in Nat /\ index' \in 0..(Len(addresses) - 1)
        /\ address' = addresses[index' + 1]
    BY <1>2, <2>1 DEF CandidateInv
  <2> QED
    BY <2>2 DEF Elems
<1> QED
  BY <1>1, <1>2

LEMMA CommandOps ==
  /\ \A op \in {"list", "register", "transport", "auth", "direct"} : Cmd(op).op = op
  /\ \A a : Connect(a).op = "connect" /\ Connect(a).addr = a
  /\ \A a, h : Notify(a, h).op = "notify" /\ Notify(a, h).addr = a /\ Notify(a, h).handle = h
BY DEF Cmd, Connect, Notify

LEMMA KnownHandled == TalkInv /\ CandidateInv /\ KnownInv /\ Handled => KnownInv'
<1> SUFFICES ASSUME TalkInv, CandidateInv, KnownInv, Handled PROVE KnownInv'
  OBVIOUS
<1> DEFINE K == Elems(addresses)
<1>1. Stream' = Tail(Stream) /\ Stream # <<>> /\ UNCHANGED <<wanted, link>>
  BY HandledMoves DEF btClientVars, linkVars
<1>2. K \subseteq Elems(addresses')
  <2>1. CASE OnDevice
    <3>1. addresses' \in {addresses, Append(addresses, Head(lines).addr)}
      BY <2>1 DEF OnDevice
    <3>2. addresses \in Seq(Addrs)
      BY DEF CandidateInv
    <3>3. \A x : Elems(addresses) \subseteq Elems(Append(addresses, x))
      BY <3>2 DEF Elems
    <3> QED
      BY <3>1, <3>3
  <2>2. CASE ~OnDevice
    BY <2>2 DEF Handled, OnRegistered, DirectRegistered, OnConnection, OnNotification,
       addrVars
  <2> QED
    BY <2>1, <2>2
<1>3. Known(Tail(Stream), K)
  BY <1>1, StreamType, KnownFacts DEF KnownInv
<1>4. Known(Stream', Elems(addresses'))
  <2>1. Tail(Stream) \in Seq(SomeLines)
    BY <1>1, StreamType
  <2> QED
    BY <1>1, <1>2, <1>3, <2>1, KnownFacts
<1>5. queue' \in Seq(SomeCommands) /\ Asks(queue', K)
  <2>1. queue \in Seq(SomeCommands) /\ Asks(queue, K)
    BY DEF TalkInv, KnownInv
  <2>2. CASE queue' = queue
    BY <2>1, <2>2
  <2>3. CASE queue' = Append(queue, Cmd("register"))
    <3>1. Cmd("register") \in SomeCommands /\ Cmd("register").op = "register"
      BY CommandFacts, CommandOps
    <3> HIDE DEF K
    <3>2. Append(queue, Cmd("register")) \in Seq(SomeCommands)
      BY <2>1, <3>1, SeqFacts
    <3>3. Asks(Append(queue, Cmd("register")), K)
      BY <2>1, <3>1, AsksFacts
    <3> QED
      BY <2>3, <3>2, <3>3
  <2>4. CASE queue' = (queue \o Options) \o FirstConnect
    <3>1. Options \in Seq(SomeCommands) /\ Asks(Options, K)
      BY CommandFacts, CommandOps DEF Options, Asks
    <3>2. FirstConnect \in Seq(SomeCommands) /\ Asks(FirstConnect, K)
      <4>1. CASE address = NoAddr
        BY <4>1 DEF FirstConnect, Asks
      <4>2. CASE address # NoAddr
        <5>1. address \in K /\ address \in Addrs
          BY <4>2, CandidateKnown DEF CandidateInv
        <5>2. Connect(address) \in SomeCommands /\ FirstConnect = <<Connect(address)>>
          BY <4>2, <5>1, CommandFacts DEF FirstConnect
        <5> QED
          BY <5>1, <5>2, CommandOps DEF Asks
      <4> QED
        BY <4>1, <4>2
    <3> HIDE DEF K
    <3>3. queue \o Options \in Seq(SomeCommands) /\ Asks(queue \o Options, K)
      BY <2>1, <3>1, SeqFacts, AsksFacts
    <3>4. (queue \o Options) \o FirstConnect \in Seq(SomeCommands)
          /\ Asks((queue \o Options) \o FirstConnect, K)
      BY <3>2, <3>3, SeqFacts, AsksFacts
    <3> QED
      BY <2>4, <3>4
  <2> QED
    BY <2>2, <2>3, <2>4
       DEF Handled, OnDevice, OnRegistered, DirectRegistered, OnConnection, OnNotification
<1>6. Asks(queue', Elems(addresses'))
  BY <1>2, <1>5, AsksFacts
<1> QED
  BY <1>1, <1>2, <1>4, <1>6 DEF KnownInv

LEMMA KnownStill ==
  TalkInv /\ CandidateInv /\ RegInv /\ RoundInv /\ KnownInv /\ Still => KnownInv'
<1> SUFFICES ASSUME TalkInv, CandidateInv, RegInv, RoundInv, KnownInv, Still PROVE KnownInv'
  OBVIOUS
<1> DEFINE K == Elems(addresses)
<1>1. Stream' = Stream /\ UNCHANGED <<wanted, link, addresses>>
  BY StillMoves
<1>2. queue \in Seq(SomeCommands) /\ Asks(queue, K)
  BY DEF TalkInv, KnownInv
<1>3. Asks(queue', K)
  <2>1. CASE queue' = queue
    BY <1>2, <2>1
  <2>2. CASE Bind
    <3>1. queue' = queue \/ \E op \in {"list", "register"} : queue' = <<Cmd(op)>>
      BY <2>2 DEF Bind
    <3> QED
      BY <1>2, <3>1, CommandOps DEF Asks
  <2>3. CASE Setup /\ SetupDue
    <3> DEFINE more == [i \in 1..Len(Handles) |-> Notify(address, Handles[i])]
    <3>1. address # NoAddr
      BY <2>3 DEF RegInv, Before, After, SetupDue
    <3>2. queue' = queue \o more /\ queue = <<>>
      BY <2>3 DEF Setup, SetupDue
    <3>3. Len(Handles) \in Nat /\ \A i \in 1..Len(Handles) : Handles[i] \in Elems(Handles)
      BY BtAssumption DEF Elems
    <3>4. more \in [1..Len(Handles) -> SomeCommands]
      BY <3>3, CommandFacts DEF CandidateInv
    <3>5. \A i \in 1..Len(Handles) : more[i].op = "notify" /\ more[i].addr = address
      BY <3>3, CommandOps
    <3> HIDE DEF more
    <3>6. more \in Seq(SomeCommands) /\ Len(more) = Len(Handles)
      BY <3>3, <3>4, FunctionIsSeq
    <3>7. queue' = more
      BY <3>2, <3>6, ConcatEmptySeq
    <3> QED
      BY <3>1, <3>5, <3>6, <3>7 DEF Asks
  <2>4. CASE Retry /\ RetryWanted
    <3>1. queue' = Append(queue, Connect(address')) /\ Rotate /\ addresses # <<>>
      BY <2>4 DEF Retry, RetryWanted
    <3>2. address' \in K /\ address' \in Addrs
      BY <1>1, <3>1, CandidateKnown, RotateKeeps
    <3>3. Connect(address') \in SomeCommands
      BY <3>2, CommandFacts
    <3> HIDE DEF K
    <3>4. Asks(Append(queue, Connect(address')), K)
      BY <1>2, <3>2, <3>3, AsksFacts, CommandOps
    <3> QED
      BY <3>1, <3>4
  <2>5. queue' = queue \/ Bind \/ (Setup /\ SetupDue) \/ (Retry /\ RetryWanted)
    BY DEF Still, Begin, Create, Select, NoMoreLines, Setup, Mode, Retry, Poll,
       Unlink, LeaveLoop, Destroy, Signal, Killed, Cooled, RetryTick
  <2> QED
    BY <2>1, <2>2, <2>3, <2>4, <2>5
<1> QED
  BY <1>1, <1>3 DEF KnownInv

\* A command that asks for nothing but candidates changes nothing else.
LEMMA KnownTyped ==
  ASSUME TalkInv, KnownInv, UNCHANGED <<lines, addresses>>,
         NEW c, Type(c), c.op = "connect" => c.addr \in Elems(addresses) \cap Addrs,
         Asks(queue', Elems(addresses))
  PROVE  KnownInv'
<1> DEFINE K == Elems(addresses)
<1>1. Stream \in Seq(SomeLines) /\ Known(Stream, K)
  BY StreamType DEF KnownInv
<1>2. wanted' \subseteq K /\ link' \in K \cup {NoAddr}
  BY TypedMoves DEF KnownInv, NoLink, linkVars
<1>3. Known(Stream', K)
  <2>1. CASE Stream' = Stream
    BY <1>1, <2>1
  <2>2. ASSUME NEW t \in Seq(SomeLines), Stream' = Stream \o t,
               \A i \in 1..Len(t) : t[i].type = "device"
        PROVE  Known(Stream', K)
    <3>1. Known(t, K)
      BY <2>2 DEF Known, IsUp
    <3> HIDE DEF K
    <3> QED
      BY <1>1, <2>2, <3>1, KnownFacts
  <2>3. ASSUME c.op = "connect", Stream' = Append(Stream, ConnectionLine(c.addr, TRUE)),
               ConnectionLine(c.addr, TRUE) \in SomeLines
        PROVE  Known(Stream', K)
    <3> DEFINE l == ConnectionLine(c.addr, TRUE)
    <3>1. l.addr \in K /\ l \in SomeLines /\ Stream' = Append(Stream, l)
      BY <2>3 DEF ConnectionLine
    <3> HIDE DEF K, l
    <3> QED
      BY <1>1, <3>1, KnownFacts
  <2> QED
    BY <2>1, <2>2, <2>3, TypedMoves
<1> QED
  BY <1>2, <1>3 DEF KnownInv

LEMMA KnownSend ==
  TalkInv /\ CandidateInv /\ KnownInv /\ (Send \/ Disconnect \/ Quit) => KnownInv'
<1> SUFFICES ASSUME TalkInv, CandidateInv, KnownInv, Send \/ Disconnect \/ Quit
             PROVE  KnownInv'
  OBVIOUS
<1>1. UNCHANGED <<lines, addresses>>
  BY DEF Send, Disconnect, Quit, quietVars, addrVars
<1>2. CASE UNCHANGED <<btClientVars, queue>>
  BY <1>1, <1>2 DEF btClientVars, linkVars, KnownInv, Stream
<1>3. CASE Send /\ Type(Head(queue)) /\ queue # <<>> /\ queue' = Tail(queue)
  <2>1. queue \in Seq(SomeCommands) /\ Asks(queue, Elems(addresses))
    BY DEF TalkInv, KnownInv
  <2>2. Head(queue) \in SomeCommands
    BY <1>3, <2>1
  <2>3. /\ Asks(queue', Elems(addresses))
        /\ Head(queue).op = "connect" => Head(queue).addr \in Elems(addresses) \cap Addrs
    BY <1>3, <2>1, <2>2, AsksFacts, CommandFacts
  <2> QED
    BY <1>1, <1>3, <2>3, KnownTyped
<1>4. CASE Disconnect /\ Type([Connect(address) EXCEPT !.op = "disconnect"])
  <2>1. [Connect(address) EXCEPT !.op = "disconnect"].op = "disconnect"
    BY DEF Connect
  <2>2. Asks(queue', Elems(addresses))
    BY <1>4 DEF Disconnect, KnownInv
  <2> QED
    BY <1>1, <1>4, <2>1, <2>2, KnownTyped
<1>5. CASE Quit /\ BtGone
  BY <1>1, <1>5 DEF Quit, BtGone, NoLink, KnownInv, Stream
<1>6. CASE queue # <<>> /\ queue' = Tail(queue) /\ UNCHANGED btClientVars
  <2>1. Asks(queue', Elems(addresses))
    BY <1>6, AsksFacts DEF TalkInv, KnownInv
  <2> QED
    BY <1>1, <1>6, <2>1 DEF btClientVars, linkVars, KnownInv, Stream
<1> QED
  BY <1>2, <1>3, <1>4, <1>5, <1>6 DEF Send, Disconnect, Quit

LEMMA KnownExternal ==
  ASSUME TalkInv, KnownInv, External \/ DirectExternal, UNCHANGED localVars
  PROVE  KnownInv'
<1> DEFINE K == Elems(addresses)
<1>1. UNCHANGED <<addresses, queue>>
  BY DEF localVars, quietVars, addrVars
<1>2. Stream \in Seq(SomeLines) /\ Known(Stream, K) /\ Asks(queue, K)
      /\ wanted \subseteq K /\ link \in K \cup {NoAddr}
  BY StreamType DEF KnownInv
<1>3. ASSUME NEW l, Printed(l), IsUp(l) => l.addr \in K PROVE Known(Stream', K)
  <2> HIDE DEF K
  <2> QED
    BY <1>2, <1>3, KnownFacts DEF Printed
<1>4. ASSUME Known(Stream', K), wanted' \subseteq wanted, link' \in wanted \cup {link, NoAddr}
      PROVE  KnownInv'
  BY <1>1, <1>2, <1>4 DEF KnownInv
<1>5. \A a : ~IsUp(ConnectionLine(a, FALSE)) /\ ConnectionLine(a, TRUE).addr = a
  BY DEF IsUp, ConnectionLine
<1>6. CASE NoneSaid
  BY <1>2, <1>4, <1>6 DEF NoneSaid, linkVars
<1>7. CASE RegisteredSaid
  BY <1>3, <1>4, <1>7 DEF RegisteredSaid, Printed, IsUp, linkVars
<1>8. CASE UpSaid
  <2>1. PICK a \in Addrs : a \in wanted /\ link' = a /\ Printed(ConnectionLine(a, TRUE))
    BY <1>8 DEF UpSaid
  <2>2. Known(Stream', K)
    BY <1>2, <1>3, <1>5, <2>1
  <2> QED
    BY <1>4, <2>1, <2>2 DEF Printed
<1>9. CASE DownSaid
  BY <1>3, <1>4, <1>5, <1>9 DEF DownSaid, Printed, NoLink
<1>10. CASE FailureSaid
  BY <1>3, <1>4, <1>5, <1>10 DEF FailureSaid, Printed, linkVars
<1>11. CASE ReportSaid
  <2>1. PICK h : Printed(NotificationLine(link, h)) /\ UNCHANGED linkVars
    BY <1>11 DEF ReportSaid
  <2>2. ~IsUp(NotificationLine(link, h))
    BY DEF IsUp, NotificationLine
  <2> QED
    BY <1>3, <1>4, <2>1, <2>2 DEF Printed, linkVars
<1>12. CASE AllGone
  BY <1>2, <1>4, <1>12 DEF AllGone, NoLink
<1> QED
  BY <1>6, <1>7, <1>8, <1>9, <1>10, <1>11, <1>12, ExternalMoves

-----------------------------------------------------------------------------
\* Every line is about the connection the bridge knows of when it handles it,
\* and the last of them leaves it knowing the link that exists.

ToldInv ==
  InLoop => \E e \in AnyAddr : /\ Told(Stream, Current, e)
                               /\ bt # "exited" => e = link

LEMMA ToldHandled ==
  TalkInv /\ CandidateInv /\ RegInv /\ KnownInv /\ ToldInv /\ Handled => ToldInv'
<1> SUFFICES ASSUME TalkInv, CandidateInv, RegInv, KnownInv, ToldInv, Handled
             PROVE  ToldInv'
  OBVIOUS
<1> DEFINE l == Head(lines)
<1>1. /\ Stream # <<>> /\ Stream' = Tail(Stream) /\ Head(Stream) = l /\ l \in SomeLines
      /\ UNCHANGED <<bt, link>> /\ pc = "line"
  BY HandledMoves DEF btClientVars, btVars, linkVars
<1>2. connected => address # NoAddr
  BY DEF RegInv, Before, After
<1>3. Current' = Heard(Current, l)
  <2>1. CASE OnConnection
    <3>1. l.type = "connection" /\ l.addr \in Addrs
      BY <1>1, <2>1, LineFacts DEF OnConnection, NextLine
    <3>2. l.up => l.addr \in Elems(addresses)
      BY <1>1, <3>1, StreamType, KnownFacts DEF KnownInv, IsUp
    <3>3. CASE l.up
      <4>1. connected' = TRUE /\ address' = l.addr
        BY <2>1, <3>2, <3>3 DEF OnConnection, GoesUp, NewConnection
      <4> QED
        BY <3>1, <3>3, <4>1 DEF Current, Heard
    <3>4. CASE ~l.up /\ l.addr = address
      <4>1. connected' = FALSE
        BY <2>1, <3>4 DEF OnConnection, GoesDown
      <4> QED
        BY <3>1, <3>4, <4>1, BtAssumption DEF Current, Heard
    <3>5. CASE ~l.up /\ l.addr # address
      <4>1. UNCHANGED <<address, connected>>
        BY <2>1, <3>5 DEF OnConnection, connVars
      <4> QED
        BY <3>1, <3>5, <4>1, BtAssumption DEF Current, Heard
    <3> QED
      BY <3>3, <3>4, <3>5
  <2>2. CASE ~OnConnection
    <3>1. l.type # "connection" /\ connected' = connected
      BY <2>2 DEF Handled, OnDevice, OnRegistered, DirectRegistered, OnNotification,
         NextLine, connVars
    <3>2. connected => address' = address
      BY <1>2, <2>2 DEF Handled, OnDevice, OnRegistered, DirectRegistered, OnNotification,
         FirstCandidate, addrVars
    <3> QED
      BY <3>1, <3>2 DEF Current, Heard
  <2> QED
    BY <2>1, <2>2
<1>4. PICK e \in AnyAddr : Told(Stream, Current, e) /\ (bt # "exited" => e = link)
  BY <1>1 DEF ToldInv, InLoop
<1>5. Told(Stream', Current', e)
  <2>1. Told(Tail(Stream), Heard(Current, Head(Stream)), e)
    BY <1>1, <1>4, StreamType, ToldTail
  <2> QED
    BY <1>1, <1>3, <2>1
<1> QED
  BY <1>1, <1>4, <1>5 DEF ToldInv

LEMMA ToldStill ==
  TalkInv /\ RegInv /\ RoundInv /\ ToldInv /\ Still => ToldInv'
<1> SUFFICES ASSUME TalkInv, RegInv, RoundInv, ToldInv, Still, InLoop' PROVE ToldInv'
  BY DEF ToldInv
<1>1. /\ InLoop /\ Stream' = Stream /\ link' = link /\ connected' = connected
      /\ connected => address' = address
      /\ bt' # "exited" => bt # "exited"
  BY StillMoves DEF RoundInv
<1>2. Current' = Current
  BY <1>1 DEF Current
<1> QED
  BY <1>1, <1>2 DEF ToldInv

LEMMA ToldSend ==
  TalkInv /\ ToldInv /\ (Send \/ Disconnect \/ Quit) => ToldInv'
<1> SUFFICES ASSUME TalkInv, ToldInv, Send \/ Disconnect \/ Quit, InLoop' PROVE ToldInv'
  BY DEF ToldInv
<1>1. Send /\ InLoop
  BY DEF Disconnect, Quit, Send, InLoop
<1>2. Current' = Current /\ lines' = lines
  BY <1>1 DEF Send, addrVars, connVars, Current
<1>3. PICK e \in AnyAddr : Told(Stream, Current, e) /\ (bt # "exited" => e = link)
  BY <1>1 DEF ToldInv
<1>4. CASE UNCHANGED btClientVars
  BY <1>2, <1>3, <1>4 DEF btClientVars, btVars, linkVars, Stream, ToldInv
<1>5. CASE queue # <<>> /\ Type(Head(queue))
  <2> DEFINE c == Head(queue)
  <2>1. c \in SomeCommands /\ (c.op = "connect" => c.addr \in Addrs)
    BY <1>5, CommandFacts DEF TalkInv
  <2>2. c.op # "disconnect"
    <3>1. \A d \in SomeCommands : d.op # "disconnect"
      BY DEF SomeCommands, PlainCommands, ConnectCommands, NotifyCommands, Cmd, Connect,
         Notify
    <3> QED
      BY <2>1, <3>1
  <2> HIDE DEF c
  <2>3. Type(c)
    BY <1>5 DEF c
  <2>4. link' = link /\ bt' = bt
    BY <1>2, <2>1, <2>2, <2>3, TypedMoves DEF linkVars
  <2>5. CASE Stream' = Stream
    BY <1>2, <1>3, <2>4, <2>5 DEF ToldInv
  <2>6. ASSUME NEW t \in Seq(SomeLines), Stream' = Stream \o t,
               \A i \in 1..Len(t) : t[i].type = "device"
        PROVE  ToldInv'
    <3>1. Told(Stream \o t, Current, e)
      BY <1>3, <2>6, StreamType, ToldDevices
    <3> QED
      BY <1>2, <1>3, <2>4, <2>6, <3>1 DEF ToldInv
  <2>7. ASSUME bt = "running", link = c.addr,
               Stream' = Append(Stream, ConnectionLine(c.addr, TRUE)),
               ConnectionLine(c.addr, TRUE) \in SomeLines
        PROVE  ToldInv'
    <3> DEFINE l == ConnectionLine(c.addr, TRUE)
    <3>1. l.type # "notification" /\ Heard(e, l) = c.addr
      BY DEF ConnectionLine, Heard
    <3>2. e = link
      BY <1>3, <2>7
    <3>3. l \in SomeLines /\ Stream' = Append(Stream, l)
      BY <2>7
    <3> HIDE DEF l
    <3>4. Told(Append(Stream, l), Current, Heard(e, l))
      BY <1>3, <3>1, <3>3, StreamType, ToldAppend
    <3>5. Told(Stream', Current', e)
      BY <1>2, <2>7, <3>1, <3>2, <3>3, <3>4
    <3> QED
      BY <1>3, <2>4, <3>2, <3>5 DEF ToldInv
  <2> QED
    BY <1>2, <2>1, <2>2, <2>3, <2>5, <2>6, <2>7, TypedMoves
<1> QED
  BY <1>1, <1>4, <1>5 DEF Send

LEMMA ToldExternal ==
  ASSUME TalkInv, ToldInv, External \/ DirectExternal, UNCHANGED localVars
  PROVE  ToldInv'
<1> SUFFICES ASSUME InLoop' PROVE ToldInv'
  BY DEF ToldInv
<1>1. InLoop /\ Current' = Current
  BY DEF localVars, quietVars, addrVars, connVars, InLoop, Current
<1>2. PICK e \in AnyAddr : Told(Stream, Current, e) /\ (bt # "exited" => e = link)
  BY <1>1 DEF ToldInv
<1>3. ASSUME NEW l, Printed(l), l.type = "notification" => l.addr = e,
             link' = Heard(e, l)
      PROVE  ToldInv'
  <2>1. l \in SomeLines /\ Stream' = Append(Stream, l)
    BY <1>3 DEF Printed
  <2>2. Told(Append(Stream, l), Current, Heard(e, l))
    BY <1>2, <1>3, <2>1, StreamType, ToldAppend
  <2>3. Heard(e, l) \in AnyAddr
    BY <2>1, HeardFacts
  <2> QED
    BY <1>1, <1>3, <2>1, <2>2, <2>3 DEF ToldInv
<1>4. ASSUME bt = "running" PROVE e = link
  BY <1>2, <1>4
<1>5. \A a \in AnyAddr : /\ Heard(e, ConnectionLine(a, TRUE)) = a
                         /\ Heard(e, ConnectionLine(a, FALSE)) = IF a = e THEN NoAddr ELSE e
                         /\ ConnectionLine(a, TRUE).type # "notification"
                         /\ ConnectionLine(a, FALSE).type # "notification"
  BY DEF Heard, ConnectionLine
<1>6. CASE NoneSaid
  BY <1>1, <1>2, <1>6 DEF NoneSaid, linkVars, ToldInv
<1>7. CASE RegisteredSaid
  <2>1. PICK l \in SomeLines : l.type = "registered" /\ Printed(l) /\ link' = link
    BY <1>7 DEF RegisteredSaid, linkVars
  <2>2. e = link
    BY <1>4, <2>1 DEF Printed
  <2>3. Heard(e, l) = e
    BY <2>1 DEF Heard
  <2> QED
    BY <1>3, <2>1, <2>2, <2>3
<1>8. CASE UpSaid
  <2>1. PICK a \in Addrs : link' = a /\ Printed(ConnectionLine(a, TRUE))
    BY <1>8 DEF UpSaid
  <2> QED
    BY <1>3, <1>5, <2>1 DEF AnyAddr
<1>9. CASE DownSaid
  <2>1. link' = NoAddr /\ Printed(ConnectionLine(link, FALSE)) /\ link \in AnyAddr
    BY <1>9 DEF DownSaid, NoLink, TalkInv, AnyAddr
  <2>2. e = link
    BY <1>4, <2>1 DEF Printed
  <2> QED
    BY <1>3, <1>5, <2>1, <2>2
<1>10. CASE FailureSaid
  <2>1. PICK a \in Addrs : a # link /\ link' = link /\ Printed(ConnectionLine(a, FALSE))
    BY <1>10 DEF FailureSaid, linkVars
  <2>2. e = link
    BY <1>4, <2>1 DEF Printed
  <2> QED
    BY <1>3, <1>5, <2>1, <2>2 DEF AnyAddr
<1>11. CASE ReportSaid
  <2>1. PICK h : Printed(NotificationLine(link, h)) /\ link' = link
    BY <1>11 DEF ReportSaid, linkVars
  <2>2. e = link
    BY <1>4, <2>1 DEF Printed
  <2>3. NotificationLine(link, h).addr = e /\ Heard(e, NotificationLine(link, h)) = e
    BY <2>2 DEF NotificationLine, Heard
  <2> QED
    BY <1>3, <2>1, <2>2, <2>3
<1>12. CASE AllGone
  BY <1>1, <1>2, <1>12 DEF AllGone, ToldInv
<1> QED
  BY <1>6, <1>7, <1>8, <1>9, <1>10, <1>11, <1>12, ExternalMoves

-----------------------------------------------------------------------------
\* What is enabled on the link, and what is still queued for it.

LEMMA RoundStep ==
  TalkInv /\ RoundInv /\ [EitherNext]_eitherVars => RoundInv'
<1> SUFFICES ASSUME TalkInv, RoundInv, [EitherNext]_eitherVars PROVE RoundInv'
  OBVIOUS
<1> USE DEF RoundInv, Early
<1>1. CASE Handled \/ Disconnect \/ Quit
  BY <1>1, HandledMoves DEF Disconnect, Quit
<1>2. CASE Still
  BY <1>2
     DEF Still, Begin, Create, Bind, Select, NoMoreLines, Setup, Mode, Retry, Poll,
         Unlink, LeaveLoop, Destroy, Signal, Killed, Cooled, RetryTick, Raise, Running,
         quietVars, btClientVars, btVars
<1>3. CASE Send
  BY <1>3 DEF Send, Raise
<1>4. CASE (External \/ DirectExternal) /\ UNCHANGED localVars
  <2>1. UNCHANGED <<pc, lines>>
    BY <1>4 DEF localVars
  <2>2. bt' = bt \/ (bt = "running" /\ bt' = "exited")
    <3>1. ~BtExit => bt' = bt
      BY <1>4
         DEF External, DirectExternal, RegisterReply, LinkUp, DirectLinkUp, ConnectFails,
             Bond, Report, LinkDown, btVars
    <3> QED
      BY <3>1 DEF BtExit, BtGone
  <2> QED
    BY <2>1, <2>2
<1>5. CASE UNCHANGED eitherVars
  BY <1>5 DEF eitherVars, vars, localVars, btClientVars, btVars
<1> QED
  BY <1>1, <1>2, <1>3, <1>4, <1>5
     DEF EitherNext, Next, DirectNext, Process, DirectProcess, DirectStart, DirectLines,
         DirectTail, DirectEnd, Handled, Still

HasUp(s) == \E i \in 1..Len(s) : IsUp(s[i])

\* The link is the one that the bridge has set up, and stays it for the lines
\* that are still to be handled.  A command that could not be typed is lost,
\* but that ends the loop.
Steady == InLoop /\ connected /\ setup /\ link = address /\ ~HasUp(Stream)

\* Every handle is enabled, or queued for the address a.
Covered(q, a, on) ==
  \A h \in Elems(Handles) : h \in on \/ \E i \in 1..Len(q) : q[i] = Notify(a, h)

ArmInv ==
  /\ enabled \subseteq Elems(Handles)
  /\ link = NoAddr => enabled = {}
  /\ bt # "running" => link = NoAddr
  /\ modeSet => setup
  /\ Steady => Covered(queue, address, enabled) /\ (modeSet => ptp)

LEMMA UpFacts ==
  ASSUME NEW S, NEW s \in Seq(S)
  PROVE  /\ s # <<>> /\ ~IsUp(Head(s)) /\ HasUp(s) => HasUp(Tail(s))
         /\ \A x \in S : HasUp(s) \/ IsUp(x) => HasUp(Append(s, x))
         /\ \A t \in Seq(S) : HasUp(s) => HasUp(s \o t)
<1> USE DEF HasUp
<1>1. ASSUME s # <<>>, ~IsUp(Head(s)), HasUp(s) PROVE HasUp(Tail(s))
  <2>1. PICK i \in 1..Len(s) : IsUp(s[i])
    BY <1>1
  <2>2. i # 1
    BY <1>1, <2>1
  <2>3. i - 1 \in 1..Len(Tail(s)) /\ Tail(s)[i - 1] = s[(i - 1) + 1] /\ (i - 1) + 1 = i
    BY <1>1, <2>2
  <2>4. IsUp(Tail(s)[i - 1])
    BY <2>1, <2>3
  <2> QED
    BY <2>3, <2>4
<1>2. ASSUME NEW x \in S, HasUp(s) \/ IsUp(x) PROVE HasUp(Append(s, x))
  BY <1>2
<1>3. ASSUME NEW t \in Seq(S), HasUp(s) PROVE HasUp(s \o t)
  BY <1>3
<1> QED
  BY <1>1, <1>2, <1>3

LEMMA CoveredFacts ==
  ASSUME NEW S, NEW q \in Seq(S), NEW a, NEW on, Covered(q, a, on)
  PROVE  /\ \A more : on \subseteq more => Covered(q, a, more)
         /\ \A x \in S : Covered(Append(q, x), a, on)
         /\ \A t \in Seq(S) : Covered(q \o t, a, on)
         /\ \A more : /\ q # <<>> /\ on \subseteq more
                      /\ \A h : Head(q) = Notify(a, h) => h \in more
                      => Covered(Tail(q), a, more)
<1> USE DEF Covered
<1>1. \A more : on \subseteq more => Covered(q, a, more)
  OBVIOUS
<1>2. \A x \in S : Covered(Append(q, x), a, on)
  OBVIOUS
<1>3. \A t \in Seq(S) : Covered(q \o t, a, on)
  OBVIOUS
<1>4. ASSUME NEW more, q # <<>>, on \subseteq more,
             \A h : Head(q) = Notify(a, h) => h \in more
      PROVE  Covered(Tail(q), a, more)
  <2> SUFFICES ASSUME NEW h \in Elems(Handles), h \notin more
               PROVE  \E i \in 1..Len(Tail(q)) : Tail(q)[i] = Notify(a, h)
    OBVIOUS
  <2>1. PICK i \in 1..Len(q) : q[i] = Notify(a, h)
    BY <1>4
  <2>2. i # 1
    BY <1>4, <2>1
  <2>3. i - 1 \in 1..Len(Tail(q)) /\ Tail(q)[i - 1] = q[(i - 1) + 1] /\ (i - 1) + 1 = i
    BY <1>4, <2>2
  <2> QED
    BY <2>1, <2>3
<1> QED
  BY <1>1, <1>2, <1>3, <1>4

\* What the queue gains and the steps leave alone keeps all of it.
LEMMA ArmFrame ==
  ASSUME TalkInv, ArmInv, UNCHANGED <<link, enabled>>, bt' # "running" => bt # "running",
         modeSet' => setup', Steady' => Steady,
         Steady' => address' = address /\ (modeSet' => modeSet \/ ptp') /\ (ptp => ptp'),
         \/ queue' = queue
         \/ \E x \in SomeCommands : queue' = Append(queue, x)
         \/ \E t \in Seq(SomeCommands) : queue' = queue \o t
  PROVE  ArmInv'
<1>1. ASSUME Steady' PROVE Covered(queue', address', enabled') /\ (modeSet' => ptp')
  <2>1. Covered(queue, address, enabled) /\ (modeSet => ptp)
    BY <1>1 DEF ArmInv
  <2>2. queue \in Seq(SomeCommands)
    BY DEF TalkInv
  <2>3. Covered(queue', address, enabled)
    BY <2>1, <2>2, CoveredFacts
  <2> QED
    BY <1>1, <2>1, <2>3
<1> QED
  BY <1>1 DEF ArmInv

LEMMA ArmHandled ==
  TalkInv /\ CandidateInv /\ RegInv /\ KnownInv /\ ArmInv /\ Handled => ArmInv'
<1> SUFFICES ASSUME TalkInv, CandidateInv, RegInv, KnownInv, ArmInv, Handled PROVE ArmInv'
  OBVIOUS
<1> DEFINE l == Head(lines)
<1>1. /\ Stream # <<>> /\ Stream' = Tail(Stream) /\ Head(Stream) = l /\ l \in SomeLines
      /\ UNCHANGED <<bt, link, enabled, ptp>>
  BY HandledMoves DEF btClientVars, btVars, linkVars
<1>2. CASE IsUp(l)
  <2>1. OnConnection /\ l.up
    BY <1>2 DEF IsUp, Handled, OnDevice, OnRegistered, DirectRegistered, OnNotification,
       NextLine
  <2>2. l.addr \in Elems(addresses)
    BY <1>1, <1>2, StreamType, KnownFacts DEF KnownInv
  <2>3. setup' = FALSE /\ modeSet' = FALSE
    BY <2>1, <2>2 DEF OnConnection, GoesUp, NewConnection
  <2> QED
    BY <1>1, <2>3 DEF ArmInv, Steady
<1>3. CASE ~IsUp(l)
  <2>1. UNCHANGED <<setup, modeSet>>
    BY <1>3 DEF IsUp, Handled, OnDevice, OnRegistered, DirectRegistered, OnConnection,
       OnNotification, NextLine, GoesDown, connVars
  <2>8. InLoop
    BY DEF Handled, OnDevice, OnRegistered, DirectRegistered, OnConnection, OnNotification,
       NextLine, InLoop
  <2>2. connected' => connected /\ address' = address
    <3>1. connected => address # NoAddr
      BY DEF RegInv, Before, After
    <3> QED
      BY <1>3, <3>1 DEF IsUp, Handled, OnDevice, OnRegistered, DirectRegistered,
         OnConnection, OnNotification, NextLine, GoesDown, FirstCandidate, connVars, addrVars
  <2>3. HasUp(Stream) => HasUp(Stream')
    BY <1>1, <1>3, StreamType, UpFacts
  <2>4. Steady' => Steady /\ address' = address
    BY <1>1, <2>1, <2>2, <2>3, <2>8 DEF Steady
  <2>5. \/ queue' = queue
        \/ \E x \in SomeCommands : queue' = Append(queue, x)
        \/ ~Steady'
    <3>1. CASE OnRegistered \/ DirectRegistered
      <4>1. CASE registered
        BY <3>1, <4>1 DEF OnRegistered, DirectRegistered
      <4>2. CASE ~registered
        <5>1. connected = FALSE
          BY <4>2 DEF RegInv, Before
        <5> QED
          BY <2>2, <5>1 DEF Steady
      <4> QED
        BY <4>1, <4>2
    <3>2. CASE ~(OnRegistered \/ DirectRegistered)
      BY <3>2, CommandFacts DEF Handled, OnDevice, OnConnection, OnNotification
    <3> QED
      BY <3>1, <3>2
  <2>6. CASE ~Steady'
    BY <1>1, <2>1, <2>6 DEF ArmInv
  <2>7. CASE Steady'
    BY <1>1, <2>1, <2>4, <2>5, <2>7, ArmFrame DEF ArmInv
  <2> QED
    BY <2>6, <2>7
<1> QED
  BY <1>2, <1>3

LEMMA ArmStill ==
  TalkInv /\ CandidateInv /\ RegInv /\ RoundInv /\ ArmInv /\ Still => ArmInv'
<1> SUFFICES ASSUME TalkInv, CandidateInv, RegInv, RoundInv, ArmInv, Still PROVE ArmInv'
  OBVIOUS
<1>1. /\ Stream' = Stream /\ UNCHANGED <<link, enabled, connected>>
      /\ connected => address' = address
      /\ bt' # "running" => bt # "running"
  BY StillMoves
<1>5. InLoop' => InLoop
  BY DEF Still, Begin, Create, Bind, Select, NoMoreLines, Setup, Mode, Retry, Poll,
     Unlink, LeaveLoop, Destroy, Signal, Killed, Cooled, RetryTick, Raise, InLoop
<1>2. CASE Setup /\ SetupDue
  <2> DEFINE more == [i \in 1..Len(Handles) |-> Notify(address, Handles[i])]
  <2>1. /\ queue' = queue \o more /\ queue = <<>> /\ setup' = TRUE
        /\ UNCHANGED <<address, modeSet>> /\ ~setup
    BY <1>2 DEF Setup, SetupDue, addrVars
  <2>2. modeSet' => setup
    BY <2>1 DEF ArmInv
  <2>3. Len(Handles) \in Nat /\ \A i \in 1..Len(Handles) : Handles[i] \in Elems(Handles)
    BY BtAssumption DEF Elems
  <2>4. more \in [1..Len(Handles) -> SomeCommands]
    BY <2>3, CommandFacts DEF CandidateInv
  <2>5. Len(more) = Len(Handles) /\ \A i \in 1..Len(Handles) : more[i] = Notify(address, Handles[i])
    BY <2>3
  <2> HIDE DEF more
  <2>6. queue' = more
    BY <2>1, <2>3, <2>4, FunctionIsSeq, ConcatEmptySeq
  <2>7. Covered(queue', address', enabled')
    BY <2>1, <2>5, <2>6 DEF Covered, Elems
  <2> QED
    BY <1>1, <2>1, <2>2, <2>7 DEF ArmInv
<1>3. CASE Mode
  <2>1. UNCHANGED <<queue, setup, address>>
    BY <1>3 DEF Mode, addrVars
  <2>2. modeSet' => setup'
    <3>1. CASE connected /\ setup /\ queue = <<>> /\ ~modeSet
      BY <2>1, <3>1
    <3>2. CASE UNCHANGED modeSet
      BY <2>1, <3>2 DEF ArmInv
    <3> QED
      BY <1>3, <3>1, <3>2 DEF Mode
  <2>3. Steady' => Steady
    BY <1>1, <1>5, <2>1 DEF Steady
  <2>4. Steady' => (modeSet' => modeSet \/ ptp') /\ (ptp => ptp')
    BY <1>3, <2>3 DEF Mode, Steady
  <2> QED
    BY <1>1, <2>1, <2>2, <2>3, <2>4, ArmFrame
<1>4. CASE ~Mode /\ ~(Setup /\ SetupDue)
  <2>1. UNCHANGED <<setup, modeSet, ptp>>
    BY <1>4 DEF Still, Begin, Create, Bind, Select, NoMoreLines, Setup, Retry, Poll,
       Unlink, LeaveLoop, Destroy, Signal, Killed, Cooled, RetryTick, quietVars,
       connVars, btClientVars, linkVars
  <2>2. connected => queue' = queue
    <3>1. Bind => connected = FALSE
      BY DEF Bind, RegInv, Before, After, Early
    <3> QED
      BY <1>4, <3>1 DEF Still, Begin, Create, Bind, Select, NoMoreLines, Setup, Retry, Poll,
         Unlink, LeaveLoop, Destroy, Signal, Killed, Cooled, RetryTick, RetryWanted
  <2>3. Steady' => Steady /\ queue' = queue /\ address' = address
    BY <1>1, <1>5, <2>1, <2>2 DEF Steady
  <2>4. CASE ~Steady'
    BY <1>1, <2>1, <2>4 DEF ArmInv
  <2>5. CASE Steady'
    BY <1>1, <2>1, <2>3, <2>5, ArmFrame DEF ArmInv
  <2> QED
    BY <2>4, <2>5
<1> QED
  BY <1>2, <1>3, <1>4

LEMMA ArmSend ==
  TalkInv /\ RegInv /\ KnownInv /\ ArmInv /\ (Send \/ Disconnect \/ Quit) => ArmInv'
<1> SUFFICES ASSUME TalkInv, RegInv, KnownInv, ArmInv, Send \/ Disconnect \/ Quit
             PROVE  ArmInv'
  OBVIOUS
<1>1. UNCHANGED <<lines, address, connected, setup, modeSet>>
  BY DEF Send, Disconnect, Quit, quietVars, addrVars, connVars
<1>2. connected => address # NoAddr
  BY DEF RegInv, Before, After
<1>8. InLoop' => InLoop
  BY DEF Send, Disconnect, Quit, InLoop
<1>3. ASSUME NoLink PROVE ArmInv'
  BY <1>1, <1>2, <1>3 DEF NoLink, ArmInv, Steady
<1>4. CASE UNCHANGED <<btClientVars, queue>>
  <2>1. UNCHANGED <<link, enabled, ptp, bt, out, queue>>
    BY <1>4 DEF btClientVars, btVars, linkVars
  <2>2. Steady' => Steady
    BY <1>1, <1>8, <2>1 DEF Steady, Stream
  <2> QED
    BY <1>1, <2>1, <2>2, ArmFrame DEF ArmInv
<1>5. CASE Quit /\ BtGone
  BY <1>3, <1>5 DEF BtGone
<1>6. CASE Disconnect /\ Type([Connect(address) EXCEPT !.op = "disconnect"])
  <2> DEFINE c == [Connect(address) EXCEPT !.op = "disconnect"]
  <2>1. c.op = "disconnect"
    BY DEF Connect
  <2>2. Type(c) /\ queue' = queue
    BY <1>6 DEF Disconnect
  <2> HIDE DEF c
  <2>3. \/ NoLink
        \/ UNCHANGED <<bt, linkVars>> /\ Stream' = Stream
        \/ /\ UNCHANGED <<bt, linkVars>>
           /\ \E t \in Seq(SomeLines) : Stream' = Stream \o t
    BY <1>1, <2>1, <2>2, TypedMoves DEF linkVars
  <2>4. CASE NoLink
    BY <1>3, <2>4
  <2>5. CASE UNCHANGED <<bt, linkVars>> /\ (HasUp(Stream) => HasUp(Stream'))
    <3>1. Steady' => Steady
      BY <1>1, <1>8, <2>5 DEF Steady, linkVars
    <3> QED
      BY <1>1, <2>2, <2>5, <3>1, ArmFrame DEF ArmInv, linkVars
  <2> QED
    BY <2>3, <2>4, <2>5, StreamType, UpFacts
<1>7. CASE Send /\ queue # <<>> /\ Type(Head(queue)) /\ queue' = Tail(queue)
  <2> DEFINE c == Head(queue)
  <2>1. /\ c \in SomeCommands /\ (c.op = "connect" => c.addr \in Addrs)
        /\ c.op # "disconnect" /\ (c.op = "notify" => c.handle \in Elems(Handles))
    <3>1. \A d \in SomeCommands : /\ d.op # "disconnect"
                                  /\ d.op = "notify" => d.handle \in Elems(Handles)
      BY DEF SomeCommands, PlainCommands, ConnectCommands, NotifyCommands, Cmd, Connect,
         Notify
    <3> QED
      BY <1>7, <3>1, CommandFacts DEF TalkInv
  <2>2. c.op = "notify" => c.addr # NoAddr
    BY <1>7, AsksFacts DEF TalkInv, KnownInv
  <2>3. \A h : c = Notify(address, h) => c.op = "notify" /\ c.addr = address /\ c.handle = h
    BY CommandOps
  <2> HIDE DEF c
  <2>4. Type(c) /\ queue' = Tail(queue) /\ c = Head(queue)
    BY <1>7 DEF c
  <2>5. link' = link /\ ptp' = ptp /\ bt' = bt
    BY <1>1, <2>1, <2>4, TypedMoves DEF linkVars
  <2>6. /\ enabled' = enabled /\ bt # "running"
        \/ enabled' = IF c.op = "notify" /\ link = c.addr
                        THEN enabled \cup {c.handle} ELSE enabled
    BY <1>1, <2>1, <2>4, TypedMoves DEF linkVars
  <2>7. HasUp(Stream) => HasUp(Stream')
    <3>1. \/ Stream' = Stream
          \/ \E t \in Seq(SomeLines) : Stream' = Stream \o t
          \/ \E x \in SomeLines : Stream' = Append(Stream, x)
      BY <1>1, <2>1, <2>4, TypedMoves
    <3> QED
      BY <3>1, StreamType, UpFacts
  <2>8. ASSUME Steady' PROVE Covered(queue', address', enabled') /\ (modeSet' => ptp')
    <3>1. Steady /\ link = address /\ connected
      BY <1>1, <1>8, <2>5, <2>7, <2>8 DEF Steady
    <3>2. Covered(queue, address, enabled) /\ (modeSet => ptp)
      BY <3>1 DEF ArmInv
    <3>3. bt = "running"
      BY <1>2, <3>1 DEF ArmInv
    <3>4. enabled \subseteq enabled' /\ \A h : c = Notify(address, h) => h \in enabled'
      BY <2>3, <2>6, <3>1, <3>3
    <3>5. queue \in Seq(SomeCommands)
      BY DEF TalkInv
    <3>6. Covered(Tail(queue), address, enabled')
      BY <1>7, <2>4, <3>2, <3>4, <3>5, CoveredFacts
    <3> QED
      BY <1>1, <2>4, <2>5, <3>2, <3>6
  <2>9. enabled' \subseteq Elems(Handles) /\ (link' = NoAddr => enabled' = {})
    BY <2>1, <2>2, <2>5, <2>6 DEF ArmInv
  <2> QED
    BY <1>1, <2>5, <2>8, <2>9 DEF ArmInv
<1>9. CASE Raise /\ UNCHANGED btClientVars
  <2>1. ~Steady'
    BY <1>9 DEF Raise, Steady, InLoop
  <2> QED
    BY <1>1, <1>9, <2>1 DEF ArmInv, btClientVars, btVars, linkVars
<1> QED
  BY <1>4, <1>5, <1>6, <1>7, <1>9 DEF Send, Disconnect, Quit

LEMMA ArmExternal ==
  ASSUME TalkInv, RegInv, ArmInv, External \/ DirectExternal, UNCHANGED localVars
  PROVE  ArmInv'
<1>1. UNCHANGED <<queue, address, connected, setup, modeSet>> /\ InLoop' = InLoop
  BY DEF localVars, quietVars, addrVars, connVars, InLoop
<1>2. connected => address # NoAddr
  BY DEF RegInv, Before, After
<1>3. ASSUME UNCHANGED <<bt, linkVars>>, HasUp(Stream) => HasUp(Stream') PROVE ArmInv'
  <2>1. Steady' => Steady
    BY <1>1, <1>3 DEF Steady, linkVars
  <2> QED
    BY <1>1, <1>3, <2>1, ArmFrame DEF ArmInv, linkVars
<1>4. ASSUME NEW l, Printed(l) PROVE HasUp(Stream) \/ IsUp(l) => HasUp(Stream')
  BY <1>4, StreamType, UpFacts DEF Printed
<1>5. ASSUME NoLink PROVE ArmInv'
  BY <1>1, <1>2, <1>5 DEF NoLink, ArmInv, Steady
<1>6. CASE UpSaid
  <2>1. PICK a \in Addrs : /\ link = NoAddr /\ link' = a
                           /\ UNCHANGED <<enabled, ptp>> /\ Printed(ConnectionLine(a, TRUE))
    BY <1>6 DEF UpSaid
  <2>2. IsUp(ConnectionLine(a, TRUE))
    BY DEF IsUp, ConnectionLine
  <2>3. HasUp(Stream') /\ bt' = bt /\ bt = "running"
    BY <1>4, <2>1, <2>2 DEF Printed
  <2> QED
    BY <1>1, <2>1, <2>3, BtAssumption DEF ArmInv, Steady
<1> QED
  BY <1>3, <1>4, <1>5, <1>6, ExternalMoves
     DEF NoneSaid, RegisteredSaid, DownSaid, FailureSaid, ReportSaid, AllGone, Printed

-----------------------------------------------------------------------------
\* The values of what the bridge and btclient keep.

\* A report names the address it came from.
NamedInv ==
  \A i \in 1..Len(Stream) : Stream[i].type = "notification" => Stream[i].addr # NoAddr

PlainInv ==
  /\ pc \in {"start", "create", "bind", "select", "line", "setup", "mode", "retry",
             "send", "poll", "unlink", "disconnect", "quit", "destroy", "done", "killed"}
  /\ stopping \in BOOLEAN /\ cooldown \in BOOLEAN /\ retryDue \in BOOLEAN
  /\ registered \in BOOLEAN
  /\ connected \in BOOLEAN /\ setup \in BOOLEAN /\ modeSet \in BOOLEAN
  /\ regPending \in BOOLEAN /\ ptp \in BOOLEAN
  /\ idFile \in ClientIds \cup {NoId} /\ cid \in ClientIds \cup {NoId}
  /\ bt \in {"none", "running", "exited"}

LEMMA PlainHandled == TalkInv /\ PlainInv /\ Handled => PlainInv'
<1> SUFFICES ASSUME TalkInv, PlainInv, Handled PROVE PlainInv'
  OBVIOUS
<1>1. UNCHANGED <<stopping, cooldown, bt, cid, regPending, ptp>> /\ pc' \in {"line", "unlink"}
  BY HandledMoves DEF Handled, OnDevice, OnRegistered, DirectRegistered, OnConnection,
     OnNotification, NextLine, btClientVars, btVars, linkVars
<1>2. connected' \in BOOLEAN /\ setup' \in BOOLEAN /\ modeSet' \in BOOLEAN
  BY DEF Handled, OnDevice, OnRegistered, DirectRegistered, OnConnection, OnNotification,
     GoesUp, NewConnection, GoesDown, connVars, PlainInv
<1>3. registered' \in BOOLEAN /\ retryDue' \in BOOLEAN
  BY DEF Handled, OnDevice, OnRegistered, DirectRegistered, OnConnection, OnNotification,
     regVars, PlainInv
<1>4. idFile' \in ClientIds \cup {NoId}
  <2>1. idFile' = idFile \/ (Head(lines).type = "registered" /\ idFile' = Head(lines).id)
    BY DEF Handled, OnDevice, OnRegistered, DirectRegistered, OnConnection, OnNotification,
       NextLine, regVars
  <2> QED
    BY <2>1, HandledMoves, LineIds DEF PlainInv
<1> QED
  BY <1>1, <1>2, <1>3, <1>4 DEF PlainInv

LEMMA PlainStep == TalkInv /\ PlainInv /\ [EitherNext]_eitherVars => PlainInv'
<1> SUFFICES ASSUME TalkInv, PlainInv, [EitherNext]_eitherVars PROVE PlainInv'
  OBVIOUS
<1> USE DEF PlainInv, quietVars, addrVars, connVars, regVars, btClientVars, btVars, linkVars
<1>1. CASE Handled
  BY <1>1, PlainHandled
<1>2. CASE Begin \/ Create \/ Bind \/ Select \/ NoMoreLines
  BY <1>2 DEF Begin, Create, Bind, Select, NoMoreLines, Raise
<1>3. CASE Setup \/ Retry \/ Poll
  <2>1. /\ UNCHANGED <<stopping, cooldown, registered, connected, modeSet, idFile,
                      regPending, ptp, cid, bt>>
        /\ pc' \in {"mode", "send", "unlink", "select"}
    BY <1>3 DEF Setup, Retry, Poll, Raise
  <2>2. setup' \in BOOLEAN
    BY <1>3 DEF Setup, Retry, Poll
  <2>3. retryDue' \in BOOLEAN
    BY <1>3 DEF Setup, Retry, Poll
  <2> QED
    BY <2>1, <2>2, <2>3
<1>4. CASE Mode
  <2>1. /\ UNCHANGED <<stopping, cooldown, retryDue, registered, connected, setup, idFile,
                      regPending, cid, bt>>
        /\ pc' \in {"retry", "unlink"}
    BY <1>4 DEF Mode, Raise
  <2>2. modeSet' \in BOOLEAN
    BY <1>4 DEF Mode
  <2>3. ptp' \in BOOLEAN
    BY <1>4 DEF Mode
  <2> QED
    BY <2>1, <2>2, <2>3
<1>5. CASE Unlink \/ LeaveLoop \/ Destroy \/ Quit
  <2>1. /\ UNCHANGED <<stopping, cooldown, retryDue, registered, connected, setup, modeSet, cid>>
        /\ pc' \in {"disconnect", "destroy", "done"} /\ idFile' \in {idFile, NoId}
    BY <1>5 DEF Unlink, LeaveLoop, Destroy, Quit, BtGone
  <2>2. bt' \in {bt, "exited"} /\ regPending' \in BOOLEAN /\ ptp' \in BOOLEAN
    BY <1>5 DEF Unlink, LeaveLoop, Destroy, Quit, BtGone, NoLink
  <2> QED
    BY <2>1, <2>2
<1>6. CASE Signal \/ Killed \/ Cooled \/ RetryTick
  <2>1. /\ UNCHANGED <<registered, connected, setup, modeSet, idFile, regPending, ptp, cid, bt>>
        /\ pc' \in {pc, "killed"}
    BY <1>6 DEF Signal, Killed, Cooled, RetryTick
  <2>2. stopping' \in BOOLEAN /\ cooldown' \in BOOLEAN /\ retryDue' \in BOOLEAN
    BY <1>6 DEF Signal, Killed, Cooled, RetryTick
  <2> QED
    BY <2>1, <2>2
<1>7. ASSUME NEW c, Type(c)
      PROVE  bt' = bt /\ cid' = cid /\ regPending' \in BOOLEAN /\ ptp' \in BOOLEAN
  BY <1>7 DEF Type, Executes, NoLink
<1>8. CASE Send \/ Disconnect
  <2>1. /\ UNCHANGED <<stopping, retryDue, registered, connected, setup, modeSet, idFile>>
        /\ pc' \in {"poll", "unlink", "quit"} /\ cooldown' \in BOOLEAN
    BY <1>8 DEF Send, Disconnect, Raise
  <2>2. UNCHANGED btClientVars \/ \E c : Type(c)
    BY <1>8 DEF Send, Disconnect
  <2>3. bt' = bt /\ cid' = cid /\ regPending' \in BOOLEAN /\ ptp' \in BOOLEAN
    BY <1>7, <2>2
  <2> QED
    BY <2>1, <2>3
<1>9. CASE (External \/ DirectExternal) /\ UNCHANGED localVars
  <2>1. UNCHANGED <<pc, stopping, cooldown, retryDue, registered, connected, setup, modeSet,
                    idFile>>
    BY <1>9 DEF localVars
  <2>2. /\ regPending' \in BOOLEAN /\ ptp' \in BOOLEAN
        /\ cid' \in ClientIds \cup {NoId} /\ bt' \in {"none", "running", "exited"}
    BY <1>9 DEF External, DirectExternal, RegisterReply, LinkUp, DirectLinkUp, ConnectFails,
       Bond, Report, LinkDown, BtExit, BtGone, NoLink
  <2> QED
    BY <2>1, <2>2
<1>10. CASE UNCHANGED eitherVars
  BY <1>10 DEF eitherVars, vars, localVars
<1> QED
  BY <1>1, <1>2, <1>3, <1>4, <1>5, <1>6, <1>8, <1>9, <1>10
     DEF EitherNext, Next, DirectNext, Process, DirectProcess, DirectStart, DirectLines,
         DirectTail, DirectEnd, Handled

LEMMA NamedStep ==
  ASSUME TalkInv, RegInv, RoundInv, ArmInv, NamedInv, [EitherNext]_eitherVars
  PROVE  NamedInv'
<1>1. Stream \in Seq(SomeLines)
  BY StreamType
<1>2. CASE Stream' = Stream
  BY <1>2 DEF NamedInv
<1>3. CASE Handled
  <2>1. Stream # <<>> /\ Stream' = Tail(Stream)
    BY <1>3, HandledMoves
  <2>2. /\ Len(Tail(Stream)) = Len(Stream) - 1 /\ Len(Stream) \in Nat
        /\ \A i \in 1..Len(Tail(Stream)) : Tail(Stream)[i] = Stream[i + 1]
    BY <1>1, <2>1, HeadTailProperties
  <2>3. \A i \in 1..Len(Tail(Stream)) : i + 1 \in 1..Len(Stream)
    BY <2>2
  <2> QED
    BY <2>1, <2>2, <2>3 DEF NamedInv
<1>4. ASSUME NEW l \in SomeLines, Stream' = Append(Stream, l),
             l.type = "notification" => l.addr # NoAddr
      PROVE  NamedInv'
  <2>1. /\ Len(Append(Stream, l)) = Len(Stream) + 1 /\ Len(Stream) \in Nat
        /\ Append(Stream, l)[Len(Stream) + 1] = l
        /\ \A i \in 1..Len(Stream) : Append(Stream, l)[i] = Stream[i]
    BY <1>1
  <2>2. \A i \in 1..(Len(Stream) + 1) : i \in 1..Len(Stream) \/ i = Len(Stream) + 1
    BY <2>1
  <2> QED
    BY <1>4, <2>1, <2>2 DEF NamedInv
<1>5. ASSUME NEW t \in Seq(SomeLines), Stream' = Stream \o t,
             \A i \in 1..Len(t) : t[i].type = "device"
      PROVE  NamedInv'
  <2>1. /\ Len(Stream \o t) = Len(Stream) + Len(t) /\ Len(Stream) \in Nat /\ Len(t) \in Nat
        /\ \A i \in 1..(Len(Stream) + Len(t)) :
             (Stream \o t)[i] = IF i <= Len(Stream) THEN Stream[i] ELSE t[i - Len(Stream)]
    BY <1>1, ConcatProperties
  <2>2. \A i \in 1..(Len(Stream) + Len(t)) :
          IF i <= Len(Stream) THEN i \in 1..Len(Stream) ELSE i - Len(Stream) \in 1..Len(t)
    BY <2>1
  <2> QED
    BY <1>5, <2>1, <2>2 DEF NamedInv
<1>6. CASE Still
  BY <1>2, <1>6, StillMoves
<1>7. ASSUME NEW c, Type(c), c.op = "connect" => c.addr \in Addrs, UNCHANGED lines
      PROVE  NamedInv'
  <2>1. ConnectionLine(c.addr, TRUE).type # "notification"
    BY DEF ConnectionLine
  <2> DEFINE l == ConnectionLine(c.addr, TRUE)
  <2>2. \/ Stream' = Stream
        \/ \E t \in Seq(SomeLines) : /\ Stream' = Stream \o t
                                     /\ \A i \in 1..Len(t) : t[i].type = "device"
        \/ Stream' = Append(Stream, l) /\ l \in SomeLines
    BY <1>7, TypedMoves
  <2> HIDE DEF l
  <2>3. l.type # "notification"
    BY <2>1 DEF l
  <2> QED
    BY <1>2, <1>4, <1>5, <2>2, <2>3
<1>8. CASE Send
  <2>1. UNCHANGED lines
    BY <1>8 DEF Send
  <2>2. CASE UNCHANGED btClientVars
    BY <1>2, <2>1, <2>2 DEF btClientVars, Stream
  <2>3. CASE queue # <<>> /\ Type(Head(queue))
    <3>1. Head(queue) \in SomeCommands
      BY <2>3 DEF TalkInv
    <3>2. Head(queue).op = "connect" => Head(queue).addr \in Addrs
      BY <3>1, CommandFacts
    <3> QED
      BY <1>7, <2>1, <2>3, <3>2
  <2> QED
    BY <1>8, <2>2, <2>3 DEF Send
<1>9. CASE Disconnect
  <2>1. UNCHANGED lines
    BY <1>9 DEF Disconnect
  <2>2. CASE UNCHANGED btClientVars
    BY <1>2, <2>1, <2>2 DEF btClientVars, Stream
  <2>3. CASE Type([Connect(address) EXCEPT !.op = "disconnect"])
    <3>1. [Connect(address) EXCEPT !.op = "disconnect"].op = "disconnect"
      BY DEF Connect
    <3> QED
      BY <1>7, <2>1, <2>3, <3>1
  <2> QED
    BY <1>9, <2>2, <2>3 DEF Disconnect
<1>10. CASE Quit
  BY <1>2, <1>10 DEF Quit, BtGone, btClientVars, Stream
<1>11. CASE (External \/ DirectExternal) /\ UNCHANGED localVars
  <2>1. CASE NoneSaid \/ AllGone
    BY <1>2, <2>1 DEF NoneSaid, AllGone
  <2>2. CASE RegisteredSaid
    BY <1>4, <2>2 DEF RegisteredSaid, Printed
  <2>3. ASSUME NEW a, NEW up, Printed(ConnectionLine(a, up)) PROVE NamedInv'
    <3>1. ConnectionLine(a, up).type # "notification"
      BY DEF ConnectionLine
    <3> DEFINE l == ConnectionLine(a, up)
    <3>2. l \in SomeLines /\ Stream' = Append(Stream, l) /\ l.type # "notification"
      BY <2>3, <3>1 DEF Printed
    <3> HIDE DEF l
    <3> QED
      BY <1>4, <3>2
  <2>4. CASE UpSaid \/ DownSaid \/ FailureSaid
    BY <2>3, <2>4 DEF UpSaid, DownSaid, FailureSaid
  <2>5. CASE ReportSaid
    <3>1. PICK h \in enabled : Printed(NotificationLine(link, h))
      BY <2>5 DEF ReportSaid
    <3> DEFINE l == NotificationLine(link, h)
    <3>2. l \in SomeLines /\ Stream' = Append(Stream, l) /\ l.addr # NoAddr
      BY <3>1 DEF Printed, ArmInv, NotificationLine
    <3> HIDE DEF l
    <3> QED
      BY <1>4, <3>2
  <2> QED
    BY <1>11, <2>1, <2>2, <2>4, <2>5, ExternalMoves
<1>12. CASE UNCHANGED eitherVars
  BY <1>2, <1>12 DEF eitherVars, vars, localVars, btClientVars, Stream
<1> QED
  BY <1>3, <1>6, <1>8, <1>9, <1>10, <1>11, <1>12
     DEF EitherNext, Next, DirectNext, Process, DirectProcess, DirectStart, DirectLines,
         DirectTail, DirectEnd, Handled, Still

-----------------------------------------------------------------------------
\* The inductive invariant, and what follows from it.

BridgeInv ==
  /\ TalkInv /\ CandidateInv /\ RegInv
  /\ RoundInv /\ KnownInv /\ ToldInv /\ ArmInv
  /\ PlainInv /\ NamedInv

LEMMA BridgeInitially == EitherInit => BridgeInv
<1> SUFFICES ASSUME EitherInit PROVE BridgeInv
  OBVIOUS
<1> USE DEF EitherInit, Init, BtInit
<1>1. TalkInv /\ CandidateInv /\ RegInv
  BY Initially, RegInitially
<1>2. Stream = <<>> /\ Current = NoAddr
  BY DEF Stream, Current
<1>3. RoundInv /\ ArmInv
  BY DEF RoundInv, ArmInv, Steady
<1>4. KnownInv /\ NamedInv
  BY <1>2 DEF KnownInv, Known, Asks, NamedInv
<1>5. ToldInv
  <2>1. NoAddr \in AnyAddr
    BY DEF AnyAddr
  <2>2. Told(<<>>, NoAddr, NoAddr)
    BY <2>1, ToldNothing
  <2>3. link = NoAddr
    OBVIOUS
  <2> QED
    BY <1>2, <2>1, <2>2, <2>3 DEF ToldInv
<1>6. PlainInv
  BY DEF PlainInv
<1> QED
  BY <1>1, <1>3, <1>4, <1>5, <1>6 DEF BridgeInv

LEMMA BridgeStep == BridgeInv /\ [EitherNext]_eitherVars => BridgeInv'
<1> SUFFICES ASSUME BridgeInv, [EitherNext]_eitherVars PROVE BridgeInv'
  OBVIOUS
<1> USE DEF BridgeInv
<1>1. TalkInv' /\ CandidateInv' /\ RegInv'
  BY EitherStep, RegStep
<1>2. RoundInv' /\ PlainInv' /\ NamedInv'
  BY RoundStep, PlainStep, NamedStep
<1>3. CASE Handled
  BY <1>1, <1>2, <1>3, KnownHandled, ToldHandled, ArmHandled
<1>4. CASE Still
  BY <1>1, <1>2, <1>4, KnownStill, ToldStill, ArmStill
<1>5. CASE Send \/ Disconnect \/ Quit
  BY <1>1, <1>2, <1>5, KnownSend, ToldSend, ArmSend
<1>6. CASE (External \/ DirectExternal) /\ UNCHANGED localVars
  BY <1>1, <1>2, <1>6, KnownExternal, ToldExternal, ArmExternal
<1>7. CASE UNCHANGED eitherVars
  <2>1. /\ UNCHANGED <<pc, stopping, addrVars, connVars, queue, lines, out, bt, wanted,
                       linkVars>>
    BY <1>7 DEF eitherVars, vars, localVars, quietVars, btClientVars, btVars
  <2>2. UNCHANGED <<Stream, Current, InLoop>>
    BY <2>1 DEF Stream, Current, InLoop, addrVars, connVars
  <2>3. KnownInv' /\ ToldInv'
    BY <2>1, <2>2 DEF KnownInv, ToldInv, addrVars, linkVars
  <2>4. ArmInv'
    BY <2>1, <2>2, ArmFrame DEF ArmInv, Steady, addrVars, connVars, linkVars
  <2> QED
    BY <1>1, <1>2, <2>3, <2>4
<1> QED
  BY <1>3, <1>4, <1>5, <1>6, <1>7
     DEF EitherNext, Next, DirectNext, Process, DirectProcess, DirectStart, DirectLines,
         DirectTail, DirectEnd, Handled, Still

THEOREM BridgeInvariant == EitherSpec => []BridgeInv
BY BridgeInitially, BridgeStep, PTL DEF EitherSpec

\* A report is handled while the bridge takes itself to be connected to the
\* address it came from: connection lines and reports arrive in the order in
\* which they happened, and only a connection line changes the address of a
\* bridge that is connected.
THEOREM NoReportIsLost == EitherSpec => []NoReportLost
<1>1. BridgeInv => NoReportLost
  <2> SUFFICES ASSUME BridgeInv, pc = "line", lines # <<>>, Head(lines).type = "notification"
               PROVE  Head(lines).addr = address /\ connected
    BY DEF NoReportLost
  <2>1. lines \in Seq(SomeLines) /\ out \in Seq(SomeLines)
    BY DEF BridgeInv, TalkInv
  <2>2. Stream \in Seq(SomeLines) /\ Stream # <<>> /\ Head(Stream) = Head(lines)
    BY <2>1, StreamFacts DEF Stream
  <2>3. PICK e : Told(Stream, Current, e)
    BY DEF BridgeInv, ToldInv, InLoop
  <2>4. Head(lines).addr = Current
    BY <2>2, <2>3, ToldTail
  <2>5. Head(lines).addr # NoAddr
    <3>1. 1 \in 1..Len(Stream) /\ Stream[1] = Head(lines)
      BY <2>2
    <3> QED
      BY <3>1 DEF BridgeInv, NamedInv
  <2> QED
    BY <2>4, <2>5 DEF Current
<1> QED
  BY <1>1, BridgeInvariant, PTL

\* With nothing left to read, what the bridge knows is the link that exists;
\* with nothing left to type, every handle was enabled on it.
THEOREM QuietIsArmed == EitherSpec => []ArmedWhenQuiet
<1>1. BridgeInv => ArmedWhenQuiet
  <2> SUFFICES ASSUME BridgeInv, pc = "select", out = <<>>, queue = <<>>, bt = "running",
                      connected, setup, modeSet
               PROVE  link = address /\ enabled = Elems(Handles) /\ ptp
    BY DEF ArmedWhenQuiet
  <2>1. Stream = <<>>
    BY DEF BridgeInv, RoundInv, Stream
  <2>2. PICK e : Told(<<>>, Current, e) /\ e = link
    BY <2>1 DEF BridgeInv, ToldInv, InLoop
  <2>3. link = address
    BY <2>2, ToldNothing DEF Current
  <2>4. Steady
    BY <2>1, <2>3 DEF Steady, HasUp, InLoop
  <2>5. Covered(queue, address, enabled) /\ ptp /\ enabled \subseteq Elems(Handles)
    BY <2>4 DEF BridgeInv, ArmInv
  <2>6. Elems(Handles) \subseteq enabled
    BY <2>5 DEF Covered
  <2> QED
    BY <2>3, <2>5, <2>6
<1> QED
  BY <1>1, BridgeInvariant, PTL

\* The types of all that the bridge and btclient keep, for any number of
\* addresses: what is printed and typed is one of the lines and commands of
\* the program, and the index is one of a candidate.
THEOREM TypeCorrect == EitherSpec => []TypeOK
<1>1. BridgeInv => TypeOK
  <2> SUFFICES ASSUME BridgeInv PROVE TypeOK
    OBVIOUS
  <2> USE DEF BridgeInv
  <2>1. /\ pc \in {"start", "create", "bind", "select", "line", "setup", "mode", "retry",
                   "send", "poll", "unlink", "disconnect", "quit", "destroy", "done", "killed"}
        /\ idFile \in ClientIds \cup {NoId} /\ cid \in ClientIds \cup {NoId}
        /\ bt \in {"none", "running", "exited"}
    BY DEF PlainInv
  <2>2. {stopping, registered, connected, setup, modeSet, cooldown, retryDue,
         regPending, ptp} \subseteq BOOLEAN
    BY DEF PlainInv
  <2>3. /\ address \in Addrs \cup {NoAddr} /\ Elems(addresses) \subseteq Addrs
        /\ index \in Nat /\ (addresses # <<>> => index < Len(addresses))
    <3>1. addresses \in Seq(Addrs) /\ Len(addresses) \in Nat
      BY DEF CandidateInv
    <3>2. Elems(addresses) \subseteq Addrs
      BY <3>1 DEF Elems
    <3> QED
      BY <3>1, <3>2 DEF CandidateInv
  <2>4. Elems(queue) \subseteq Commands
    <3> SUFFICES ASSUME NEW i \in 1..Len(queue) PROVE queue[i] \in Commands
      BY DEF Elems
    <3>1. queue[i] \in SomeCommands /\ (queue[i].op = "notify" => queue[i].addr # NoAddr)
      BY DEF TalkInv, KnownInv, Asks
    <3>2. CASE queue[i] \in PlainCommands \cup ConnectCommands
      BY <3>2 DEF PlainCommands, ConnectCommands, Commands
    <3>3. CASE queue[i] \in NotifyCommands
      <4>1. PICK a \in Addrs \cup {NoAddr}, h \in Elems(Handles) : queue[i] = Notify(a, h)
        BY <3>3 DEF NotifyCommands
      <4>2. a \in Addrs
        BY <3>1, <4>1, CommandOps
      <4> QED
        BY <4>1, <4>2 DEF Commands
    <3> QED
      BY <3>1, <3>2, <3>3 DEF SomeCommands
  <2>5. Elems(lines) \cup Elems(out) \subseteq Lines
    <3>1. ASSUME NEW l \in SomeLines, l.type = "notification" => l.addr # NoAddr
          PROVE  l \in Lines
      <4>1. CASE l \in DeviceLines \cup RegisteredLines \cup ConnectionLines
        BY <4>1 DEF DeviceLines, RegisteredLines, ConnectionLines, Lines
      <4>2. CASE l \in NotificationLines
        <5>1. PICK a \in Addrs \cup {NoAddr}, h \in Elems(Handles) :
                     l = NotificationLine(a, h)
          BY <4>2 DEF NotificationLines
        <5>2. a \in Addrs
          BY <3>1, <5>1 DEF NotificationLine
        <5> QED
          BY <5>1, <5>2 DEF Lines
      <4> QED
        BY <4>1, <4>2 DEF SomeLines
    <3>2. /\ lines \in Seq(SomeLines) /\ out \in Seq(SomeLines)
          /\ Len(lines) \in Nat /\ Len(out) \in Nat
          /\ Len(Stream) = Len(lines) + Len(out)
          /\ \A i \in 1..(Len(lines) + Len(out)) :
               Stream[i] = IF i <= Len(lines) THEN lines[i] ELSE out[i - Len(lines)]
      BY ConcatProperties DEF TalkInv, Stream
    <3>3. ASSUME NEW i \in 1..Len(lines) PROVE lines[i] \in Lines
      <4>1. i \in 1..Len(Stream) /\ Stream[i] = lines[i] /\ lines[i] \in SomeLines
        BY <3>2
      <4> QED
        BY <3>1, <4>1 DEF NamedInv
    <3>4. ASSUME NEW i \in 1..Len(out) PROVE out[i] \in Lines
      <4>1. /\ Len(lines) + i \in 1..Len(Stream) /\ ~(Len(lines) + i <= Len(lines))
            /\ (Len(lines) + i) - Len(lines) = i /\ out[i] \in SomeLines
        BY <3>2
      <4>2. Stream[Len(lines) + i] = out[i]
        BY <3>2, <4>1
      <4> QED
        BY <3>1, <4>1, <4>2 DEF NamedInv
    <3> QED
      BY <3>3, <3>4 DEF Elems
  <2>6. /\ Elems(bonded) \subseteq Addrs /\ wanted \subseteq Addrs
        /\ link \in Addrs \cup {NoAddr} /\ enabled \subseteq Elems(Handles)
    <3>1. Elems(bonded) \subseteq Addrs
      BY DEF TalkInv, Elems
    <3> QED
      BY <2>3, <3>1 DEF TalkInv, KnownInv, ArmInv
  <2> QED
    BY <2>1, <2>2, <2>3, <2>4, <2>5, <2>6 DEF TypeOK
<1> QED
  BY <1>1, BridgeInvariant, PTL
=============================================================================
