------------------------------ MODULE BtClient ------------------------------
(***************************************************************************)
(* btclient on its pseudo-terminal, with Floss and the keyboard behind it, *)
(* as the bridge uses them.  None of this code is in the repository: what  *)
(* a command does is what the bridge relies on, and everything else        *)
(* happens on its own, in any order.  A line btclient prints is a record,  *)
(* a command typed to it too.                                              *)
(***************************************************************************)
EXTENDS Integers, Sequences, FiniteSets

CONSTANTS
  Addrs,      \* privacy addresses the keyboard is bonded under, over time
  NoAddr,     \* no address (Python's None)
  ClientIds,  \* GATT client ids Floss hands out
  Handles,    \* the keys of INPUT_HANDLES, in their order
  FirstBonds, \* the bonded addresses at the start, each a sequence
  MaxOut      \* bound: unsolicited lines are printed below this backlog

NoId == -1

ASSUME BtAssumption ==
  /\ NoAddr \notin Addrs
  /\ ClientIds \subseteq 0..255
  /\ FirstBonds \subseteq Seq(Addrs)
  /\ Handles \in Seq(Nat)
  /\ MaxOut \in Nat \ {0}

VARIABLES
  out,         \* lines printed and not read yet
  bt,          \* the process: "none", "running" or "exited"
  cid,         \* the client id Floss gave it, or NoId
  regPending,  \* Floss has yet to answer "gatt register-client"
  bonded,      \* the bonded addresses, in the order they are listed
  wanted,      \* addresses with a background connection
  link,        \* the address that is connected, or NoAddr
  enabled,     \* handles whose notifications are enabled on this link
  ptp          \* this link is in Precision Touchpad mode

btVars == <<bt, cid, regPending>>
linkVars == <<link, enabled, ptp>>
btClientVars == <<out, btVars, bonded, wanted, linkVars>>

Elems(s) == {s[i] : i \in 1..Len(s)}

Cmd(op) == [op |-> op, addr |-> NoAddr, handle |-> 0]
Connect(a) == [op |-> "connect", addr |-> a, handle |-> 0]
Notify(a, h) == [op |-> "notify", addr |-> a, handle |-> h]

DeviceLine(a) == [type |-> "device", addr |-> a]
RegisteredLine(ok, id) == [type |-> "registered", ok |-> ok, id |-> id]
ConnectionLine(a, up) == [type |-> "connection", addr |-> a, up |-> up]
NotificationLine(a, h) == [type |-> "notification", addr |-> a, handle |-> h]

BtInit ==
  /\ out = <<>>
  /\ bt = "none" /\ cid = NoId /\ regPending = FALSE
  /\ bonded \in FirstBonds
  /\ wanted = {}
  /\ link = NoAddr /\ enabled = {} /\ ptp = FALSE

NoLink == link' = NoAddr /\ enabled' = {} /\ ptp' = FALSE

\* The process ends; Floss drops its client and what belongs to it.
BtGone ==
  /\ bt' = "exited" /\ regPending' = FALSE /\ wanted' = {}
  /\ NoLink
  /\ UNCHANGED <<cid, bonded, out>>

Prints(line) == out' = Append(out, line)

\* A typed command is carried out; one typed to a dead process is lost.
\* Connecting an address that is connected reports that connection again.
Executes(c) ==
  /\ bt = "running"
  /\ out' = IF c.op = "list"
              THEN out \o [i \in 1..Len(bonded) |-> DeviceLine(bonded[i])]
            ELSE IF c.op = "connect" /\ link = c.addr
              THEN Append(out, ConnectionLine(c.addr, TRUE))
            ELSE out
  /\ regPending' = (regPending \/ c.op = "register")
  /\ wanted' = CASE c.op = "connect" -> wanted \cup {c.addr}
                 [] c.op = "disconnect" -> wanted \ {c.addr}
                 [] OTHER -> wanted
  /\ IF c.op = "disconnect" /\ link = c.addr THEN NoLink
     ELSE /\ enabled' = IF c.op = "notify" /\ link = c.addr
                          THEN enabled \cup {c.handle} ELSE enabled
          /\ UNCHANGED <<link, ptp>>
  /\ UNCHANGED <<bt, cid, bonded>>

Type(c) == Executes(c) \/ (bt # "running" /\ UNCHANGED btClientVars)

RegisterReply(id) ==
  /\ bt = "running" /\ regPending
  /\ regPending' = FALSE
  /\ \/ Prints(RegisteredLine(TRUE, id)) /\ cid' = id
     \/ Prints(RegisteredLine(FALSE, id)) /\ UNCHANGED cid
  /\ UNCHANGED <<bt, bonded, wanted, linkVars>>

Room == bt = "running" /\ Len(out) < MaxOut

\* A background connection completes.  It stays wanted: a keyboard that
\* went away comes back by itself.
LinkUp(a) ==
  /\ Room
  /\ a \in wanted
  /\ link = NoAddr
  /\ link' = a
  /\ Prints(ConnectionLine(a, TRUE))
  /\ UNCHANGED <<btVars, bonded, wanted, enabled, ptp>>

LinkDown ==
  /\ Room
  /\ link # NoAddr
  /\ NoLink
  /\ Prints(ConnectionLine(link, FALSE))
  /\ UNCHANGED <<btVars, bonded, wanted>>

ConnectFails(a) ==
  /\ Room
  /\ a \in wanted \ {link}
  /\ wanted' = wanted \ {a}
  /\ Prints(ConnectionLine(a, FALSE))
  /\ UNCHANGED <<btVars, bonded, linkVars>>

Report(h) ==
  /\ Room
  /\ h \in enabled
  /\ Prints(NotificationLine(link, h))
  /\ UNCHANGED <<btVars, bonded, wanted, linkVars>>

\* The keyboard is paired, under a new privacy address.
Bond(a) ==
  /\ a \notin Elems(bonded)
  /\ bonded' = Append(bonded, a)
  /\ UNCHANGED <<out, btVars, wanted, linkVars>>

BtExit == bt = "running" /\ BtGone

External ==
  \/ \E id \in ClientIds : RegisterReply(id)
  \/ \E a \in Addrs : LinkUp(a) \/ ConnectFails(a) \/ Bond(a)
  \/ \E h \in Elems(Handles) : Report(h)
  \/ LinkDown
  \/ BtExit
=============================================================================
