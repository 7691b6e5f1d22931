------------------------------- MODULE Service -------------------------------
(***************************************************************************)
(* The Upstart job of the bridge: what stopping, killing and respawning it *)
(* does to the script run-duet5-bridge.sh and to the bridges it started.   *)
(*                                                                         *)
(* Upstart (external) sends SIGTERM to the process group of the script,    *)
(* which holds its bridge too, and SIGKILL five seconds later, and takes   *)
(* the job for stopped as soon as the script is gone.  A bridge that is    *)
(* still there then is in nobody's group any more.  The trap of the script *)
(* cleans up and returns: the script ends only if the signal also made the *)
(* command fail that it was waiting for (set -e), and goes on if that      *)
(* command is guarded by `|| true`.                                        *)
(*                                                                         *)
(* Time is discrete; a tick is half a second in the runs.  What the code   *)
(* sleeps is the least a step takes, rounded down; the answer to a signal  *)
(* and the shutdown of a bridge have a most, rounded up.  The gdbus call   *)
(* of the loop has no limit: a round that starts it after SIGTERM takes as *)
(* long as Floss does.                                                     *)
(***************************************************************************)
EXTENDS Integers, FiniteSets

CONSTANTS
  MaxBridges,  \* bound: bridge processes at a time
  Rest,        \* sleep 2 of the script
  Settle,      \* time.sleep(2) of the bridge
  Pace,        \* the 0.8 s between `list bonded` and the registration
  Grace,       \* a round of the loop after SIGTERM, its gdbus call left out
  Closing,     \* disconnect (0.5 s) and quit (at most 3 s)
  KillAfter,   \* kill timeout of Upstart, 5 s
  Faults       \* the sets of "bridge" and "shell" of which one may die

ASSUME ServiceAssumption ==
  /\ MaxBridges \in Nat \ {0}
  /\ {Rest, Settle, Pace, Grace, Closing, KillAfter} \subseteq Nat
  /\ Faults \subseteq SUBSET {"bridge", "shell"}

\* A round of the loop comes to its gdbus call, or to its end, before the 2 s
\* of a new bridge are over (it waits 0.2 s for input), and the registration
\* is not answered at once.
ASSUME TimingAssumption == Grace < Settle /\ 0 < Pace

Slots == 1..MaxBridges

VARIABLES
  mortal,  \* which processes may die by themselves, the same set all along
  job,     \* "up", "stopping" or "down"
  killIn,  \* ticks left until SIGKILL
  sh,      \* where the script is, "none" when it does not run
  rest,    \* ticks left of its sleep 2
  cur,     \* $bridge
  br,      \* the bridges
  file     \* the bridge named by /tmp/duet5-bridge-client-id, 0 if none

vars == <<mortal, job, killIn, sh, rest, cur, br, file>>

\* st     "free", "settle", "pace", "ready", "published", "calling" or "closing"
\* bound  its UHID device is bound to hid-multitouch
\* left   ticks it still needs, or may still take
\* sig    it got SIGTERM
\* ours   it is in the process group of the script
NoBridge ==
  [st |-> "free", left |-> 0, bound |-> FALSE, sig |-> FALSE, ours |-> FALSE]

Looping == {"pace", "ready", "published"}
Live == {s \in Slots : br[s].st # "free"}
Forwarding == {s \in Slots : br[s].st = "published"}

TypeOK ==
  /\ mortal \in Faults
  /\ job \in {"up", "stopping", "down"}
  /\ killIn \in 0..KillAfter /\ rest \in 0..Rest
  /\ sh \in {"none", "clear", "launch", "work", "sleep", "wait", "rest"}
  /\ (sh = "none") = (job = "down")
  /\ cur \in 0..MaxBridges /\ file \in 0..MaxBridges
  /\ \A s \in Slots :
       /\ br[s].st \in {"free", "settle", "calling", "closing"} \cup Looping
       /\ br[s].left \in 0..(Settle + Pace + Grace + Closing)
       /\ br[s].ours => job # "down"

Init ==
  /\ mortal \in Faults
  /\ job = "down" /\ killIn = 0
  /\ sh = "none" /\ rest = 0 /\ cur = 0
  /\ br = [s \in Slots |-> NoBridge]
  /\ file = 0

-----------------------------------------------------------------------------
\* The script.

At(place) == sh = place /\ UNCHANGED <<mortal, job, killIn>>

Clear ==
  /\ At("clear")
  /\ sh' = "launch"
  /\ file' = 0
  /\ UNCHANGED <<rest, cur, br>>

\* The device is created at once; whether the kernel binds it is not ours to say.
Born(bound) ==
  [st |-> "settle", left |-> Settle, bound |-> bound, sig |-> FALSE, ours |-> TRUE]

Launch(s) ==
  /\ At("launch")
  /\ br[s].st = "free"
  /\ \E bound \in BOOLEAN : br' = [br EXCEPT ![s] = Born(bound)]
  /\ cur' = s
  /\ sh' = "work"
  /\ UNCHANGED <<rest, file>>

\* The commands of the inner loop, guarded or sleep 0.5; module Watchdog has
\* them one by one.

\* Mutant: `kill -0` fails for a bridge that is closing.
RoundImpatient ==
  /\ \/ At("work") /\ br[cur].st \notin {"free", "closing"} /\ sh' = "sleep"
     \/ At("sleep") /\ sh' = "work"
     \/ At("work") /\ br[cur].st \in {"free", "closing"} /\ sh' = "wait"
  /\ UNCHANGED <<rest, cur, br, file>>

Round ==
  /\ \/ At("work") /\ br[cur].st # "free" /\ sh' = "sleep"
     \/ At("sleep") /\ sh' = "work"
     \/ At("work") /\ br[cur].st = "free" /\ sh' = "wait"
  /\ UNCHANGED <<rest, cur, br, file>>

Reap ==
  /\ At("wait")
  /\ sh' = "rest"
  /\ rest' = Rest
  /\ UNCHANGED <<cur, br, file>>

Rested ==
  /\ At("rest") /\ rest = 0
  /\ sh' = "clear"
  /\ UNCHANGED <<rest, cur, br, file>>

Shell == Clear \/ (\E s \in Slots : Launch(s)) \/ Round \/ Reap \/ Rested

-----------------------------------------------------------------------------
\* A bridge, one that is an orphan included.

Becomes(s, st, left) ==
  br' = [br EXCEPT ![s].st = st, ![s].left = left]

Alone == UNCHANGED <<mortal, job, killIn, sh, rest, cur>>

\* find_created_hid returns the first device of that name it comes across.
\* The sleep of 2 s is resumed after a signal; the loop is then left at once.
Settled(s) ==
  /\ br[s].st = "settle" /\ br[s].left = 0
  /\ \E t \in Live : br[t].bound
  /\ ~br[s].sig
  /\ Becomes(s, "pace", Pace)
  /\ Alone /\ UNCHANGED file

Paced(s) ==
  /\ br[s].st = "pace" /\ br[s].left = 0
  /\ ~br[s].sig
  /\ Becomes(s, "ready", 0)
  /\ Alone /\ UNCHANGED file

\* The registration is answered; a signal may have come in the same round.
Publish(s) ==
  /\ br[s].st = "ready"
  /\ Becomes(s, "published", br[s].left)
  /\ file' = s
  /\ Alone

\* The last round of a bridge that got SIGTERM may still set the touchpad
\* mode: by a gdbus that the signal to the group came too early for, and
\* without a timeout.  No report is read in this round any more.  (A call that
\* is under way gets the signal too and fails at once.)
Call(s) ==
  /\ br[s].st = "published" /\ br[s].sig
  /\ Becomes(s, "calling", 0)
  /\ Alone /\ UNCHANGED file

\* The finally block: the file is unlinked, whoever has written it.  It is
\* reached on a signal and on any exception (the device is not bound, btclient
\* ends).
TearDown(s) ==
  /\ \/ /\ br[s].st = "settle" /\ br[s].left = 0
        /\ br[s].sig \/ \E t \in Live : ~br[t].bound
     \/ br[s].st \in Looping \cup {"calling"}
  /\ Becomes(s, "closing", Closing)
  /\ file' = 0
  /\ Alone

\* Mutant: the file is unlinked last.
GoneUnlinks(s) ==
  /\ br[s].st = "closing"
  /\ br' = [br EXCEPT ![s] = NoBridge]
  /\ file' = 0
  /\ Alone

Gone(s) ==
  /\ br[s].st = "closing"
  /\ br' = [br EXCEPT ![s] = NoBridge]
  /\ Alone /\ UNCHANGED file

\* SIGKILL or a crash of the interpreter.
Dies(s) ==
  /\ "bridge" \in mortal
  /\ br[s].st # "free"
  /\ br' = [br EXCEPT ![s] = NoBridge]
  /\ Alone /\ UNCHANGED file

Bridge(s) ==
  Settled(s) \/ Paced(s) \/ Publish(s) \/ Call(s) \/ TearDown(s) \/ Gone(s) \/ Dies(s)

-----------------------------------------------------------------------------
\* Upstart.

StartJob ==
  /\ job = "down"
  /\ job' = "up" /\ sh' = "clear"
  /\ UNCHANGED <<mortal, killIn, rest, cur, br, file>>

Orphaned == [s \in Slots |-> [br[s] EXCEPT !.ours = FALSE]]

\* Mutant: a bridge in a session of its own.
TermMissed == br

\* SIGTERM in the group.  A bridge notes it, and has a round to react.
Termed ==
  [s \in Slots |->
    IF ~br[s].ours THEN br[s]
    ELSE [br[s] EXCEPT !.sig = TRUE,
                       !.left = IF br[s].st \in Looping THEN Grace ELSE @]]

\* The commands that SIGTERM makes fail unguarded, and those that may have
\* succeeded just before.
Fragile == {"sleep", "rest", "clear"}
Guarded == {"clear", "launch", "work", "wait"}

\* The job is stopped; the trap removes the files in either case.
StopJob ==
  /\ job = "up"
  /\ file' = 0
  /\ \/ /\ sh \in Fragile
        /\ job' = "down" /\ sh' = "none"
        /\ br' = [s \in Slots |-> [Termed[s] EXCEPT !.ours = FALSE]]
        /\ UNCHANGED killIn
     \/ /\ sh \in Guarded
        /\ job' = "stopping" /\ killIn' = KillAfter
        /\ br' = Termed
        /\ UNCHANGED sh
  /\ UNCHANGED <<mortal, rest, cur>>

KillDue == job = "stopping" /\ killIn = 0

\* Mutant: only the script is killed.
KillsScriptOnly ==
  /\ KillDue
  /\ job' = "down" /\ sh' = "none"
  /\ UNCHANGED <<mortal, killIn, rest, cur, br, file>>

KillJob ==
  /\ KillDue
  /\ job' = "down" /\ sh' = "none"
  /\ br' = [s \in Slots |-> IF br[s].ours THEN NoBridge ELSE br[s]]
  /\ UNCHANGED <<mortal, killIn, rest, cur, file>>

\* The script ends by itself, with or without its EXIT trap; `respawn` starts
\* another one, in a group of its own.
ShellDies ==
  /\ "shell" \in mortal
  /\ job # "down"
  /\ IF job = "up" THEN sh' = "clear" /\ UNCHANGED job
                   ELSE sh' = "none" /\ job' = "down"
  /\ br' = Orphaned
  /\ file' \in {file, 0}
  /\ UNCHANGED <<mortal, killIn, rest, cur>>

Upstart == StartJob \/ StopJob \/ KillJob \/ ShellDies

-----------------------------------------------------------------------------
Down(n) == IF n > 0 THEN n - 1 ELSE 0

\* A bridge that got SIGTERM, or is closing, has a limit to keep; one that
\* waits for gdbus has none.
AtLimit(b) ==
  b.left = 0 /\ (b.st = "closing" \/ (b.sig /\ b.st \in Looping \cup {"settle"}))

Tick ==
  /\ ~KillDue
  /\ \A s \in Slots : ~AtLimit(br[s])
  /\ killIn' = Down(killIn) /\ rest' = Down(rest)
  /\ br' = [s \in Slots |-> [br[s] EXCEPT !.left = Down(@)]]
  /\ UNCHANGED <<mortal, job, sh, cur, file>>

Next == Shell \/ (\E s \in Slots : Bridge(s)) \/ Upstart \/ Tick

Spec == Init /\ [][Next]_vars

Proceeds(s) ==
  Settled(s) \/ Paced(s) \/ Publish(s) \/ (br[s].st = "settle" /\ TearDown(s))

\* Time passes; the script runs; Floss answers a registration; a bridge that
\* got SIGTERM or is closing goes on (gdbus ends some time: D-Bus itself gives
\* a call up that is not answered); Upstart sends its SIGKILL.
Fairness ==
  /\ WF_vars(Tick) /\ WF_vars(Shell) /\ WF_vars(KillJob)
  /\ \A s \in Slots :
       /\ WF_vars(Proceeds(s))
       /\ WF_vars(br[s].sig /\ TearDown(s))
       /\ WF_vars(Gone(s))

FairSpec == Spec /\ Fairness

-----------------------------------------------------------------------------
\* The script starts a bridge only when the one before is gone, whatever
\* dies, so its process group never holds two.
OneOwnBridge == Cardinality({s \in Live : br[s].ours}) <= 1

\* The next three hold as long as the script is not killed alone: it is
\* respawned then, and its bridge is in nobody's process group.
ScriptLasts == "shell" \notin mortal

\* At no time do two bridges feed the keyboard's reports to UHID, though the
\* job may be started again while the bridge of the last run is shutting down,
\* or held up by gdbus for any time.
OneForwarder == ScriptLasts => Cardinality(Forwarding) <= 1

\* A bridge of the running job that has published loses its file to nobody but
\* itself and the stop of the job: neither the late unlink of a predecessor
\* nor a trap takes it away, except that of a predecessor whose last round was
\* held up by gdbus.
OnlyACallTakesFile ==
  [][ScriptLasts /\ job = "up" =>
       \A s \in Forwarding : br[s].ours /\ file = s /\ file' # s =>
         \/ br'[s].st # "published" \/ job' # "up"
         \/ \E t \in Slots : br[t].st = "calling" /\ br'[t].st = "closing"]_vars

\* AUTO-MODE.md: "interface present: stop the Bluetooth bridge and use pogo
\* mode".  A job that stays stopped leaves no bridge running: one that Upstart
\* does not wait for has its SIGTERM and ends by itself.
StopStopsBridge ==
  ScriptLasts /\ job = "down" ~> Live = {} \/ job # "down"
=============================================================================
