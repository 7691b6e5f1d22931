----------------------------- MODULE ModeSwitch -----------------------------
(***************************************************************************)
(* The two scripts that choose between the pogo keyboard and Bluetooth     *)
(* against the Upstart jobs they restart: btmanagerd (Floss) and           *)
(* duet5-hogp-bridge, which starts on "started btmanagerd" and stops on    *)
(* "stopping btmanagerd".  duet5-auto-mode.sh polls for the pogo interface *)
(* and is stopped with Ctrl-C; duet5-mode.sh is run by hand.               *)
(*                                                                         *)
(* Upstart (external): `initctl start` and `stop` return when the job has  *)
(* changed state, and fail, which the scripts ignore, when it already had; *)
(* a stop waits for the jobs that stop on "stopping"; the "started" event  *)
(* is handled later, but within the five seconds the scripts sleep.        *)
(***************************************************************************)
EXTENDS Naturals

CONSTANTS
  Uses,           \* which scripts a user may have the habit of running
  Interruptible   \* those the user may stop with Ctrl-C

Scripts == {"auto", "manual"}

ASSUME ScriptsAssumption ==
  Uses \subseteq SUBSET Scripts /\ Interruptible \subseteq Scripts

VARIABLES
  used,     \* the scripts that are run at all, the same set all along
  mgr,      \* the job btmanagerd: "running" or "stopped"
  job,      \* the job duet5-hogp-bridge
  started,  \* the event "started btmanagerd" is waiting to be handled
  pogo,     \* the pogo interface is present
  at,       \* where each script is
  mode,     \* $mode of each script
  last      \* $last of the automatic one: the mode it set, or "none"

vars == <<used, mgr, job, started, pogo, at, mode, last>>

Modes == {"bt", "pogo"}

\* Mutant: no mode for a missing interface.
WantedOrNone == IF pogo THEN "pogo" ELSE "none"

Wanted == IF pogo THEN "pogo" ELSE "bt"

TypeOK ==
  /\ used \in Uses
  /\ mgr \in {"running", "stopped"} /\ job \in {"running", "stopped"}
  /\ {started, pogo} \subseteq BOOLEAN
  /\ at \in [Scripts -> {"off", "poll", "stopJob", "stopMgr", "startMgr", "finish"}]
  /\ mode \in [Scripts -> Modes]
  /\ last \in Modes \cup {"none"}

\* After boot: Floss is up and has started the bridge.
Init ==
  /\ used \in Uses
  /\ mgr = "running" /\ job = "running" /\ started = FALSE
  /\ pogo \in BOOLEAN
  /\ at = [p \in Scripts |-> "off"]
  /\ mode \in [Scripts -> Modes]
  /\ last = "none"

Moves(p, from, to) == at[p] = from /\ at' = [at EXCEPT ![p] = to]

-----------------------------------------------------------------------------
\* Each script begins.  The automatic one remembers nothing of an earlier run.

\* Mutant: $last survives a restart of the script.
AutoResumes ==
  /\ "auto" \in used
  /\ Moves("auto", "off", "poll")
  /\ UNCHANGED <<used, mgr, job, started, pogo, mode, last>>

AutoBegins ==
  /\ "auto" \in used
  /\ Moves("auto", "off", "poll")
  /\ last' = "none"
  /\ UNCHANGED <<used, mgr, job, started, pogo, mode>>

ManualBegins(m) ==
  /\ "manual" \in used
  /\ Moves("manual", "off", "stopJob")
  /\ mode' = [mode EXCEPT !["manual"] = m]
  /\ UNCHANGED <<used, mgr, job, started, pogo, last>>

\* The poll; set_mode returns at once when the mode is the last one set.
Poll ==
  /\ Wanted # last
  /\ Moves("auto", "poll", "stopJob")
  /\ mode' = [mode EXCEPT !["auto"] = Wanted]
  /\ UNCHANGED <<used, mgr, job, started, pogo, last>>

\* What both scripts do, up to the second sleep.

StopJob(p) ==
  /\ Moves(p, "stopJob", "stopMgr")
  /\ job' = "stopped"
  /\ UNCHANGED <<used, mgr, started, pogo, mode, last>>

StopMgr(p) ==
  /\ Moves(p, "stopMgr", "startMgr")
  /\ mgr' = "stopped" /\ job' = IF mgr = "running" THEN "stopped" ELSE job
  /\ UNCHANGED <<used, started, pogo, mode, last>>

StartMgr(p) ==
  /\ Moves(p, "startMgr", "finish")
  /\ mgr' = "running"
  /\ started' = (started \/ mgr = "stopped")
  /\ UNCHANGED <<used, job, pogo, mode, last>>

\* Mutant: pogo mode leaves the bridge to the auto-start.
JobLeftAlone(m) == IF m = "bt" THEN "running" ELSE job

JobFor(m) == IF m = "bt" THEN "running" ELSE "stopped"

AutoFinish ==
  /\ ~started
  /\ Moves("auto", "finish", "poll")
  /\ job' = JobFor(mode["auto"])
  /\ last' = mode["auto"]
  /\ UNCHANGED <<used, mgr, started, pogo, mode>>

\* Only the bt branch touches the job.
ManualFinish ==
  /\ ~started
  /\ Moves("manual", "finish", "off")
  /\ job' = IF mode["manual"] = "bt" THEN "running" ELSE job
  /\ UNCHANGED <<used, mgr, started, pogo, mode, last>>

\* Ctrl-C, at any point of either script.
Interrupt(p) ==
  /\ at[p] # "off"
  /\ at' = [at EXCEPT ![p] = "off"]
  /\ UNCHANGED <<used, mgr, job, started, pogo, mode, last>>

AutoStep == AutoBegins \/ Poll \/ AutoFinish
ManualStep == (\E m \in Modes : ManualBegins(m)) \/ ManualFinish
Common(p) == StopJob(p) \/ StopMgr(p) \/ StartMgr(p)

\* Upstart handles the event: `start on started btmanagerd`.
JobAutoStarts ==
  /\ started
  /\ started' = FALSE
  /\ job' = "running"
  /\ UNCHANGED <<used, mgr, pogo, at, mode, last>>

\* The keyboard cover is attached or taken off.
Toggle ==
  /\ pogo' = ~pogo
  /\ UNCHANGED <<used, mgr, job, started, at, mode, last>>

Next ==
  \/ AutoStep
  \/ ManualStep
  \/ \E p \in Scripts : Common(p)
  \/ \E p \in Interruptible : Interrupt(p)
  \/ JobAutoStarts
  \/ Toggle

Spec == Init /\ [][Next]_vars

\* A script that is running goes on, and Upstart handles its events.  That
\* the user starts one again after Ctrl-C is not assumed.
Fairness ==
  /\ WF_vars(Poll \/ AutoFinish)
  /\ WF_vars(ManualFinish)
  /\ \A p \in Scripts : WF_vars(Common(p))
  /\ WF_vars(JobAutoStarts)

FairSpec == Spec /\ Fairness

-----------------------------------------------------------------------------
\* "btmanagerd startup may auto-start the bridge job; ensure pogo mode wins":
\* between two switches of the automatic script, as long as only that is used,
\* Floss is up, and the bridge runs exactly when it last chose Bluetooth.
AutoSettled ==
  used = {"auto"} /\ at["auto"] = "poll" /\ last # "none"
    => mgr = "running" /\ (job = "running" <=> last = "bt")

\* AUTO-MODE.md: with the interface present the bridge is stopped, with the
\* interface absent it runs, once the cover stays put and the script is not
\* interrupted any more, however often it was interrupted half-way before.
\* The manual script is not used: the jobs it changes are not told by $last.
AutoFollows ==
  \A m \in Modes :
    <>[](used = {"auto"} /\ pogo = (m = "pogo") /\ at["auto"] # "off") =>
      <>[](mgr = "running" /\ (job = "running" <=> m = "bt"))

\* Floss is not left stopped by the automatic script, interrupted between the
\* stop and the start, once it is started again; runs of the manual script in
\* between, over the same two jobs, do not change that.
FlossReturns == <>[](at["auto"] # "off") => []<>(mgr = "running")

\* duet5-mode.sh says "Pogo mode selected; bridge remains stopped".
PogoStopsBridge ==
  [][ManualFinish /\ mode["manual"] = "pogo" => job' = "stopped"]_vars
=============================================================================
