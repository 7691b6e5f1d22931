---------------------------- MODULE DaemonInstall ----------------------------
(***************************************************************************)
(* The two pairs of scripts that put a patched btadapterd in place and     *)
(* roll it back: install.sh and uninstall.sh ("usb", Floss stopped through *)
(* gdbus), install-fydeos-floss.sh and uninstall-fydeos-floss.sh ("root",  *)
(* btmanagerd stopped).  They keep their backups in one directory and      *)
(* point to them from two different files.  Any command may fail, and      *)
(* under set -e ends the script; nothing starts Floss again then.          *)
(***************************************************************************)
EXTENDS Integers, Sequences

CONSTANT MaxInstalls  \* bound: installations begun

ASSUME DaemonAssumption == MaxInstalls \in Nat

Pairs == {"usb", "root"}
Stamps == 1..MaxInstalls
Missing == 0
Empty == -1

VARIABLES
  again,   \* install may be run on what an earlier one has changed: a habit
           \* of the administrator, the same all along
  script,  \* "none", "install" or "uninstall"
  pair,    \* which pair the script is of
  pos,     \* the next of its steps
  count,   \* installations begun; the stamp of the current one
  ended,   \* how the last script ended: "none", "failed", "installed", "restored"
  binary,  \* /usr/bin/btadapterd: "orig", "patched", "torn" or "absent"
  saved,   \* the backups btadapterd.original-<stamp>
  ptr,     \* current-backup (usb), current-btadapterd-backup (root)
  floss    \* the adapter daemon has been started

runVars == <<script, pair, pos, count, ended>>
diskVars == <<binary, saved, ptr>>
vars == <<again, runVars, diskVars, floss>>

\* Mutant: the pointer is written when all is done.
StepsPointLate ==
  [none |-> <<>>,
   install |-> <<"save", "stop", "replace", "start", "point">>,
   uninstall |-> <<"check", "stop", "restore", "start">>]

\* Mutant: the daemon is not started after a rollback.
StepsNoStart ==
  [none |-> <<>>,
   install |-> <<"save", "point", "stop", "replace", "start">>,
   uninstall |-> <<"check", "stop", "restore">>]

Steps ==
  [none |-> <<>>,
   install |-> <<"save", "point", "stop", "replace", "start">>,
   uninstall |-> <<"check", "stop", "restore", "start">>]

TypeOK ==
  /\ again \in BOOLEAN
  /\ script \in {"none", "install", "uninstall"}
  /\ pair \in Pairs
  /\ pos \in 1..6 /\ count \in 0..MaxInstalls
  /\ ended \in {"none", "failed", "installed", "restored"}
  /\ binary \in {"orig", "patched", "torn", "absent"}
  /\ saved \in [Stamps -> {"none", "orig", "patched", "torn"}]
  /\ ptr \in [Pairs -> {Missing, Empty} \cup Stamps]
  /\ floss \in BOOLEAN

Init ==
  /\ again \in BOOLEAN
  /\ script = "none" /\ pair \in Pairs
  /\ pos = 1 /\ count = 0 /\ ended = "none"
  /\ binary = "orig"
  /\ saved = [n \in Stamps |-> "none"]
  /\ ptr = [p \in Pairs |-> Missing]
  /\ floss = TRUE

StartInstall(p) ==
  /\ script = "none" /\ count < MaxInstalls
  /\ again \/ binary = "orig"
  /\ binary # "absent"
  /\ script' = "install" /\ pair' = p
  /\ pos' = 1 /\ count' = count + 1
  /\ UNCHANGED <<ended, diskVars, floss>>

StartUninstall(p) ==
  /\ script = "none"
  /\ script' = "uninstall" /\ pair' = p
  /\ pos' = 1
  /\ UNCHANGED <<count, ended, diskVars, floss>>

At(step) == pos <= Len(Steps[script]) /\ Steps[script][pos] = step

\* Mutant: a step is skipped.
SkipsStep == pos' = pos + 2 /\ UNCHANGED <<script, pair, count, ended>>

Goes == pos' = pos + 1 /\ UNCHANGED <<script, pair, count, ended>>

Ends(how) ==
  /\ script' = "none" /\ pos' = 1 /\ ended' = how
  /\ UNCHANGED <<pair, count>>

Fails == Ends("failed")

Done ==
  /\ script # "none" /\ pos > Len(Steps[script])
  /\ Ends(IF script = "install" THEN "installed" ELSE "restored")
  /\ UNCHANGED <<diskVars, floss>>

-----------------------------------------------------------------------------
\* Mutant: one backup, overwritten each time.
SaveOneName ==
  /\ At("save")
  /\ \/ Goes /\ saved' = [n \in Stamps |-> binary]
     \/ Fails /\ saved' \in {saved, [n \in Stamps |-> "torn"]}
  /\ UNCHANGED <<binary, ptr, floss>>

\* Mutant: a failing cp is not noticed.
SaveUnchecked ==
  /\ At("save")
  /\ Goes
  /\ \E copy \in {binary, "torn"} : saved' = [saved EXCEPT ![count] = copy]
  /\ UNCHANGED <<binary, ptr, floss>>

Save ==
  /\ At("save")
  /\ \/ Goes /\ saved' = [saved EXCEPT ![count] = binary]
     \/ Fails /\ saved' \in {saved, [saved EXCEPT ![count] = "torn"]}
  /\ UNCHANGED <<binary, ptr, floss>>

Point ==
  /\ At("point")
  /\ \/ Goes /\ ptr' = [ptr EXCEPT ![pair] = count]
     \/ Fails /\ ptr' \in {ptr, [ptr EXCEPT ![pair] = Empty]}
  /\ UNCHANGED <<binary, saved, floss>>

\* gdbus Stop must succeed; a failing /sbin/stop is ignored.
Stop ==
  /\ At("stop")
  /\ \/ Goes /\ floss' \in (IF pair = "root" THEN {floss, FALSE} ELSE {FALSE})
     \/ pair = "usb" /\ Fails /\ UNCHANGED floss
  /\ UNCHANGED diskVars

\* install(1) removes the old file and writes a new one.
Replace ==
  /\ At("replace")
  /\ \/ Goes /\ binary' = "patched"
     \/ Fails /\ binary' \in {binary, "absent", "torn"}
  /\ UNCHANGED <<saved, ptr, floss>>

\* cp opens the file in place; it fails at once while the daemon, which gdbus
\* only asked to stop, still executes it.
Restore ==
  /\ At("restore")
  /\ \/ Goes /\ binary' = saved[ptr[pair]]
     \/ Fails /\ binary' \in {binary, "torn"}
  /\ UNCHANGED <<saved, ptr, floss>>

Start ==
  /\ At("start")
  /\ \/ Goes /\ floss' = TRUE
     \/ Fails /\ UNCHANGED floss
  /\ UNCHANGED diskVars

\* The pairs whose pointer leads to a backup.
Usable == {p \in Pairs : ptr[p] \in Stamps /\ saved[ptr[p]] # "none"}

\* No backup recorded, or none where the pointer says.
Check ==
  /\ At("check")
  /\ IF pair \in Usable THEN Goes ELSE Ends("failed")
  /\ UNCHANGED <<diskVars, floss>>

Next ==
  /\ \/ \E p \in Pairs : StartInstall(p) \/ StartUninstall(p)
     \/ Check \/ Save \/ Point \/ Stop \/ Replace \/ Restore \/ Start \/ Done
  /\ UNCHANGED again

Spec == Init /\ [][Next]_vars

-----------------------------------------------------------------------------
\* A rollback that ends well leaves the original binary, whatever failed
\* before it and whichever pair of scripts it is of (HANDOFF.md: it "restores
\* the recorded original `btadapterd` backup"), unless a changed binary was
\* installed over: the recorded backup is that one then.
RollbackRestores ==
  ~again /\ script = "none" /\ ended = "restored" => binary = "orig"

\* A script that ends well leaves a daemon that can run, and started, also
\* when it was installed over a changed binary; a torn one that was installed
\* over comes back with the rollback.
EndsRunning ==
  script = "none" /\ ended \in {"installed", "restored"}
    => floss /\ (binary \in {"orig", "patched"} \/ again)

\* Some backup holds the original, however often something is installed.
OriginalOnDisk == binary = "orig" \/ \E n \in Stamps : saved[n] = "orig"

\* In each history of installations of the original binary, it is replaced as
\* SafeUpdate demands; the rollback of either pair will do.
Update == INSTANCE SafeUpdate
  WITH Original <- "orig", Contents <- {"orig", "patched", "torn", "absent"},
       Nothing <- "none",
       file <- IF again THEN "orig" ELSE binary,
       backup <- IF again \/ Usable = {} THEN "none"
                 ELSE saved[ptr[CHOOSE p \in Usable : TRUE]]

ImplementsSafeUpdate == Update!Spec
=============================================================================
