----------------------------- MODULE LiveInstall -----------------------------
(***************************************************************************)
(* install-live-bridge.sh and uninstall-live-bridge.sh: the configuration  *)
(* of btadapterd gets the preload line, the job of the bridge is added,    *)
(* and a rollback puts back what was there.  The scripts run under set -e: *)
(* any command may fail, or be interrupted, half-way through its effect,   *)
(* and ends the script unless it is guarded by `|| true`; the trap         *)
(* remounts the root read-only, or fails to and says nothing.              *)
(***************************************************************************)
EXTENDS Integers, Sequences

CONSTANTS
  MaxInstalls,  \* bound: installations begun
  Roots         \* mount options of the root, "ro", "rw" or "rw_errors_remount_ro"

ASSUME InstallAssumption ==
  /\ MaxInstalls \in Nat
  /\ Roots \subseteq {"ro", "rw", "rw_errors_remount_ro"}

VARIABLES
  again,     \* install may be run on what an earlier one has changed: a
             \* habit of the administrator, the same all along
  script,    \* "none", "install" or "uninstall"
  pos,       \* the next of its steps
  count,     \* installations begun; the stamp of the current one
  last,      \* the last installation: "none", "ok" or "failed"
  undone,    \* an uninstallation was the last script, and ended well
  conf,      \* /etc/init/btadapterd.conf: "orig", "duet" or "torn"
  job,       \* /etc/init/duet5-hogp-bridge.conf: also "absent", "own"
  jobWas,    \* the job before any installation
  saved, jobSaved,  \* the backups, by stamp
  ptr, jobPtr,      \* the files *.current-backup: a stamp, Missing or Empty
  staged,    \* the bridge, the descriptor, the preload libraries: "absent",
             \* "whole", or "torn" when one of them is cut short or missing
  root,      \* the mount options of the root at the start
  mnt,       \* "ro" or "rw"
  wasRo,     \* $was_ro
  floss      \* btmanagerd runs

runVars == <<script, pos, count, last, undone>>
etcVars == <<conf, job, jobWas>>
backupVars == <<saved, jobSaved, ptr, jobPtr>>
mountVars == <<root, mnt, wasRo>>
vars == <<again, runVars, etcVars, backupVars, staged, mountVars, floss>>

Missing == 0
Empty == -1
Stamps == 1..MaxInstalls

BaseMount == IF root = "ro" THEN "ro" ELSE "rw"

\* Mutant: staged after the configuration that names the libraries.
StepsStagedLate ==
  [none |-> <<>>,
   install |-> <<"rw", "save", "point", "put", "stage", "jobsave", "jobpoint",
                 "jobput", "restart">>,
   uninstall |-> <<"check", "rw", "stopjob", "jobback", "confback", "reload">>]

\* Mutant: the pointer is written last.
StepsPointLate ==
  [none |-> <<>>,
   install |-> <<"rw", "save", "stage", "put", "point", "jobsave", "jobpoint",
                 "jobput", "restart">>,
   uninstall |-> <<"check", "rw", "stopjob", "jobback", "confback", "reload">>]

Steps ==
  [none |-> <<>>,
   install |-> <<"rw", "save", "point", "stage", "put", "jobsave", "jobpoint",
                 "jobput", "restart">>,
   uninstall |-> <<"check", "rw", "stopjob", "jobback", "confback", "reload">>]

PlacesOK ==
  /\ script \in {"none", "install", "uninstall"}
  /\ pos \in 1..10 /\ count \in 0..MaxInstalls
  /\ last \in {"none", "ok", "failed"}
  /\ root \in Roots /\ mnt \in {"ro", "rw"}

FilesOK ==
  /\ conf \in {"orig", "duet", "torn"}
  /\ job \in {"absent", "own", "duet", "torn"} /\ jobWas \in {"absent", "own"}
  /\ saved \in [Stamps -> {"none", "orig", "duet", "torn"}]
  /\ jobSaved \in [Stamps -> {"none", "own", "duet", "torn"}]
  /\ ptr \in {Missing, Empty} \cup Stamps /\ jobPtr \in {Missing, Empty} \cup Stamps
  /\ staged \in {"absent", "whole", "torn"}

FlagsOK ==
  /\ again \in BOOLEAN /\ undone \in BOOLEAN
  /\ wasRo \in BOOLEAN /\ floss \in BOOLEAN

TypeOK == PlacesOK /\ FilesOK /\ FlagsOK

Init ==
  /\ again \in BOOLEAN
  /\ script = "none" /\ pos = 1 /\ count = 0 /\ last = "none" /\ undone = FALSE
  /\ conf = "orig" /\ job \in {"absent", "own"} /\ jobWas = job
  /\ saved = [n \in Stamps |-> "none"] /\ jobSaved = [n \in Stamps |-> "none"]
  /\ ptr = Missing /\ jobPtr = Missing
  /\ staged = "absent"
  /\ root \in Roots /\ mnt = BaseMount /\ wasRo = FALSE
  /\ floss = TRUE

-----------------------------------------------------------------------------
Pristine == conf = "orig" /\ job = jobWas

\* *ro* matches any option that contains "ro".  It is the mount of the moment:
\* a root that an earlier script failed to remount counts as writable.
WasRo == mnt = "ro" \/ root = "rw_errors_remount_ro"

StartInstall ==
  /\ script = "none" /\ count < MaxInstalls
  /\ again \/ Pristine
  /\ script' = "install" /\ pos' = 1 /\ count' = count + 1
  /\ undone' = FALSE /\ wasRo' = WasRo
  /\ UNCHANGED <<last, etcVars, backupVars, staged, root, mnt, floss>>

StartUninstall ==
  /\ script = "none"
  /\ script' = "uninstall" /\ pos' = 1
  /\ undone' = FALSE /\ wasRo' = WasRo
  /\ UNCHANGED <<count, last, etcVars, backupVars, staged, root, mnt, floss>>

\* Between two scripts somebody adds or removes a job of that name.
OwnJobChanges ==
  /\ script = "none" /\ Pristine
  /\ job' \in {"absent", "own"} /\ jobWas' = job'
  /\ last' = "none" /\ undone' = FALSE
  /\ UNCHANGED <<script, pos, count, conf, backupVars, staged, mountVars, floss>>

At(step) == pos <= Len(Steps[script]) /\ Steps[script][pos] = step

\* The remount of the trap is guarded by `|| true`.
MountRestored == IF wasRo THEN {"ro", mnt} ELSE {mnt}

Goes == pos' = pos + 1 /\ UNCHANGED <<script, count, last, undone, mountVars>>

Ends(well, mounts) ==
  /\ script' = "none" /\ pos' = 1
  /\ last' = IF script # "install" THEN last ELSE IF well THEN "ok" ELSE "failed"
  /\ undone' = (script = "uninstall" /\ well)
  /\ mnt' \in mounts /\ wasRo' = FALSE
  /\ UNCHANGED <<count, root>>

\* set -e, and the EXIT trap.
Fails == Ends(FALSE, MountRestored)

\* A signal between two commands: the trap restores the mount and returns.
\* It is set before the remount, in a rollback after the check.
Interrupt ==
  /\ script # "none" /\ ~At("check")
  /\ mnt' \in MountRestored
  /\ UNCHANGED <<runVars, etcVars, backupVars, staged, root, wasRo, floss>>

Done ==
  /\ script # "none" /\ pos > Len(Steps[script])
  /\ Ends(TRUE, MountRestored)
  /\ UNCHANGED <<etcVars, backupVars, staged, floss>>

Remount ==
  /\ At("rw")
  /\ \/ Fails
     \/ pos' = pos + 1 /\ mnt' = "rw" /\ UNCHANGED <<script, count, last, undone, root, wasRo>>
  /\ UNCHANGED <<etcVars, backupVars, staged, floss>>

\* cp and redirections write in place: one that fails leaves the old contents
\* or a torn file.  An etc file cannot be opened while the root is ro.
\* Mutant: a cp that the mount refuses is passed over.
EtcWrittenOrNot(old, new) ==
  \/ Goes /\ new = IF mnt = "rw" THEN old.to ELSE old.from
  \/ mnt = "rw" /\ Fails /\ new \in {old.from, "torn"}

EtcWritten(old, new) ==
  \/ mnt = "rw" /\ Goes /\ new = old.to
  \/ Fails /\ new \in {old.from} \cup (IF mnt = "rw" THEN {"torn"} ELSE {})

-----------------------------------------------------------------------------
\* The installation.

\* Mutant: no set -e.
SaveUnchecked ==
  /\ At("save")
  /\ Goes
  /\ \E copy \in {conf, "torn"} : saved' = [saved EXCEPT ![count] = copy]
  /\ UNCHANGED <<etcVars, jobSaved, ptr, jobPtr, staged, floss>>

\* Mutant: one backup, overwritten each time.
SaveOneName ==
  /\ At("save")
  /\ \/ Goes /\ saved' = [n \in Stamps |-> conf]
     \/ Fails /\ saved' \in {saved, [n \in Stamps |-> "torn"]}
  /\ UNCHANGED <<etcVars, jobSaved, ptr, jobPtr, staged, floss>>

Save ==
  /\ At("save")
  /\ \/ Goes /\ saved' = [saved EXCEPT ![count] = conf]
     \/ Fails /\ saved' \in {saved, [saved EXCEPT ![count] = "torn"]}
  /\ UNCHANGED <<etcVars, jobSaved, ptr, jobPtr, staged, floss>>

Point ==
  /\ At("point")
  /\ \/ Goes /\ ptr' = count
     \/ Fails /\ ptr' \in {ptr, Empty}
  /\ UNCHANGED <<etcVars, saved, jobSaved, jobPtr, staged, floss>>

\* The bridge, the libraries, and the new configuration in the state directory:
\* copied over those of an earlier installation.
Stage ==
  /\ At("stage")
  /\ \/ Goes /\ staged' = "whole"
     \/ Fails /\ staged' \in {staged, "torn"}
  /\ UNCHANGED <<etcVars, backupVars, floss>>

\* sed and awk: a configuration that is filtered already stays as it is.
Filtered(c) == IF c = "torn" THEN "torn" ELSE "duet"

Put ==
  /\ At("put")
  /\ EtcWritten([from |-> conf, to |-> Filtered(conf)], conf')
  /\ UNCHANGED <<job, jobWas, backupVars, staged, floss>>

JobSave ==
  /\ At("jobsave")
  /\ IF job = "absent" THEN Goes /\ UNCHANGED jobSaved
     ELSE \/ Goes /\ jobSaved' = [jobSaved EXCEPT ![count] = job]
          \/ Fails /\ jobSaved' \in {jobSaved, [jobSaved EXCEPT ![count] = "torn"]}
  /\ UNCHANGED <<etcVars, saved, ptr, jobPtr, staged, floss>>

\* Mutant: the pointer is written for a job that there was not, too.
JobPointAlways ==
  /\ At("jobpoint")
  /\ \/ Goes /\ jobPtr' = count
     \/ Fails /\ jobPtr' \in {jobPtr, Empty}
  /\ UNCHANGED <<etcVars, saved, jobSaved, ptr, staged, floss>>

\* Mutant: the pointer of an earlier installation is left.
JobPointKept ==
  /\ At("jobpoint")
  /\ \/ Goes /\ jobPtr' = IF job = "absent" THEN jobPtr ELSE count
     \/ Fails /\ jobPtr' \in {jobPtr} \cup (IF job = "absent" THEN {} ELSE {Empty})
  /\ UNCHANGED <<etcVars, saved, jobSaved, ptr, staged, floss>>

JobPoint ==
  /\ At("jobpoint")
  /\ \/ Goes /\ jobPtr' = IF job = "absent" THEN Missing ELSE count
     \/ Fails /\ jobPtr' \in {jobPtr} \cup (IF job = "absent" THEN {} ELSE {Empty})
  /\ UNCHANGED <<etcVars, saved, jobSaved, ptr, staged, floss>>

JobPut ==
  /\ At("jobput")
  /\ EtcWritten([from |-> job, to |-> "duet"], job')
  /\ UNCHANGED <<conf, jobWas, backupVars, staged, floss>>

\* stop is guarded, start is not.
Restart ==
  /\ At("restart")
  /\ \/ Goes /\ floss' = TRUE
     \/ Fails /\ floss' \in {floss, FALSE}
  /\ UNCHANGED <<etcVars, backupVars, staged>>

Install ==
  Save \/ Point \/ Stage \/ Put \/ JobSave \/ JobPoint \/ JobPut \/ Restart

-----------------------------------------------------------------------------
\* The rollback.

Usable == ptr \in Stamps /\ saved[ptr] # "none"

\* Without a backup of the configuration it refuses, before anything is done.
Check ==
  /\ At("check")
  /\ IF Usable THEN Goes ELSE Ends(FALSE, {mnt})
  /\ UNCHANGED <<etcVars, backupVars, staged, floss>>

StopJob ==
  /\ At("stopjob")
  /\ Goes
  /\ UNCHANGED <<etcVars, backupVars, staged, floss>>

\* A job without a backup is removed.
JobBack ==
  /\ At("jobback")
  /\ EtcWritten([from |-> job,
                 to |-> IF jobPtr \in Stamps THEN jobSaved[jobPtr] ELSE "absent"], job')
  /\ UNCHANGED <<conf, jobWas, backupVars, staged, floss>>

ConfBack ==
  /\ At("confback")
  /\ EtcWritten([from |-> conf, to |-> saved[ptr]], conf')
  /\ UNCHANGED <<job, jobWas, backupVars, staged, floss>>

\* Here start is guarded too.
Reload ==
  /\ At("reload")
  /\ \/ Goes /\ floss' \in BOOLEAN
     \/ Fails /\ UNCHANGED floss
  /\ UNCHANGED <<etcVars, backupVars, staged>>

Uninstall == Check \/ StopJob \/ JobBack \/ ConfBack \/ Reload

Next ==
  /\ \/ StartInstall \/ StartUninstall \/ OwnJobChanges
     \/ Remount \/ Install \/ Uninstall \/ Done \/ Interrupt
  /\ UNCHANGED again

Spec == Init /\ [][Next]_vars

-----------------------------------------------------------------------------
\* Whatever command of an installation or a rollback fails, the original
\* configuration is in place or is what a rollback would restore, as long as
\* it is not installed over a configuration that was changed: what that saves
\* is the changed one.
Recoverable ==
  ~again => conf = "orig" \/ (ptr \in Stamps /\ saved[ptr] = "orig")

\* However often it is installed, over a torn or a changed file too, some
\* backup still holds the original: each has a stamp of its own.
OriginalOnDisk == conf = "orig" \/ \E n \in Stamps : saved[n] = "orig"

\* A rollback that ends well has restored the configuration and, after an
\* installation that ended well, the job too, or removed it if there was none:
\* backups and pointers of earlier installations are not mistaken for those of
\* the last one.
RollbackComplete ==
  ~again /\ undone => conf = "orig" /\ (last = "ok" => job = jobWas)

\* The configuration names the filter only when the libraries are whole, or
\* btadapterd would be started without it.  Installed again, over libraries
\* that are in use, they may be torn; that they were put there once remains.
PreloadStaged ==
  conf = "duet" => staged # "absent" /\ (~again => staged = "whole")

\* "Installed runtime bridge" is not said with a piece missing, by a script
\* either that was interrupted and went on with a root the trap had remounted.
InstallComplete ==
  [][~again /\ script = "install" /\ script' = "none" /\ last' = "ok" =>
       conf = "duet" /\ job = "duet" /\ staged = "whole" /\ floss]_vars

\* The configuration is replaced as SafeUpdate demands, in each history of
\* installations on an untouched one.
Update == INSTANCE SafeUpdate
  WITH Original <- "orig", Contents <- {"orig", "duet", "torn"}, Nothing <- "none",
       file <- IF again THEN "orig" ELSE conf,
       backup <- IF ~again /\ ptr \in Stamps THEN saved[ptr] ELSE "none"

ImplementsSafeUpdate == Update!Spec
=============================================================================
