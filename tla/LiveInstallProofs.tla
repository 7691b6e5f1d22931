------------------------- MODULE LiveInstallProofs -------------------------
(***************************************************************************)
(* Proofs about the installer of the live bridge, for any number of        *)
(* installations and any root: it never loses the original configuration,  *)
(* whatever command fails, and implements SafeUpdate, in the behaviours    *)
(* where it is run on an untouched system only (~again); some backup holds *)
(* the original in all of them.                                            *)
(***************************************************************************)
EXTENDS LiveInstall, TLAPS

\* Where the steps of the scripts are.
InstallPlaces ==
  {<<1, "rw">>, <<2, "save">>, <<3, "point">>, <<4, "stage">>, <<5, "put">>,
   <<6, "jobsave">>, <<7, "jobpoint">>, <<8, "jobput">>, <<9, "restart">>}
UninstallPlaces ==
  {<<1, "check">>, <<2, "rw">>, <<3, "stopjob">>, <<4, "jobback">>,
   <<5, "confback">>, <<6, "reload">>}

LEMMA Places ==
  ASSUME TypeOK, NEW step, At(step)
  PROVE  \/ script = "install" /\ <<pos, step>> \in InstallPlaces
         \/ script = "uninstall" /\ <<pos, step>> \in UninstallPlaces
<1>1. script \in {"none", "install", "uninstall"} /\ pos \in 1..10
  BY DEF TypeOK, PlacesOK
<1>2. pos <= Len(Steps[script]) /\ Steps[script][pos] = step
  BY DEF At
<1>3. CASE script = "none"
  BY <1>1, <1>2, <1>3 DEF Steps
<1>4. CASE script = "install"
  <2>1. Steps[script] = <<"rw", "save", "point", "stage", "put", "jobsave", "jobpoint",
                          "jobput", "restart">>
    BY <1>4 DEF Steps
  <2>2. pos \in 1..9
    BY <1>1, <1>2, <2>1
  <2> QED
    BY <1>2, <1>4, <2>1, <2>2 DEF InstallPlaces
<1>5. CASE script = "uninstall"
  <2>1. Steps[script] = <<"check", "rw", "stopjob", "jobback", "confback", "reload">>
    BY <1>5 DEF Steps
  <2>2. pos \in 1..6
    BY <1>1, <1>2, <2>1
  <2> QED
    BY <1>2, <1>5, <2>1, <2>2 DEF UninstallPlaces
<1> QED
  BY <1>1, <1>3, <1>4, <1>5

-----------------------------------------------------------------------------
\* A pointer that is followed leads to a backup that was made.
BackupInv ==
  /\ script = "install" => count \in Stamps
  /\ script = "uninstall" /\ pos > 1 => Usable
  /\ jobPtr \in Stamps => jobSaved[jobPtr] # "none"
  /\ script = "install" /\ pos = 7 /\ job # "absent" => jobSaved[count] # "none"

LEMMA PlacesStep == TypeOK /\ [Next]_vars => PlacesOK'
<1> SUFFICES ASSUME TypeOK, [Next]_vars PROVE PlacesOK'
  OBVIOUS
<1> USE InstallAssumption DEF TypeOK, PlacesOK, runVars, mountVars
<1>1. ASSUME NEW step, At(step) PROVE pos + 1 \in 1..10
  BY <1>1, Places DEF InstallPlaces, UninstallPlaces
<1>2. MountRestored \in SUBSET {"ro", "rw"}
  BY DEF MountRestored
<1>3. ASSUME NEW well, NEW mounts \in SUBSET {"ro", "rw"}, Ends(well, mounts) PROVE PlacesOK'
  BY <1>3 DEF Ends
<1>4. Fails => PlacesOK'
  BY <1>2, <1>3 DEF Fails
<1>5. ASSUME NEW step, At(step), Goes PROVE PlacesOK'
  BY <1>1, <1>5 DEF Goes
<1>6. ASSUME NEW step, At(step), NEW old, NEW new, EtcWritten(old, new) PROVE PlacesOK'
  BY <1>4, <1>5, <1>6 DEF EtcWritten
<1>7. CASE StartInstall \/ StartUninstall \/ OwnJobChanges
  BY <1>7 DEF StartInstall, StartUninstall, OwnJobChanges
<1>8. CASE Remount
  BY <1>1, <1>4, <1>8 DEF Remount
<1>9. CASE Install
  <2> HIDE DEF PlacesOK
  <2> QED
    BY <1>4, <1>5, <1>6, <1>9
       DEF Install, Save, Point, Stage, Put, JobSave, JobPoint, JobPut, Restart
<1>10. CASE Uninstall
  <2>1. {mnt} \in SUBSET {"ro", "rw"}
    OBVIOUS
  <2> HIDE DEF PlacesOK
  <2> QED
    BY <1>3, <1>4, <1>5, <1>6, <1>10, <2>1
       DEF Uninstall, Check, StopJob, JobBack, ConfBack, Reload
<1>11. CASE Done
  BY <1>2, <1>3, <1>11 DEF Done
<1>12. CASE Interrupt
  BY <1>2, <1>12 DEF Interrupt
<1>13. CASE UNCHANGED vars
  BY <1>13 DEF vars
<1> QED
  BY <1>7, <1>8, <1>9, <1>10, <1>11, <1>12, <1>13 DEF Next

LEMMA FilesStep == TypeOK /\ BackupInv /\ [Next]_vars => FilesOK'
<1> SUFFICES ASSUME TypeOK, BackupInv, [Next]_vars PROVE FilesOK'
  OBVIOUS
<1> USE InstallAssumption DEF TypeOK, FilesOK, etcVars, backupVars
<1>1. /\ At("point") \/ At("jobpoint") => count \in Stamps
      /\ At("confback") => Usable
  BY Places DEF BackupInv, InstallPlaces, UninstallPlaces
<1>2. CASE StartInstall \/ StartUninstall \/ OwnJobChanges
  BY <1>2 DEF StartInstall, StartUninstall, OwnJobChanges
<1>3. CASE Remount \/ Done \/ Interrupt
  BY <1>3 DEF Remount, Done, Interrupt
<1>4. CASE Install
  <2>1. CASE Save
    BY <2>1 DEF Save
  <2>2. CASE Point
    BY <1>1, <2>2 DEF Point
  <2>3. CASE Stage \/ Restart
    BY <2>3 DEF Stage, Restart
  <2>4. CASE Put
    BY <2>4 DEF Put, EtcWritten, Filtered
  <2>5. CASE JobSave
    BY <2>5 DEF JobSave
  <2>6. CASE JobPoint
    BY <1>1, <2>6 DEF JobPoint
  <2>7. CASE JobPut
    BY <2>7 DEF JobPut, EtcWritten
  <2> QED
    BY <1>4, <2>1, <2>2, <2>3, <2>4, <2>5, <2>6, <2>7 DEF Install
<1>5. CASE Uninstall
  <2>1. CASE Check \/ StopJob \/ Reload
    BY <2>1 DEF Check, StopJob, Reload
  <2>2. CASE JobBack
    BY <2>2 DEF JobBack, EtcWritten, BackupInv
  <2>3. CASE ConfBack
    BY <1>1, <2>3 DEF ConfBack, EtcWritten, Usable
  <2> QED
    BY <1>5, <2>1, <2>2, <2>3 DEF Uninstall
<1>6. CASE UNCHANGED vars
  BY <1>6 DEF vars
<1> QED
  BY <1>2, <1>3, <1>4, <1>5, <1>6 DEF Next

LEMMA HabitStays == [Next]_vars => again' = again
BY DEF Next, vars

LEMMA FlagsStep == TypeOK /\ [Next]_vars => FlagsOK'
<1> SUFFICES ASSUME FlagsOK, [Next]_vars PROVE FlagsOK'
  BY DEF TypeOK
<1> USE DEF FlagsOK, runVars, mountVars
<1>0. again' = again
  BY HabitStays
<1>1. CASE StartInstall \/ StartUninstall \/ OwnJobChanges
  <2>1. WasRo \in BOOLEAN
    BY DEF WasRo
  <2>2. wasRo' \in {wasRo, WasRo} /\ undone' = FALSE /\ floss' = floss
    BY <1>1 DEF StartInstall, StartUninstall, OwnJobChanges
  <2> QED
    BY <1>0, <2>1, <2>2
<1>2. CASE Remount \/ Done \/ Interrupt
  BY <1>0, <1>2 DEF Remount, Done, Interrupt, Fails, Ends
<1>3. CASE Install
  BY <1>0, <1>3
     DEF Install, Save, Point, Stage, Put, JobSave, JobPoint, JobPut, Restart,
         EtcWritten, Goes, Fails, Ends
<1>4. CASE Uninstall
  BY <1>0, <1>4
     DEF Uninstall, Check, StopJob, JobBack, ConfBack, Reload,
         EtcWritten, Goes, Fails, Ends
<1>5. CASE UNCHANGED vars
  BY <1>5 DEF vars
<1> QED
  BY <1>1, <1>2, <1>3, <1>4, <1>5 DEF Next

LEMMA BackupStep == TypeOK /\ BackupInv /\ [Next]_vars => BackupInv'
<1> SUFFICES ASSUME TypeOK, BackupInv, [Next]_vars PROVE BackupInv'
  OBVIOUS
<1> USE InstallAssumption DEF TypeOK, PlacesOK, FilesOK, BackupInv, Usable, Stamps,
        runVars, etcVars, backupVars, InstallPlaces, UninstallPlaces
<1>1. CASE StartInstall
  BY <1>1 DEF StartInstall
<1>2. CASE StartUninstall \/ OwnJobChanges \/ Interrupt
  BY <1>2 DEF StartUninstall, OwnJobChanges, Interrupt
<1>3. CASE Remount
  BY <1>3, Places DEF Remount, Fails, Ends
<1>4. CASE Done
  BY <1>4 DEF Done, Ends
<1>5. CASE Install
  <2>1. CASE Save
    BY <2>1, Places DEF Save, Goes, Fails, Ends
  <2>2. CASE Point
    BY <2>2, Places DEF Point, Goes, Fails, Ends
  <2>3. CASE Stage
    BY <2>3, Places DEF Stage, Goes, Fails, Ends
  <2>8. CASE Restart
    <3>1. At("restart") /\ (Goes \/ Fails) /\ UNCHANGED <<etcVars, backupVars>>
      BY <2>8 DEF Restart
    <3> QED
      BY <3>1, Places DEF Goes, Fails, Ends
  <2>4. CASE Put
    BY <2>4, Places DEF Put, EtcWritten, Goes, Fails, Ends
  <2>5. CASE JobSave
    BY <2>5, Places DEF JobSave, Goes, Fails, Ends
  <2>6. CASE JobPoint
    <3>1. script = "install" /\ pos = 7 /\ UNCHANGED <<job, jobSaved, saved, ptr>>
      BY <2>6, Places DEF JobPoint
    <3>2. (Goes /\ jobPtr' = IF job = "absent" THEN Missing ELSE count)
            \/ (Fails /\ jobPtr' \in {jobPtr, Empty})
      BY <2>6 DEF JobPoint
    <3> QED
      BY <3>1, <3>2 DEF Goes, Fails, Ends, Missing, Empty
  <2>7. CASE JobPut
    BY <2>7, Places DEF JobPut, EtcWritten, Goes, Fails, Ends
  <2> QED
    BY <1>5, <2>1, <2>2, <2>3, <2>4, <2>5, <2>6, <2>7, <2>8 DEF Install
<1>6. CASE Uninstall
  <2>1. CASE Check \/ StopJob \/ Reload
    BY <2>1, Places DEF Check, StopJob, Reload, Goes, Fails, Ends
  <2>2. CASE JobBack \/ ConfBack
    BY <2>2, Places DEF JobBack, ConfBack, EtcWritten, Goes, Fails, Ends
  <2> QED
    BY <1>6, <2>1, <2>2 DEF Uninstall
<1>7. CASE UNCHANGED vars
  BY <1>7 DEF vars
<1> QED
  BY <1>1, <1>2, <1>3, <1>4, <1>5, <1>6, <1>7 DEF Next

LEMMA BackupInvariant == Spec => [](TypeOK /\ BackupInv)
<1>1. Init => PlacesOK
  BY InstallAssumption DEF Init, PlacesOK, BaseMount
<1>2. Init => FilesOK
  BY DEF Init, FilesOK, Missing
<1>3. Init => FlagsOK
  BY DEF Init, FlagsOK
<1>4. Init => BackupInv
  BY InstallAssumption DEF Init, BackupInv, Missing, Stamps
<1>5. TypeOK /\ BackupInv /\ [Next]_vars => TypeOK' /\ BackupInv'
  BY PlacesStep, FilesStep, FlagsStep, BackupStep DEF TypeOK
<1> QED
  BY <1>1, <1>2, <1>3, <1>4, <1>5, PTL DEF Spec, TypeOK

\* Every variable of the installer model keeps its type.
THEOREM TypeCorrect == Spec => []TypeOK
BY BackupInvariant, PTL

-----------------------------------------------------------------------------
\* The inductive invariant.  The configuration is untouched until step 5 of
\* an installation, which by then has saved it and points to the copy; a
\* pointer that names a stamp names a copy of the original; and a rollback
\* that is past its check has one.
ConfInv ==
  /\ ptr \in Stamps => ptr <= count /\ saved[ptr] = "orig"
  /\ script = "install" /\ pos <= 5 => conf = "orig"
  /\ script = "install" /\ pos <= 3 => ptr # count
  /\ script = "install" /\ pos >= 3 => saved[count] = "orig"
  /\ script = "install" /\ pos >= 4 => ptr = count
  /\ conf # "orig" => ptr \in Stamps

LEMMA ConfStep ==
  ASSUME ~again, TypeOK, BackupInv, ConfInv, [Next]_vars
  PROVE  ConfInv'
<1> USE InstallAssumption DEF TypeOK, PlacesOK, FilesOK, BackupInv, Usable, Stamps, ConfInv,
        Missing, Empty, runVars, etcVars, backupVars, InstallPlaces, UninstallPlaces
<1>1. CASE StartInstall
  <2>1. conf = "orig"
    BY <1>1 DEF StartInstall, Pristine
  <2> QED
    BY <1>1, <2>1 DEF StartInstall
<1>2. CASE StartUninstall \/ OwnJobChanges \/ Interrupt
  BY <1>2 DEF StartUninstall, OwnJobChanges, Interrupt
<1>3. CASE Remount
  BY <1>3, Places DEF Remount, Fails, Ends
<1>4. CASE Done
  BY <1>4 DEF Done, Ends
<1>5. CASE Install
  <2>1. CASE Save
    BY <2>1, Places DEF Save, Goes, Fails, Ends
  <2>2. CASE Point
    BY <2>2, Places DEF Point, Goes, Fails, Ends
  <2>3. CASE Stage
    BY <2>3, Places DEF Stage, Goes, Fails, Ends
  <2>4. CASE Put
    BY <2>4, Places DEF Put, EtcWritten, Goes, Fails, Ends
  <2>5. CASE JobSave
    BY <2>5, Places DEF JobSave, Goes, Fails, Ends
  <2>6. CASE JobPoint
    <3>1. At("jobpoint") /\ (Goes \/ Fails) /\ UNCHANGED <<conf, saved, ptr>>
      BY <2>6 DEF JobPoint
    <3> QED
      BY <3>1, Places DEF Goes, Fails, Ends
  <2>7. CASE JobPut
    BY <2>7, Places DEF JobPut, EtcWritten, Goes, Fails, Ends
  <2>8. CASE Restart
    <3>1. At("restart") /\ (Goes \/ Fails) /\ UNCHANGED <<conf, saved, ptr>>
      BY <2>8 DEF Restart
    <3> QED
      BY <3>1, Places DEF Goes, Fails, Ends
  <2> QED
    BY <1>5, <2>1, <2>2, <2>3, <2>4, <2>5, <2>6, <2>7, <2>8 DEF Install
<1>6. CASE Uninstall
  <2>1. CASE Check \/ StopJob \/ Reload
    BY <2>1, Places DEF Check, StopJob, Reload, Goes, Fails, Ends
  <2>2. CASE JobBack \/ ConfBack
    BY <2>2, Places DEF JobBack, ConfBack, EtcWritten, Goes, Fails, Ends
  <2> QED
    BY <1>6, <2>1, <2>2 DEF Uninstall
<1>7. CASE UNCHANGED vars
  BY <1>7 DEF vars
<1> QED
  BY <1>1, <1>2, <1>3, <1>4, <1>5, <1>6, <1>7 DEF Next

LEMMA ConfInvariant == Spec => [](TypeOK /\ BackupInv /\ (~again => ConfInv))
<1>1. Init => ConfInv
  BY InstallAssumption DEF Init, ConfInv, Missing, Stamps
<1>2. TypeOK /\ BackupInv /\ (~again => ConfInv) /\ [Next]_vars => (~again => ConfInv)'
  BY ConfStep, HabitStays
<1> QED
  BY <1>1, <1>2, BackupInvariant, PTL DEF Spec

\* However many installations and rollbacks are run, and whatever command of
\* them fails, the original configuration of btadapterd is in place or is
\* what a rollback would restore.
THEOREM OriginalIsRecoverable == Spec => []Recoverable
<1>1. (~again => ConfInv) => Recoverable
  BY DEF ConfInv, Recoverable
<1> QED
  BY <1>1, ConfInvariant, PTL

-----------------------------------------------------------------------------
LEMMA RefinesInit == Init => Update!Init
BY InstallAssumption DEF Init, Update!Init, Missing, Stamps

LEMMA RefinesStep ==
  ASSUME TypeOK, BackupInv, ~again => ConfInv, TypeOK', [Next]_vars
  PROVE  [Update!Next]_(Update!vars)
<1>0. CASE again
  BY <1>0, HabitStays DEF Update!vars
<1> SUFFICES ASSUME ~again PROVE [Update!Next]_(Update!vars)
  BY <1>0
<1>a. ~again' /\ ConfInv
  BY HabitStays
<1> DEFINE backup == IF ptr \in Stamps THEN saved[ptr] ELSE "none"
<1>1. CASE conf' = conf /\ backup' = backup
  BY <1>a, <1>1 DEF Update!vars
<1>2. CASE backup = "orig" /\ UNCHANGED <<saved, ptr>> /\ conf' \in {"orig", "duet", "torn"}
  BY <1>a, <1>2 DEF Update!vars, Update!Next, Update!Write
<1>3. CASE conf = "orig" /\ conf' = conf /\ backup' \in {"orig", "none"}
  BY <1>a, <1>3 DEF Update!vars, Update!Next, Update!Save
<1> HIDE DEF backup
<1>4. FilesOK /\ FilesOK'
  BY DEF TypeOK
<1> USE DEF runVars, etcVars, backupVars
<1>5. CASE StartInstall \/ StartUninstall \/ OwnJobChanges \/ Interrupt
  BY <1>1, <1>5 DEF StartInstall, StartUninstall, OwnJobChanges, Interrupt, backup
<1>6. CASE Remount \/ Done \/ (Uninstall /\ ~ConfBack)
  BY <1>1, <1>6 DEF Remount, Done, Uninstall, Check, StopJob, JobBack, Reload, backup
<1>7. CASE Save
  <2>1. conf' = conf /\ ptr' = ptr /\ (ptr \in Stamps => ptr # count)
    BY <1>a, <1>7, Places DEF Save, ConfInv, InstallPlaces, UninstallPlaces
  <2>2. saved' \in {saved, [saved EXCEPT ![count] = conf], [saved EXCEPT ![count] = "torn"]}
    BY <1>7 DEF Save
  <2>3. ptr \in Stamps => saved'[ptr] = saved[ptr]
    BY <1>4, <2>1, <2>2 DEF FilesOK
  <2> QED
    BY <1>1, <2>1, <2>3 DEF backup
<1>8. CASE Point
  <2>1. conf' = conf /\ conf = "orig" /\ saved' = saved /\ saved[count] = "orig"
    BY <1>a, <1>8, Places DEF Point, ConfInv, InstallPlaces, UninstallPlaces
  <2>2. ptr' \in {ptr, Empty, count}
    BY <1>8 DEF Point
  <2>3. ptr \in Stamps => saved[ptr] = "orig"
    BY <1>a DEF ConfInv
  <2> QED
    BY <1>3, <2>1, <2>2, <2>3 DEF backup, Empty, Stamps
<1>9. CASE Stage \/ JobSave \/ JobPoint \/ JobPut \/ Restart
  BY <1>1, <1>9 DEF Stage, JobSave, JobPoint, JobPut, Restart, backup
<1>10. CASE Put \/ ConfBack
  <2>1. UNCHANGED <<saved, ptr>> /\ ptr \in Stamps
    BY <1>a, <1>10, Places DEF Put, ConfBack, ConfInv, BackupInv, Usable, InstallPlaces, UninstallPlaces
  <2> QED
    BY <1>a, <1>2, <1>4, <2>1 DEF ConfInv, FilesOK, backup
<1>11. CASE UNCHANGED vars
  BY <1>1, <1>11 DEF vars, backup
<1> QED
  BY <1>5, <1>6, <1>7, <1>8, <1>9, <1>10, <1>11 DEF Next, Install, Uninstall

\* The scripts replace the configuration as SafeUpdate demands: it is written
\* only while a rollback would restore the original.
THEOREM InstallerIsSafe == Spec => ImplementsSafeUpdate
<1>1. TypeOK /\ BackupInv /\ (~again => ConfInv) /\ TypeOK' /\ [Next]_vars
        => [Update!Next]_(Update!vars)
  BY RefinesStep
<1> QED
  BY <1>1, RefinesInit, ConfInvariant, PTL
     DEF Spec, ImplementsSafeUpdate, Update!Spec

-----------------------------------------------------------------------------
\* Installed again, over whatever an earlier installation has left: a backup
\* is made once and under a stamp of its own, so one of the original is not
\* overwritten, and the first that a pointer names is one of the original.
SomeOrig == \E n \in Stamps : saved[n] = "orig"

StampInv ==
  /\ \A n \in Stamps : n > count => saved[n] = "none"
  /\ script = "install" /\ pos <= 2 => saved[count] = "none"
  /\ script = "install" /\ pos \in 3..5 => saved[count] = conf
  /\ conf # "orig" \/ ptr \in Stamps => SomeOrig

LEMMA StampStep == TypeOK /\ BackupInv /\ StampInv /\ [Next]_vars => StampInv'
<1> SUFFICES ASSUME TypeOK, BackupInv, StampInv, [Next]_vars PROVE StampInv'
  OBVIOUS
<1>1. saved' = saved => SomeOrig' = SomeOrig
  BY DEF SomeOrig
<1> USE InstallAssumption DEF TypeOK, PlacesOK, FilesOK, BackupInv, Usable, Stamps, StampInv,
        Missing, Empty, runVars, etcVars, backupVars, InstallPlaces, UninstallPlaces
<1>2. CASE StartInstall
  BY <1>1, <1>2 DEF StartInstall
<1>3. CASE StartUninstall \/ OwnJobChanges \/ Interrupt
  BY <1>1, <1>3 DEF StartUninstall, OwnJobChanges, Interrupt
<1>4. CASE Remount
  BY <1>1, <1>4, Places DEF Remount, Fails, Ends
<1>5. CASE Done
  BY <1>1, <1>5 DEF Done, Ends
<1>6. CASE Save
  <2>1. script = "install" /\ pos = 2 /\ count \in Stamps /\ saved[count] = "none"
    BY <1>6, Places DEF Save
  <2>2. /\ saved' \in {saved, [saved EXCEPT ![count] = conf], [saved EXCEPT ![count] = "torn"]}
        /\ conf' = conf /\ ptr' = ptr
        /\ Goes => saved'[count] = conf
    BY <1>6, <2>1 DEF Save, Goes, Fails, Ends
  <2>3. SomeOrig => SomeOrig'
    BY <2>1, <2>2 DEF SomeOrig
  <2>4. Goes \/ Fails
    BY <1>6 DEF Save
  <2> QED
    BY <2>1, <2>2, <2>3, <2>4 DEF Goes, Fails, Ends
<1>7. CASE Point
  <2>1. script = "install" /\ pos = 3 /\ count \in Stamps /\ SomeOrig
    BY <1>7, Places DEF Point, SomeOrig
  <2> QED
    BY <1>1, <1>7, <2>1 DEF Point, Goes, Fails, Ends
<1>8. CASE Put \/ ConfBack
  <2>1. SomeOrig /\ saved' = saved /\ ptr' = ptr
    BY <1>8, Places DEF Put, ConfBack, SomeOrig
  <2> QED
    BY <1>1, <1>8, <2>1, Places DEF Put, ConfBack, EtcWritten, Goes, Fails, Ends
<1>9. CASE Stage \/ JobSave \/ JobPoint \/ JobPut \/ Restart
  <2>1. /\ At("stage") \/ At("jobsave") \/ At("jobpoint") \/ At("jobput") \/ At("restart")
        /\ Goes \/ Fails
        /\ UNCHANGED <<conf, saved, ptr>>
    BY <1>9 DEF Stage, JobSave, JobPoint, JobPut, Restart, EtcWritten
  <2> QED
    BY <1>1, <2>1, Places DEF Goes, Fails, Ends
<1>10. CASE Check \/ StopJob \/ JobBack \/ Reload
  <2>1. /\ At("check") \/ At("stopjob") \/ At("jobback") \/ At("reload")
        /\ Goes \/ Fails \/ Ends(FALSE, {mnt})
        /\ UNCHANGED <<conf, saved, ptr>>
    BY <1>10 DEF Check, StopJob, JobBack, Reload, EtcWritten
  <2> QED
    BY <1>1, <2>1, Places DEF Goes, Fails, Ends
<1>11. CASE UNCHANGED vars
  BY <1>1, <1>11 DEF vars
<1> QED
  BY <1>2, <1>3, <1>4, <1>5, <1>6, <1>7, <1>8, <1>9, <1>10, <1>11
     DEF Next, Install, Uninstall

\* However often the bridge is installed, and over whatever, some backup still
\* holds the original once the configuration is another.
THEOREM OriginalStays == Spec => []OriginalOnDisk
<1>1. Init => StampInv
  BY InstallAssumption DEF Init, StampInv, Missing, Stamps
<1>2. StampInv => OriginalOnDisk
  BY DEF StampInv, SomeOrig, OriginalOnDisk
<1> QED
  BY <1>1, <1>2, StampStep, BackupInvariant, PTL DEF Spec

-----------------------------------------------------------------------------
\* The libraries are staged before the line that names them is written, and
\* nobody removes them; a copy of a configuration that names them was made
\* after that.
StagedInv ==
  /\ script = "install" /\ pos >= 5 => staged = "whole"
  /\ conf = "duet" => staged # "absent"
  /\ \A n \in Stamps : saved[n] = "duet" => staged # "absent"

LEMMA StagedStep == TypeOK /\ BackupInv /\ StagedInv /\ [Next]_vars => StagedInv'
<1> SUFFICES ASSUME TypeOK, BackupInv, StagedInv, [Next]_vars PROVE StagedInv'
  OBVIOUS
<1> USE InstallAssumption DEF TypeOK, PlacesOK, FilesOK, BackupInv, Usable, Stamps, StagedInv,
        Missing, Empty, runVars, etcVars, backupVars, InstallPlaces, UninstallPlaces
<1>1. CASE StartInstall \/ StartUninstall \/ OwnJobChanges
  BY <1>1 DEF StartInstall, StartUninstall, OwnJobChanges
<1>2. CASE Interrupt \/ UNCHANGED vars
  BY <1>2 DEF Interrupt, vars
<1>3. CASE Remount
  BY <1>3, Places DEF Remount, Fails, Ends
<1>4. CASE Done
  BY <1>4 DEF Done, Ends
<1>5. CASE Save
  BY <1>5, Places DEF Save, Goes, Fails, Ends
<1>6. CASE Stage
  BY <1>6, Places DEF Stage, Goes, Fails, Ends
<1>7. CASE Put
  BY <1>7, Places DEF Put, EtcWritten, Goes, Fails, Ends
<1>8. CASE ConfBack
  BY <1>8, Places DEF ConfBack, EtcWritten, Goes, Fails, Ends
<1>9. CASE \/ Point \/ JobSave \/ JobPoint \/ JobPut \/ Restart
           \/ Check \/ StopJob \/ JobBack \/ Reload
  <2>1. /\ \E step \in {"point", "jobsave", "jobpoint", "jobput", "restart",
                        "check", "stopjob", "jobback", "reload"} : At(step)
        /\ Goes \/ Fails \/ Ends(FALSE, {mnt})
        /\ UNCHANGED <<conf, saved, staged>>
    BY <1>9 DEF Point, JobSave, JobPoint, JobPut, Restart, Check, StopJob, JobBack,
                Reload, EtcWritten
  <2> QED
    BY <2>1, Places DEF Goes, Fails, Ends
<1> QED
  BY <1>1, <1>2, <1>3, <1>4, <1>5, <1>6, <1>7, <1>8, <1>9 DEF Next, Install, Uninstall

\* Where an untouched system is installed on, what an installation has done so
\* far is in place: the libraries are copied while the original configuration
\* is, which is also what the preload line is added to.
DoneInv ==
  /\ conf = "duet" => staged = "whole"
  /\ script = "install" /\ pos >= 6 => conf = "duet"
  /\ script = "install" /\ pos >= 9 => job = "duet"
  /\ script = "install" /\ pos >= 10 => floss

LEMMA DoneStep ==
  ASSUME ~again, TypeOK, BackupInv, StagedInv, ConfInv, DoneInv, [Next]_vars
  PROVE  DoneInv'
<1> USE InstallAssumption DEF TypeOK, PlacesOK, FilesOK, BackupInv, Usable, Stamps, DoneInv,
        Missing, Empty, runVars, etcVars, backupVars, InstallPlaces, UninstallPlaces
<1>1. CASE StartInstall \/ StartUninstall \/ OwnJobChanges
  BY <1>1 DEF StartInstall, StartUninstall, OwnJobChanges
<1>2. CASE Interrupt \/ UNCHANGED vars
  BY <1>2 DEF Interrupt, vars
<1>3. CASE Remount
  BY <1>3, Places DEF Remount, Fails, Ends
<1>4. CASE Done
  BY <1>4 DEF Done, Ends
<1>5. CASE Stage
  <2>1. script = "install" /\ pos = 4 /\ conf = "orig"
    BY <1>5, Places DEF ConfInv, Stage
  <2> QED
    BY <1>5, <2>1 DEF Stage, Goes, Fails, Ends
<1>6. CASE Put
  <2>1. script = "install" /\ pos = 5 /\ conf = "orig" /\ staged = "whole"
    BY <1>6, Places DEF ConfInv, StagedInv, Put
  <2> QED
    BY <1>6, <2>1 DEF Put, Filtered, EtcWritten, Goes, Fails, Ends
<1>7. CASE JobPut
  BY <1>7, Places DEF JobPut, EtcWritten, Goes, Fails, Ends
<1>8. CASE Restart
  <2>1. script = "install" /\ pos = 9 /\ UNCHANGED <<conf, job, staged>>
    BY <1>8, Places DEF Restart
  <2>2. (Goes /\ floss') \/ Fails
    BY <1>8 DEF Restart
  <2> QED
    BY <2>1, <2>2 DEF Goes, Fails, Ends
<1>9. CASE ConfBack
  <2>1. script = "uninstall" /\ saved[ptr] = "orig"
    BY <1>9, Places DEF ConfBack, ConfInv
  <2> QED
    BY <1>9, <2>1 DEF ConfBack, EtcWritten, Goes, Fails, Ends
<1>10. CASE Save \/ Point \/ JobSave \/ JobPoint
  <2>1. /\ \E step \in {"save", "point", "jobsave", "jobpoint"} : At(step)
        /\ Goes \/ Fails
        /\ UNCHANGED <<conf, job, staged, floss>>
    BY <1>10 DEF Save, Point, JobSave, JobPoint
  <2> QED
    BY <2>1, Places DEF Goes, Fails, Ends
<1>11. CASE Check \/ StopJob \/ JobBack \/ Reload
  <2>1. /\ \E step \in {"check", "stopjob", "jobback", "reload"} : At(step)
        /\ Goes \/ Fails \/ Ends(FALSE, {mnt})
        /\ UNCHANGED <<conf, staged>>
    BY <1>11 DEF Check, StopJob, JobBack, Reload, EtcWritten
  <2> QED
    BY <2>1, Places DEF Goes, Fails, Ends
<1> QED
  BY <1>1, <1>2, <1>3, <1>4, <1>5, <1>6, <1>7, <1>8, <1>9, <1>10, <1>11
     DEF Next, Install, Uninstall

\* A script that is past its last step has done all of them.
LEMMA PastTheEnd ==
  ASSUME TypeOK, Done
  PROVE  \/ script = "install" /\ pos = 10
         \/ script = "uninstall" /\ pos >= 7
<1>1. script \in {"install", "uninstall"} /\ pos \in 1..10 /\ pos > Len(Steps[script])
  BY DEF TypeOK, PlacesOK, Done
<1>2. CASE script = "install"
  <2>1. Steps[script] = <<"rw", "save", "point", "stage", "put", "jobsave", "jobpoint",
                          "jobput", "restart">>
    BY <1>2 DEF Steps
  <2> QED
    BY <1>1, <1>2, <2>1
<1>3. CASE script = "uninstall"
  <2>1. Steps[script] = <<"check", "rw", "stopjob", "jobback", "confback", "reload">>
    BY <1>3 DEF Steps
  <2> QED
    BY <1>1, <1>3, <2>1
<1> QED
  BY <1>1, <1>2, <1>3

LEMMA DoneInvariant == Spec => [](TypeOK /\ StagedInv /\ (~again => DoneInv))
<1>1. Init => StagedInv /\ DoneInv
  BY DEF Init, StagedInv, DoneInv
<1>2. TypeOK /\ BackupInv /\ (~again => ConfInv) /\ StagedInv /\ (~again => DoneInv) /\ [Next]_vars
        => StagedInv' /\ (~again => DoneInv)'
  BY StagedStep, DoneStep, HabitStays
<1> QED
  BY <1>1, <1>2, ConfInvariant, PTL DEF Spec

\* Whatever command of an installation or a rollback fails, btadapterd is not
\* configured with a filter that is cut short or missing, unless it is
\* installed over an earlier installation; even then not with one that was
\* never there.
THEOREM FilterIsStaged == Spec => []PreloadStaged
<1>1. StagedInv /\ (~again => DoneInv) => PreloadStaged
  BY DEF StagedInv, DoneInv, PreloadStaged
<1> QED
  BY <1>1, DoneInvariant, PTL

\* An installation that ends well has done all of it, one that was interrupted
\* and went on included: the write that a read-only root refuses ends it.
THEOREM InstallIsComplete == Spec => InstallComplete
<1>1. TypeOK /\ StagedInv /\ (~again => DoneInv) /\ [Next]_vars
        => [~again /\ script = "install" /\ script' = "none" /\ last' = "ok" =>
              conf = "duet" /\ job = "duet" /\ staged = "whole" /\ floss]_vars
  <2> SUFFICES ASSUME TypeOK, StagedInv, DoneInv, [Next]_vars,
                      script = "install", script' = "none", last' = "ok"
               PROVE  conf = "duet" /\ job = "duet" /\ staged = "whole" /\ floss
    OBVIOUS
  <2>1. ASSUME NEW mounts, Ends(FALSE, mounts) PROVE FALSE
    BY <2>1 DEF Ends
  <2>2. Goes => FALSE
    BY DEF Goes
  <2>3. Done
    <3> USE <2>1, <2>2 DEF Fails, runVars
    <3>1. ~(StartInstall \/ StartUninstall \/ OwnJobChanges \/ Interrupt \/ UNCHANGED vars)
      BY DEF StartInstall, StartUninstall, OwnJobChanges, Interrupt, vars
    <3>2. ~(Remount \/ Install)
      BY DEF Remount, Install, Save, Point, Stage, Put, JobSave, JobPoint, JobPut, Restart,
             EtcWritten
    <3>3. ~Uninstall
      BY DEF Uninstall, Check, StopJob, JobBack, ConfBack, Reload, EtcWritten
    <3> QED
      BY <3>1, <3>2, <3>3 DEF Next
  <2>4. pos = 10
    BY <2>3, PastTheEnd
  <2> QED
    BY <2>4 DEF StagedInv, DoneInv
<1> QED
  BY <1>1, DoneInvariant, PTL DEF Spec, InstallComplete

-----------------------------------------------------------------------------
\* What a rollback would put in place of the job is what was there before any
\* installation.
JobRestores ==
  IF jobPtr \in Stamps THEN jobSaved[jobPtr] = jobWas ELSE jobWas = "absent"

\* In the behaviours where an untouched system is installed on: the job is its
\* old self up to step 8, when the copy of it is recorded (or the absence of
\* one), and from there on a rollback finds it; a failed installation makes no
\* such claim.  A rollback past step 4 has put the job back, past step 5 the
\* configuration too.
RollbackInv ==
  /\ script = "install" /\ pos <= 8 => job = jobWas
  /\ script = "install" /\ pos = 7 /\ job # "absent" => jobSaved[count] = jobWas
  /\ script = "install" /\ pos >= 8 => JobRestores
  /\ script # "install" /\ last = "ok" => JobRestores
  /\ script = "uninstall" /\ pos >= 5 /\ last = "ok" => job = jobWas
  /\ script = "uninstall" /\ pos >= 6 => conf = "orig"
  /\ undone => script = "none" /\ conf = "orig" /\ (last = "ok" => job = jobWas)

LEMMA RollbackStep ==
  ASSUME ~again, TypeOK, BackupInv, ConfInv, RollbackInv, [Next]_vars
  PROVE  RollbackInv'
<1> USE InstallAssumption DEF TypeOK, PlacesOK, FilesOK, FlagsOK, BackupInv, Usable, Stamps,
        JobRestores, RollbackInv, Missing, Empty, runVars, etcVars, backupVars,
        InstallPlaces, UninstallPlaces
<1>1. CASE StartInstall
  BY <1>1 DEF StartInstall, Pristine
<1>2. CASE StartUninstall \/ OwnJobChanges \/ Interrupt
  BY <1>2 DEF StartUninstall, OwnJobChanges, Interrupt
<1>3. CASE UNCHANGED vars
  BY <1>3 DEF vars
<1>4. CASE Remount
  BY <1>4, Places DEF Remount, Fails, Ends
<1>5. CASE Done
  <2>1. /\ script' = "none" /\ pos' = 1
        /\ last' = (IF script = "install" THEN "ok" ELSE last)
        /\ undone' = (script = "uninstall")
        /\ UNCHANGED <<etcVars, backupVars>>
    BY <1>5 DEF Done, Ends
  <2> QED
    BY <1>5, <2>1, PastTheEnd
<1>6. CASE Save \/ Point \/ Stage \/ Put \/ Restart
  <2>1. /\ \E step \in {"save", "point", "stage", "put", "restart"} : At(step)
        /\ Goes \/ Fails
        /\ UNCHANGED <<job, jobWas, jobSaved, jobPtr>>
    BY <1>6 DEF Save, Point, Stage, Put, Restart, EtcWritten
  <2> QED
    BY <2>1, Places DEF Goes, Fails, Ends
<1>7. CASE JobSave
  BY <1>7, Places DEF JobSave, Goes, Fails, Ends
<1>8. CASE JobPoint
  <2>1. /\ script = "install" /\ pos = 7 /\ count \in Stamps
        /\ UNCHANGED <<conf, job, jobWas, jobSaved>>
    BY <1>8, Places DEF JobPoint
  <2>2. (Goes /\ jobPtr' = IF job = "absent" THEN Missing ELSE count) \/ Fails
    BY <1>8 DEF JobPoint
  <2> QED
    BY <2>1, <2>2 DEF Goes, Fails, Ends
<1>9. CASE JobPut
  BY <1>9, Places DEF JobPut, EtcWritten, Goes, Fails, Ends
<1>10. CASE Check \/ StopJob \/ Reload
  <2>1. /\ \E step \in {"check", "stopjob", "reload"} : At(step)
        /\ Goes \/ Fails \/ Ends(FALSE, {mnt})
        /\ UNCHANGED <<conf, job, jobWas, jobSaved, jobPtr>>
    BY <1>10 DEF Check, StopJob, Reload
  <2> QED
    BY <2>1, Places DEF Goes, Fails, Ends
<1>11. CASE JobBack
  BY <1>11, Places DEF JobBack, EtcWritten, Goes, Fails, Ends
<1>12. CASE ConfBack
  <2>1. script = "uninstall" /\ pos = 5 /\ saved[ptr] = "orig"
    BY <1>12, Places DEF ConfBack, ConfInv
  <2> QED
    BY <1>12, <2>1 DEF ConfBack, EtcWritten, Goes, Fails, Ends
<1> QED
  BY <1>1, <1>2, <1>3, <1>4, <1>5, <1>6, <1>7, <1>8, <1>9, <1>10, <1>11, <1>12
     DEF Next, Install, Uninstall

\* A rollback that ends well has restored the configuration and, after an
\* installation that ended well, however many went before it and failed, the
\* job too.
THEOREM RollbackIsComplete == Spec => []RollbackComplete
<1>1. Init => RollbackInv
  BY DEF Init, RollbackInv
<1>2. TypeOK /\ BackupInv /\ (~again => ConfInv) /\ (~again => RollbackInv) /\ [Next]_vars
        => (~again => RollbackInv)'
  BY RollbackStep, HabitStays
<1>3. (~again => RollbackInv) => RollbackComplete
  BY DEF RollbackInv, RollbackComplete
<1> QED
  BY <1>1, <1>2, <1>3, ConfInvariant, PTL DEF Spec
=============================================================================
