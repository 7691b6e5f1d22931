------------------------ MODULE DaemonInstallProofs ------------------------
(***************************************************************************)
(* Proofs about the installers of the patched btadapterd, for any number   *)
(* of installations by either pair of scripts: a rollback that ends well   *)
(* restores the original and the installers implement SafeUpdate, in the   *)
(* behaviours where only the original is installed over (~again); some     *)
(* backup holds the original in all of them.                               *)
(***************************************************************************)
EXTENDS DaemonInstall, TLAPS

\* Where the steps of the scripts are.
InstallPlaces ==
  {<<1, "save">>, <<2, "point">>, <<3, "stop">>, <<4, "replace">>, <<5, "start">>}
UninstallPlaces ==
  {<<1, "check">>, <<2, "stop">>, <<3, "restore">>, <<4, "start">>}

LEMMA Places ==
  ASSUME TypeOK, NEW step, At(step)
  PROVE  \/ script = "install" /\ <<pos, step>> \in InstallPlaces
         \/ script = "uninstall" /\ <<pos, step>> \in UninstallPlaces
<1>1. script \in {"none", "install", "uninstall"} /\ pos \in 1..6
  BY DEF TypeOK
<1>2. pos <= Len(Steps[script]) /\ Steps[script][pos] = step
  BY DEF At
<1>3. CASE script = "none"
  BY <1>1, <1>2, <1>3 DEF Steps
<1>4. CASE script = "install"
  <2>1. Steps[script] = <<"save", "point", "stop", "replace", "start">>
    BY <1>4 DEF Steps
  <2>2. pos \in 1..5
    BY <1>1, <1>2, <2>1
  <2> QED
    BY <1>2, <1>4, <2>1, <2>2 DEF InstallPlaces
<1>5. CASE script = "uninstall"
  <2>1. Steps[script] = <<"check", "stop", "restore", "start">>
    BY <1>5 DEF Steps
  <2>2. pos \in 1..4
    BY <1>1, <1>2, <2>1
  <2> QED
    BY <1>2, <1>5, <2>1, <2>2 DEF UninstallPlaces
<1> QED
  BY <1>1, <1>3, <1>4, <1>5

\* A script that is past its last step has done all of them.
LEMMA PastTheEnd ==
  ASSUME TypeOK, Done
  PROVE  \/ script = "install" /\ pos = 6
         \/ script = "uninstall" /\ pos \in 5..6
<1>1. script \in {"install", "uninstall"} /\ pos \in 1..6 /\ pos > Len(Steps[script])
  BY DEF TypeOK, Done
<1>2. CASE script = "install"
  <2>1. Steps[script] = <<"save", "point", "stop", "replace", "start">>
    BY <1>2 DEF Steps
  <2> QED
    BY <1>1, <1>2, <2>1
<1>3. CASE script = "uninstall"
  <2>1. Steps[script] = <<"check", "stop", "restore", "start">>
    BY <1>3 DEF Steps
  <2> QED
    BY <1>1, <1>3, <2>1
<1> QED
  BY <1>1, <1>2, <1>3

-----------------------------------------------------------------------------
\* A rollback past its check has a backup, and there is a file to save.
BackupInv ==
  /\ script = "install" => count \in Stamps
  /\ script = "install" /\ pos <= 4 => binary # "absent"
  /\ script = "uninstall" /\ pos > 1 => pair \in Usable

LEMMA HabitStays == [Next]_vars => again' = again
BY DEF Next, vars

\* What the files hold.
FilesOK ==
  /\ binary \in {"orig", "patched", "torn", "absent"}
  /\ saved \in [Stamps -> {"none", "orig", "patched", "torn"}]
  /\ ptr \in [Pairs -> {Missing, Empty} \cup Stamps]

\* Where the script is.
PlaceOK ==
  /\ script \in {"none", "install", "uninstall"}
  /\ pair \in Pairs
  /\ pos \in 1..6 /\ count \in 0..MaxInstalls
  /\ ended \in {"none", "failed", "installed", "restored"}

LEMMA TypeParts ==
  TypeOK <=> PlaceOK /\ FilesOK /\ again \in BOOLEAN /\ floss \in BOOLEAN
BY DEF TypeOK, PlaceOK, FilesOK

LEMMA PlaceStep == TypeOK /\ [Next]_vars => PlaceOK'
<1> SUFFICES ASSUME TypeOK, [Next]_vars PROVE PlaceOK'
  OBVIOUS
<1>0. PlaceOK
  BY TypeParts
<1>1. ASSUME NEW step, At(step) PROVE pos + 1 \in 1..6
  BY <1>1, Places DEF InstallPlaces, UninstallPlaces
<1> USE DaemonAssumption DEF PlaceOK
<1>2. ASSUME NEW how \in {"failed", "installed", "restored"}, Ends(how) PROVE PlaceOK'
  BY <1>0, <1>2 DEF Ends
<1>3. ASSUME NEW step, At(step), Goes PROVE PlaceOK'
  BY <1>0, <1>1, <1>3 DEF Goes
<1>4. Fails => PlaceOK'
  BY <1>2 DEF Fails
<1>5. ASSUME NEW p \in Pairs, StartInstall(p) \/ StartUninstall(p) PROVE PlaceOK'
  BY <1>0, <1>5 DEF StartInstall, StartUninstall
<1>6. CASE Done
  BY <1>2, <1>6 DEF Done
<1>7. CASE UNCHANGED vars
  BY <1>0, <1>7 DEF vars, runVars
<1> HIDE DEF PlaceOK
<1>8. CASE Check \/ Save \/ Point \/ Stop \/ Replace \/ Restore \/ Start
  BY <1>2, <1>3, <1>4, <1>8 DEF Check, Save, Point, Stop, Replace, Restore, Start
<1> QED
  BY <1>5, <1>6, <1>7, <1>8 DEF Next

LEMMA FilesStep == TypeOK /\ BackupInv /\ [Next]_vars => FilesOK'
<1> SUFFICES ASSUME TypeOK, BackupInv, [Next]_vars PROVE FilesOK'
  OBVIOUS
<1>0. FilesOK /\ PlaceOK
  BY TypeParts
<1>1. /\ At("save") => script = "install" /\ pos = 1
      /\ At("point") => script = "install" /\ pos = 2
      /\ At("restore") => script = "uninstall" /\ pos = 3
  BY Places DEF InstallPlaces, UninstallPlaces
<1> USE DEF FilesOK, diskVars
<1>2. ASSUME NEW p \in Pairs, StartInstall(p) \/ StartUninstall(p) PROVE FilesOK'
  BY <1>0, <1>2 DEF StartInstall, StartUninstall
<1>3. CASE Check \/ Stop \/ Start \/ Done
  BY <1>0, <1>3 DEF Check, Stop, Start, Done
<1>4. CASE Save
  BY <1>0, <1>1, <1>4 DEF Save, BackupInv
<1>5. CASE Point
  BY <1>0, <1>1, <1>5 DEF Point, BackupInv, PlaceOK
<1>6. CASE Replace
  BY <1>0, <1>6 DEF Replace
<1>7. CASE Restore
  BY <1>0, <1>1, <1>7 DEF Restore, BackupInv, Usable
<1>8. CASE UNCHANGED vars
  BY <1>0, <1>8 DEF vars
<1> QED
  BY <1>2, <1>3, <1>4, <1>5, <1>6, <1>7, <1>8 DEF Next

LEMMA FlossStep == TypeOK /\ [Next]_vars => floss' \in BOOLEAN
<1> SUFFICES ASSUME floss \in BOOLEAN, [Next]_vars PROVE floss' \in BOOLEAN
  BY DEF TypeOK
<1>1. CASE UNCHANGED vars
  BY <1>1 DEF vars
<1> QED
  BY <1>1 DEF Next, StartInstall, StartUninstall, Check, Save, Point, Stop,
     Replace, Restore, Start, Done

LEMMA BackupStep == TypeOK /\ BackupInv /\ [Next]_vars => BackupInv'
<1> SUFFICES ASSUME TypeOK, BackupInv, [Next]_vars PROVE BackupInv'
  OBVIOUS
<1>0. FilesOK /\ PlaceOK
  BY TypeParts
<1> USE DaemonAssumption
        DEF FilesOK, PlaceOK, BackupInv, Usable, Stamps, diskVars, InstallPlaces,
            UninstallPlaces
<1>1. ASSUME NEW p \in Pairs, StartInstall(p) PROVE BackupInv'
  BY <1>0, <1>1 DEF StartInstall
<1>2. ASSUME NEW p \in Pairs, StartUninstall(p) PROVE BackupInv'
  BY <1>0, <1>2 DEF StartUninstall
<1>3. CASE Done
  BY <1>0, <1>3 DEF Done, Ends
<1>4. CASE Check
  BY <1>0, <1>4, Places DEF Check, Goes, Ends
<1>5. CASE Save
  BY <1>0, <1>5, Places DEF Save, Goes, Fails, Ends
<1>6. CASE Point
  BY <1>0, <1>6, Places DEF Point, Goes, Fails, Ends
<1>7. CASE Stop
  <2>1. At("stop") /\ (Goes \/ Fails) /\ UNCHANGED <<binary, saved, ptr>>
    BY <1>7 DEF Stop
  <2> QED
    BY <1>0, <2>1, Places DEF Goes, Fails, Ends
<1>8. CASE Replace
  BY <1>0, <1>8, Places DEF Replace, Goes, Fails, Ends
<1>9. CASE Restore
  BY <1>0, <1>9, Places DEF Restore, Goes, Fails, Ends
<1>10. CASE Start
  <2>1. At("start") /\ (Goes \/ Fails) /\ UNCHANGED <<binary, saved, ptr>>
    BY <1>10 DEF Start
  <2> QED
    BY <1>0, <2>1, Places DEF Goes, Fails, Ends
<1>11. CASE UNCHANGED vars
  BY <1>0, <1>11 DEF vars, runVars
<1> QED
  BY <1>1, <1>2, <1>3, <1>4, <1>5, <1>6, <1>7, <1>8, <1>9, <1>10, <1>11 DEF Next

LEMMA BackupInvariant == Spec => [](TypeOK /\ BackupInv)
<1>1. Init => TypeOK /\ BackupInv
  BY DaemonAssumption DEF Init, TypeOK, BackupInv, Missing, Stamps, Pairs
<1>2. TypeOK /\ BackupInv /\ [Next]_vars => TypeOK' /\ BackupInv'
  <2> SUFFICES ASSUME TypeOK, BackupInv, [Next]_vars PROVE TypeOK' /\ BackupInv'
    OBVIOUS
  <2>1. again' \in BOOLEAN
    BY HabitStays DEF TypeOK
  <2> QED
    BY <2>1, PlaceStep, FilesStep, FlossStep, BackupStep DEF TypeOK, PlaceOK, FilesOK
<1> QED
  BY <1>1, <1>2, PTL DEF Spec

\* Every variable of the daemon installer keeps its type.
THEOREM TypeCorrect == Spec => []TypeOK
BY BackupInvariant, PTL

-----------------------------------------------------------------------------
\* The inductive invariant for installations of the original.  The binary is
\* untouched until step 4 of an installation, which by then has saved it and
\* recorded the copy; whatever pointer names a stamp names a copy of the
\* original; and a rollback past its third step has put one back.
OrigInv ==
  /\ \A p \in Pairs : ptr[p] \in Stamps => ptr[p] <= count /\ saved[ptr[p]] = "orig"
  /\ script = "install" /\ pos <= 4 => binary = "orig"
  /\ script = "install" /\ pos <= 2 => \A p \in Pairs : ptr[p] # count
  /\ script = "install" /\ pos >= 2 => saved[count] = "orig"
  /\ script = "install" /\ pos >= 3 => ptr[pair] = count
  /\ script = "uninstall" /\ pos >= 4 => binary = "orig"
  /\ script = "none" /\ ended = "restored" => binary = "orig"
  /\ binary # "orig" => \E p \in Pairs : ptr[p] \in Stamps

LEMMA OrigStep ==
  ASSUME ~again, TypeOK, BackupInv, OrigInv, [Next]_vars
  PROVE  OrigInv'
<1>0. FilesOK /\ PlaceOK
  BY TypeParts
<1> USE DaemonAssumption
        DEF FilesOK, PlaceOK, BackupInv, OrigInv, Usable, Stamps, Missing, Empty,
            diskVars, InstallPlaces, UninstallPlaces
<1>1. ASSUME NEW p \in Pairs, StartInstall(p) PROVE OrigInv'
  <2>1. binary = "orig"
    BY <1>1 DEF StartInstall
  <2> QED
    BY <1>0, <1>1, <2>1 DEF StartInstall
<1>2. ASSUME NEW p \in Pairs, StartUninstall(p) PROVE OrigInv'
  BY <1>0, <1>2 DEF StartUninstall
<1>3. CASE Done
  BY <1>0, <1>3, PastTheEnd DEF Done, Ends
<1>4. CASE Check
  BY <1>0, <1>4, Places DEF Check, Goes, Ends
<1>5. CASE Save
  BY <1>0, <1>5, Places DEF Save, Goes, Fails, Ends
<1>6. CASE Point
  BY <1>0, <1>6, Places DEF Point, Goes, Fails, Ends
<1>7. CASE Stop
  <2>1. At("stop") /\ (Goes \/ Fails) /\ UNCHANGED <<binary, saved, ptr>>
    BY <1>7 DEF Stop
  <2> QED
    BY <1>0, <2>1, Places DEF Goes, Fails, Ends
<1>8. CASE Replace
  BY <1>0, <1>8, Places DEF Replace, Goes, Fails, Ends
<1>9. CASE Restore
  BY <1>0, <1>9, Places DEF Restore, Goes, Fails, Ends
<1>10. CASE Start
  <2>1. At("start") /\ (Goes \/ Fails) /\ UNCHANGED <<binary, saved, ptr>>
    BY <1>10 DEF Start
  <2> QED
    BY <1>0, <2>1, Places DEF Goes, Fails, Ends
<1>11. CASE UNCHANGED vars
  BY <1>0, <1>11 DEF vars, runVars
<1> QED
  BY <1>1, <1>2, <1>3, <1>4, <1>5, <1>6, <1>7, <1>8, <1>9, <1>10, <1>11 DEF Next

LEMMA OrigInvariant == Spec => [](TypeOK /\ BackupInv /\ (~again => OrigInv))
<1>1. Init => OrigInv
  BY DaemonAssumption DEF Init, OrigInv, Missing, Stamps, Pairs
<1>2. TypeOK /\ BackupInv /\ (~again => OrigInv) /\ [Next]_vars => (~again => OrigInv)'
  BY OrigStep, HabitStays
<1> QED
  BY <1>1, <1>2, BackupInvariant, PTL DEF Spec

\* A rollback that ends well has restored the original binary, whichever pair
\* of scripts it is of and whatever failed before it.
THEOREM RollbackIsComplete == Spec => []RollbackRestores
<1>1. (~again => OrigInv) => RollbackRestores
  BY DEF OrigInv, RollbackRestores
<1> QED
  BY <1>1, OrigInvariant, PTL

-----------------------------------------------------------------------------
\* What SafeUpdate sees as the backup.
Restorable == IF Usable = {} THEN "none" ELSE saved[ptr[CHOOSE p \in Usable : TRUE]]

LEMMA RestorableIsOrig ==
  OrigInv => Restorable = (IF Usable = {} THEN "none" ELSE "orig")
<1> SUFFICES ASSUME OrigInv
             PROVE  Restorable = IF Usable = {} THEN "none" ELSE "orig"
  OBVIOUS
<1>1. \A p \in Usable : saved[ptr[p]] = "orig"
  BY DEF OrigInv, Usable
<1>2. CASE Usable # {}
  <2>1. (CHOOSE p \in Usable : TRUE) \in Usable
    BY <1>2
  <2> QED
    BY <1>1, <1>2, <2>1 DEF Restorable
<1> QED
  BY <1>2 DEF Restorable

LEMMA RefinesInit == Init => Update!Init
BY DaemonAssumption DEF Init, Update!Init, Usable, Missing, Stamps, Pairs

LEMMA RefinesStep ==
  ASSUME TypeOK, BackupInv, ~again => OrigInv, TypeOK', (~again => OrigInv)', [Next]_vars
  PROVE  [Update!Next]_(Update!vars)
<1>1. CASE again
  BY <1>1, HabitStays DEF Update!vars
<1> SUFFICES ASSUME ~again PROVE [Update!Next]_(Update!vars)
  BY <1>1
<1>2. ~again' /\ OrigInv /\ OrigInv'
  BY HabitStays
<1>3. /\ Restorable = IF Usable = {} THEN "none" ELSE "orig"
      /\ Restorable' = IF Usable' = {} THEN "none" ELSE "orig"
  <2>1. (OrigInv => Restorable = (IF Usable = {} THEN "none" ELSE "orig"))'
    BY RestorableIsOrig, PTL
  <2> QED
    BY <1>2, <2>1, RestorableIsOrig
<1>4. CASE binary' = binary /\ Usable' = Usable
  <2>1. Restorable' = Restorable
    BY <1>3, <1>4
  <2> QED
    BY <1>2, <1>4, <2>1 DEF Update!vars, Restorable
<1>5. CASE Usable # {} /\ Usable' = Usable
           /\ binary' \in {"orig", "patched", "torn", "absent"}
  <2>1. Restorable' = Restorable /\ Restorable = "orig"
    BY <1>3, <1>5
  <2> QED
    BY <1>2, <1>5, <2>1 DEF Update!vars, Update!Next, Update!Write, Restorable
<1>6. CASE binary = "orig" /\ binary' = binary
  BY <1>2, <1>3, <1>6 DEF Update!vars, Update!Next, Update!Save, Restorable
<1>7. FilesOK /\ FilesOK'
  BY TypeParts DEF TypeOK, FilesOK
<1> USE DEF diskVars
<1>8. ASSUME NEW p \in Pairs, StartInstall(p) \/ StartUninstall(p)
      PROVE  [Update!Next]_(Update!vars)
  BY <1>4, <1>8 DEF StartInstall, StartUninstall, Usable
<1>9. CASE Check \/ Stop \/ Start \/ Done
  BY <1>4, <1>9 DEF Check, Stop, Start, Done, Usable
<1>10. CASE Save \/ Point
  BY <1>2, <1>6, <1>10, Places DEF Save, Point, OrigInv, InstallPlaces, UninstallPlaces
<1>11. CASE Replace \/ Restore
  <2>1. Usable' = Usable
    BY <1>11 DEF Replace, Restore, Usable
  <2>2. pair \in Usable
    <3>1. CASE Restore
      BY <3>1, Places DEF Restore, BackupInv, InstallPlaces, UninstallPlaces
    <3>2. CASE Replace
      <4>1. script = "install" /\ pos = 4
        BY <3>2, Places DEF Replace, InstallPlaces, UninstallPlaces
      <4>2. ptr[pair] = count /\ saved[count] = "orig" /\ count \in Stamps /\ pair \in Pairs
        BY <1>2, <4>1 DEF OrigInv, BackupInv, TypeOK
      <4> QED
        BY <4>2 DEF Usable
    <3> QED
      BY <1>11, <3>1, <3>2
  <2> QED
    BY <1>5, <1>7, <2>1, <2>2 DEF FilesOK
<1>12. CASE UNCHANGED vars
  BY <1>4, <1>12 DEF vars, Usable
<1> QED
  BY <1>8, <1>9, <1>10, <1>11, <1>12 DEF Next

\* The scripts replace the binary as SafeUpdate demands: it is written only
\* while a rollback by one of the pairs would restore the original.
THEOREM InstallersAreSafe == Spec => ImplementsSafeUpdate
<1>1. TypeOK /\ BackupInv /\ (~again => OrigInv)
        /\ TypeOK' /\ (~again => OrigInv)' /\ [Next]_vars
        => [Update!Next]_(Update!vars)
  BY RefinesStep
<1> QED
  BY <1>1, RefinesInit, OrigInvariant, PTL
     DEF Spec, ImplementsSafeUpdate, Update!Spec

-----------------------------------------------------------------------------
\* Installed over anything: each backup is made once, under a stamp of its
\* own, before the binary is replaced for the first time.
SomeOrig == \E n \in Stamps : saved[n] = "orig"

StampInv ==
  /\ \A n \in Stamps : n > count => saved[n] = "none"
  /\ script = "install" /\ pos = 1 => saved[count] = "none"
  /\ script = "install" /\ pos \in 2..4 => saved[count] = binary
  /\ binary # "orig" \/ (\E p \in Pairs : ptr[p] \in Stamps) => SomeOrig

LEMMA StampStep == TypeOK /\ BackupInv /\ StampInv /\ [Next]_vars => StampInv'
<1> SUFFICES ASSUME TypeOK, BackupInv, StampInv, [Next]_vars PROVE StampInv'
  OBVIOUS
<1>0. FilesOK /\ PlaceOK
  BY TypeParts
<1>1. saved' = saved => SomeOrig' = SomeOrig
  BY DEF SomeOrig
<1> USE DaemonAssumption
        DEF FilesOK, PlaceOK, BackupInv, StampInv, Usable, Stamps, Missing, Empty,
            diskVars, InstallPlaces, UninstallPlaces
<1>2. ASSUME NEW p \in Pairs, StartInstall(p) PROVE StampInv'
  BY <1>0, <1>1, <1>2 DEF StartInstall
<1>3. ASSUME NEW p \in Pairs, StartUninstall(p) PROVE StampInv'
  BY <1>0, <1>1, <1>3 DEF StartUninstall
<1>4. CASE Done
  BY <1>0, <1>1, <1>4 DEF Done, Ends
<1>5. CASE Check
  BY <1>0, <1>1, <1>5, Places DEF Check, Goes, Ends
<1>6. CASE Save
  <2>1. script = "install" /\ pos = 1 /\ count \in Stamps /\ saved[count] = "none"
    BY <1>6, Places DEF Save
  <2>2. /\ saved' \in {saved, [saved EXCEPT ![count] = binary], [saved EXCEPT ![count] = "torn"]}
        /\ binary' = binary /\ ptr' = ptr
        /\ Goes => saved'[count] = binary
    BY <1>0, <1>6, <2>1 DEF Save, Goes, Fails, Ends
  <2>3. SomeOrig => SomeOrig'
    BY <1>0, <2>1, <2>2 DEF SomeOrig
  <2>4. Goes \/ Fails
    BY <1>6 DEF Save
  <2> QED
    BY <1>0, <2>1, <2>2, <2>3, <2>4 DEF Goes, Fails, Ends
<1>7. CASE Point
  <2>1. script = "install" /\ pos = 2 /\ count \in Stamps /\ SomeOrig
    BY <1>7, Places DEF Point, SomeOrig
  <2> QED
    BY <1>0, <1>1, <1>7, <2>1 DEF Point, Goes, Fails, Ends
<1>8. CASE Stop \/ Start
  <2>1. (At("stop") \/ At("start")) /\ (Goes \/ Fails) /\ UNCHANGED <<binary, saved, ptr>>
    BY <1>8 DEF Stop, Start
  <2> QED
    BY <1>0, <1>1, <2>1, Places DEF Goes, Fails, Ends
<1>9. CASE Replace \/ Restore
  <2>1. SomeOrig
    BY <1>9, Places DEF Replace, Restore, SomeOrig
  <2>2. /\ saved' = saved /\ ptr' = ptr /\ (Goes \/ Fails)
        /\ \/ script = "install" /\ pos = 4
           \/ script = "uninstall" /\ pos = 3
    BY <1>9, Places DEF Replace, Restore
  <2> QED
    BY <1>0, <1>1, <2>1, <2>2 DEF Goes, Fails, Ends
<1>10. CASE UNCHANGED vars
  BY <1>0, <1>1, <1>10 DEF vars, runVars
<1> QED
  BY <1>2, <1>3, <1>4, <1>5, <1>6, <1>7, <1>8, <1>9, <1>10 DEF Next

\* However often it is installed, by either pair and over whatever, some
\* backup still holds the original once the binary is another.
THEOREM OriginalStays == Spec => []OriginalOnDisk
<1>1. Init => StampInv
  BY DaemonAssumption DEF Init, StampInv, Missing, Stamps, Pairs
<1>2. StampInv => OriginalOnDisk
  BY DEF StampInv, SomeOrig, OriginalOnDisk
<1> QED
  BY <1>1, <1>2, StampStep, BackupInvariant, PTL DEF Spec

-----------------------------------------------------------------------------
\* A script past its step `start` has started the daemon, and nothing stops it
\* but the next script; what it starts is what the step before put in place.
RunInv ==
  /\ script = "install" /\ pos = 6 => floss
  /\ script = "uninstall" /\ pos >= 5 => floss
  /\ ~again /\ script = "install" /\ pos >= 5 => binary = "patched"
  /\ EndsRunning

LEMMA RunStep ==
  ASSUME TypeOK, BackupInv, ~again => OrigInv, RunInv, [Next]_vars
  PROVE  RunInv'
<1>0. PlaceOK /\ again' = again
  BY TypeParts, HabitStays
<1> USE DEF PlaceOK, RunInv, EndsRunning, diskVars, InstallPlaces, UninstallPlaces
<1>1. ASSUME NEW p \in Pairs, StartInstall(p) \/ StartUninstall(p) PROVE RunInv'
  BY <1>0, <1>1 DEF StartInstall, StartUninstall
<1>2. CASE UNCHANGED vars
  BY <1>0, <1>2 DEF vars, runVars
<1>3. CASE Done
  BY <1>0, <1>3, PastTheEnd DEF Done, Ends, OrigInv
<1>4. CASE Check \/ Save \/ Point \/ Stop \/ Restore
  <2>1. /\ \E step \in {"check", "save", "point", "stop", "restore"} : At(step)
        /\ Goes \/ Fails
    BY <1>4 DEF Check, Save, Point, Stop, Restore, Fails
  <2> QED
    BY <1>0, <2>1, Places DEF Goes, Fails, Ends
<1>5. CASE Replace
  BY <1>0, <1>5, Places DEF Replace, Goes, Fails, Ends
<1>6. CASE Start
  <2>1. /\ At("start")
        /\ (Goes /\ floss') \/ Fails
        /\ UNCHANGED binary
    BY <1>6 DEF Start
  <2> QED
    BY <1>0, <2>1, Places DEF Goes, Fails, Ends
<1> QED
  BY <1>1, <1>2, <1>3, <1>4, <1>5, <1>6 DEF Next

\* A script that ends well leaves the adapter daemon started, and whole: the
\* original or the patched one, never one cut short by a copy that failed.
THEOREM DaemonIsLeftRunning == Spec => []EndsRunning
<1>1. Init => RunInv
  BY DEF Init, RunInv, EndsRunning
<1>2. RunInv => EndsRunning
  BY DEF RunInv
<1> QED
  BY <1>1, <1>2, RunStep, OrigInvariant, PTL DEF Spec
=============================================================================
