-------------------------- MODULE ModeSwitchProofs --------------------------
(***************************************************************************)
(* Proofs about the mode scripts, for every choice of scripts that are     *)
(* used and may be interrupted: type correctness, and that the automatic   *)
(* script alone leaves the two jobs as its mode wants them.                *)
(***************************************************************************)
EXTENDS ModeSwitch, TLAPS

\* What the automatic script has done when it is where it is, used alone:
\* Floss runs from the start of the job to the next stop, no "started" event
\* is left once a switch is complete, and the bridge is as the mode wants it.
Alone ==
  used = {"auto"} =>
    /\ at["manual"] = "off"
    /\ at["auto"] = "finish" => mgr = "running"
    /\ at["auto"] = "poll" /\ last # "none" =>
         /\ ~started
         /\ mgr = "running"
         /\ job = JobFor(last)

LEMMA TypeStep == TypeOK /\ [Next]_vars => TypeOK'
<1> SUFFICES ASSUME TypeOK, [Next]_vars PROVE TypeOK'
  OBVIOUS
<1> USE ScriptsAssumption DEF TypeOK, Modes, Scripts, Moves
<1>1. CASE AutoBegins
  BY <1>1 DEF AutoBegins
<1>2. CASE Poll
  BY <1>2 DEF Poll, Wanted
<1>3. CASE AutoFinish
  BY <1>3 DEF AutoFinish, JobFor
<1>4. ASSUME NEW m \in Modes, ManualBegins(m) PROVE TypeOK'
  BY <1>4 DEF ManualBegins
<1>5. CASE ManualFinish
  BY <1>5 DEF ManualFinish
<1>6. ASSUME NEW p \in Scripts, StopJob(p) PROVE TypeOK'
  BY <1>6 DEF StopJob
<1>7. ASSUME NEW p \in Scripts, StopMgr(p) PROVE TypeOK'
  BY <1>7 DEF StopMgr
<1>8. ASSUME NEW p \in Scripts, StartMgr(p) PROVE TypeOK'
  BY <1>8 DEF StartMgr
<1>9. ASSUME NEW p \in Interruptible, Interrupt(p) PROVE TypeOK'
  BY <1>9 DEF Interrupt
<1>10. CASE JobAutoStarts
  BY <1>10 DEF JobAutoStarts
<1>11. CASE Toggle
  BY <1>11 DEF Toggle
<1>12. CASE UNCHANGED vars
  BY <1>12 DEF vars
<1> QED
  BY <1>1, <1>2, <1>3, <1>4, <1>5, <1>6, <1>7, <1>8, <1>9, <1>10, <1>11, <1>12
     DEF Next, AutoStep, ManualStep, Common

\* Every variable of the mode model keeps its type.
THEOREM TypeCorrect == Spec => []TypeOK
<1>1. Init => TypeOK
  BY DEF Init, TypeOK
<1> QED
  BY <1>1, TypeStep, PTL DEF Spec

-----------------------------------------------------------------------------
LEMMA AloneStep == TypeOK /\ Alone /\ [Next]_vars => Alone'
<1> SUFFICES ASSUME TypeOK, Alone, [Next]_vars PROVE Alone'
  OBVIOUS
<1> USE ScriptsAssumption DEF TypeOK, Alone, Scripts, Moves
<1>1. CASE AutoBegins
  BY <1>1 DEF AutoBegins
<1>2. CASE Poll
  BY <1>2 DEF Poll
<1>3. CASE AutoFinish
  BY <1>3 DEF AutoFinish
<1>4. ASSUME NEW m \in Modes, ManualBegins(m) PROVE Alone'
  BY <1>4 DEF ManualBegins
<1>5. CASE ManualFinish
  BY <1>5 DEF ManualFinish
<1>6. ASSUME NEW p \in Scripts, StopJob(p) PROVE Alone'
  BY <1>6 DEF StopJob
<1>7. ASSUME NEW p \in Scripts, StopMgr(p) PROVE Alone'
  BY <1>7 DEF StopMgr
<1>8. ASSUME NEW p \in Scripts, StartMgr(p) PROVE Alone'
  BY <1>8 DEF StartMgr
<1>9. ASSUME NEW p \in Interruptible, Interrupt(p) PROVE Alone'
  BY <1>9 DEF Interrupt
<1>10. CASE JobAutoStarts
  BY <1>10 DEF JobAutoStarts
<1>11. CASE Toggle
  BY <1>11 DEF Toggle
<1>12. CASE UNCHANGED vars
  BY <1>12 DEF vars
<1> QED
  BY <1>1, <1>2, <1>3, <1>4, <1>5, <1>6, <1>7, <1>8, <1>9, <1>10, <1>11, <1>12
     DEF Next, AutoStep, ManualStep, Common

\* Between two switches of the automatic script Floss is up, and the bridge
\* runs exactly when the script last chose Bluetooth, wherever earlier runs of
\* it were interrupted and whenever the cover came and went.
THEOREM AutoIsSettled == Spec => []AutoSettled
<1>1. Init => Alone
  BY DEF Init, Alone, Scripts
<1>2. TypeOK /\ Alone => AutoSettled
  BY DEF TypeOK, Alone, AutoSettled, JobFor, Modes
<1> QED
  BY <1>1, <1>2, TypeCorrect, AloneStep, PTL DEF Spec
=============================================================================
