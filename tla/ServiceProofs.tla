--------------------------- MODULE ServiceProofs ---------------------------
(***************************************************************************)
(* Proofs about the job of the bridge, for any number of bridges, any      *)
(* times and whatever dies: the script never has two bridges in its        *)
(* process group, so that stopping the job reaches the only one it has.    *)
(***************************************************************************)
EXTENDS Service, FiniteSetTheorems, TLAPS

MaxLeft == Settle + Pace + Grace + Closing

BridgeStates ==
  [st : {"free", "settle", "calling", "closing"} \cup Looping, left : 0..MaxLeft,
   bound : BOOLEAN, sig : BOOLEAN, ours : BOOLEAN]

\* The bridge in the group is $bridge, and the script is in its inner loop.
OwnInv ==
  /\ br \in [Slots -> BridgeStates]
  /\ sh \in {"work", "sleep"} => cur \in Slots
  /\ \A s \in Slots :
       br[s].st # "free" /\ br[s].ours => s = cur /\ sh \in {"work", "sleep"}
  /\ \A s \in Slots : br[s].ours => job # "down"
  /\ sh # "none" => job # "down"

LEMMA Times ==
  /\ {Rest, Settle, Pace, Grace, Closing, KillAfter, MaxLeft, MaxBridges} \subseteq Nat
  /\ {Settle, Pace, Grace, Closing} \subseteq 0..MaxLeft
BY ServiceAssumption DEF MaxLeft

LEMMA States ==
  /\ NoBridge \in BridgeStates
  /\ \A bound \in BOOLEAN : Born(bound) \in BridgeStates
  /\ \A b \in BridgeStates :
       /\ \A st \in {"free", "settle", "calling", "closing"} \cup Looping, left \in 0..MaxLeft :
            [b EXCEPT !.st = st, !.left = left] \in BridgeStates
       /\ [b EXCEPT !.ours = FALSE] \in BridgeStates
       /\ [b EXCEPT !.left = Down(@)] \in BridgeStates
       /\ [b EXCEPT !.sig = TRUE,
                    !.left = IF b.st \in Looping THEN Grace ELSE @] \in BridgeStates
<1> USE Times
<1>1. NoBridge \in BridgeStates
  BY DEF NoBridge, BridgeStates
<1>2. \A bound \in BOOLEAN : Born(bound) \in BridgeStates
  BY DEF Born, BridgeStates
<1>3. ASSUME NEW b \in BridgeStates PROVE Down(b.left) \in 0..MaxLeft
  BY <1>3 DEF BridgeStates, Down
<1>4. ASSUME NEW b \in BridgeStates
      PROVE  /\ \A st \in {"free", "settle", "calling", "closing"} \cup Looping, left \in 0..MaxLeft :
                  [b EXCEPT !.st = st, !.left = left] \in BridgeStates
             /\ [b EXCEPT !.ours = FALSE] \in BridgeStates
  BY DEF BridgeStates
<1>5. ASSUME NEW b \in BridgeStates PROVE [b EXCEPT !.left = Down(@)] \in BridgeStates
  BY <1>3 DEF BridgeStates
<1>6. ASSUME NEW b \in BridgeStates
      PROVE  [b EXCEPT !.sig = TRUE,
                       !.left = IF b.st \in Looping THEN Grace ELSE @] \in BridgeStates
  BY DEF BridgeStates
<1> QED
  BY <1>1, <1>2, <1>4, <1>5, <1>6

\* One bridge takes a step of its own.
LEMMA BridgeStep == OwnInv /\ (\E s \in Slots : Bridge(s)) => OwnInv'
<1> SUFFICES ASSUME OwnInv, NEW s \in Slots, Bridge(s) PROVE OwnInv'
  OBVIOUS
<1>1. UNCHANGED <<sh, cur, job>>
  BY DEF Bridge, Settled, Paced, Publish, Call, TearDown, Gone, Dies, Alone
<1>2. \/ br' = [br EXCEPT ![s] = NoBridge]
      \/ /\ br[s].st # "free"
         /\ \E st \in {"free", "settle", "calling", "closing"} \cup Looping, left \in 0..MaxLeft :
              br' = [br EXCEPT ![s].st = st, ![s].left = left]
  <2>1. CASE Settled(s) \/ Paced(s) \/ Publish(s) \/ Call(s) \/ TearDown(s)
    <3>1. br[s].st # "free" /\ br[s].left \in 0..MaxLeft
      BY <2>1 DEF Settled, Paced, Publish, Call, TearDown, Looping, OwnInv, BridgeStates
    <3>2. PICK st \in {"pace", "ready", "published", "calling", "closing"},
               left \in {Pace, 0, br[s].left, Closing} :
            br' = [br EXCEPT ![s].st = st, ![s].left = left]
      BY <2>1 DEF Settled, Paced, Publish, Call, TearDown, Becomes, Looping
    <3>3. st \in {"free", "settle", "calling", "closing"} \cup Looping
      BY DEF Looping
    <3>4. 0 \in 0..MaxLeft
      BY Times
    <3>5. left \in 0..MaxLeft
      BY <3>1, <3>4, Times
    <3> QED
      BY <3>1, <3>2, <3>3, <3>5
  <2>2. CASE Gone(s) \/ Dies(s)
    BY <2>2 DEF Gone, Dies
  <2> QED
    BY <2>1, <2>2 DEF Bridge
<1>3. CASE br' = [br EXCEPT ![s] = NoBridge]
  <2>1. br' \in [Slots -> BridgeStates]
    BY <1>3, States DEF OwnInv
  <2>2. \A t \in Slots : br'[t] = br[t] \/ (br'[t].st = "free" /\ ~br'[t].ours)
    BY <1>3 DEF OwnInv, NoBridge
  <2> QED
    BY <1>1, <2>1, <2>2 DEF OwnInv
<1>4. ASSUME NEW st \in {"free", "settle", "calling", "closing"} \cup Looping, NEW left \in 0..MaxLeft,
             br[s].st # "free", br' = [br EXCEPT ![s].st = st, ![s].left = left]
      PROVE  OwnInv'
  <2>1. br[s] \in BridgeStates /\ br'[s] = [br[s] EXCEPT !.st = st, !.left = left]
    BY <1>4 DEF OwnInv
  <2>2. br' \in [Slots -> BridgeStates]
    BY <1>4, <2>1, States DEF OwnInv
  <2>3. \A t \in Slots : br'[t].ours = br[t].ours /\ (t # s => br'[t] = br[t])
    BY <1>4, <2>1 DEF OwnInv, BridgeStates
  <2> QED
    BY <1>1, <1>4, <2>2, <2>3 DEF OwnInv
<1> QED
  BY <1>2, <1>3, <1>4

LEMMA ShellStep == OwnInv /\ Shell => OwnInv'
<1> SUFFICES ASSUME OwnInv, Shell PROVE OwnInv'
  OBVIOUS
<1>1. job' = job
  BY DEF Shell, Clear, Launch, Round, Reap, Rested, At
<1>2. CASE Clear \/ Reap \/ Rested
  BY <1>1, <1>2 DEF Clear, Reap, Rested, At, OwnInv
<1>3. CASE Round
  BY <1>1, <1>3 DEF Round, At, OwnInv
<1>4. ASSUME NEW s \in Slots, Launch(s) PROVE OwnInv'
  <2>1. PICK bound \in BOOLEAN : br' = [br EXCEPT ![s] = Born(bound)]
    BY <1>4 DEF Launch
  <2>2. br' \in [Slots -> BridgeStates]
    BY <2>1, States DEF OwnInv
  <2>3. /\ sh = "launch" /\ sh' = "work" /\ cur' = s
        /\ \A t \in Slots : t # s => br'[t] = br[t]
    BY <1>4, <2>1 DEF Launch, At, OwnInv
  <2>4. job # "down"
    BY <2>3 DEF OwnInv
  <2> QED
    BY <1>1, <2>2, <2>3, <2>4 DEF OwnInv
<1> QED
  BY <1>2, <1>3, <1>4 DEF Shell

\* Neither the bridges' times nor a signal makes one live, or the script's own.
LEMMA UpstartStep == OwnInv /\ Upstart => OwnInv'
<1> SUFFICES ASSUME OwnInv, Upstart PROVE OwnInv'
  OBVIOUS
<1>1. CASE StartJob
  BY <1>1 DEF StartJob, OwnInv
<1>2. CASE StopJob
  <2>1. /\ Termed \in [Slots -> BridgeStates]
        /\ \A s \in Slots : Termed[s].st = br[s].st /\ Termed[s].ours = br[s].ours
    <3>1. ASSUME NEW s \in Slots
          PROVE  /\ Termed[s] \in BridgeStates
                 /\ Termed[s].st = br[s].st /\ Termed[s].ours = br[s].ours
      <4>1. br[s] \in BridgeStates
        BY DEF OwnInv
      <4>2. CASE ~br[s].ours
        BY <4>1, <4>2 DEF Termed
      <4>3. CASE br[s].ours
        <5>1. Termed[s] = [br[s] EXCEPT !.sig = TRUE,
                                        !.left = IF br[s].st \in Looping THEN Grace ELSE @]
          BY <4>3 DEF Termed
        <5>2. Termed[s] \in BridgeStates
          BY <4>1, <5>1, States
        <5> QED
          BY <4>1, <5>1, <5>2 DEF BridgeStates
      <4> QED
        BY <4>2, <4>3
    <3> QED
      BY <3>1 DEF Termed
  <2>2. CASE br' = Termed /\ sh' = sh /\ cur' = cur /\ job' = "stopping"
    BY <2>1, <2>2 DEF OwnInv
  <2>3. CASE /\ br' = [s \in Slots |-> [Termed[s] EXCEPT !.ours = FALSE]]
             /\ sh' = "none"
    <3>1. ASSUME NEW s \in Slots PROVE br'[s] \in BridgeStates /\ ~br'[s].ours
      <4>1. br'[s] = [Termed[s] EXCEPT !.ours = FALSE] /\ Termed[s] \in BridgeStates
        BY <2>1, <2>3
      <4>2. br'[s] \in BridgeStates
        BY <4>1, States
      <4> QED
        BY <4>1, <4>2 DEF BridgeStates
    <3>2. br' \in [Slots -> BridgeStates]
      BY <2>3, <3>1
    <3> QED
      BY <2>3, <3>1, <3>2 DEF OwnInv
  <2> QED
    BY <1>2, <2>2, <2>3 DEF StopJob
<1>3. CASE KillJob
  <2>1. \A s \in Slots :
          br'[s] = IF br[s].ours THEN NoBridge ELSE br[s]
    BY <1>3 DEF KillJob
  <2>2. \A s \in Slots : br'[s] \in BridgeStates /\ ~br'[s].ours
    <3>1. ASSUME NEW s \in Slots PROVE br'[s] \in BridgeStates /\ ~br'[s].ours
      <4>1. br[s] \in BridgeStates
        BY DEF OwnInv
      <4>2. NoBridge \in BridgeStates /\ ~NoBridge.ours
        BY States DEF NoBridge
      <4>3. CASE br[s].ours
        BY <2>1, <4>2, <4>3
      <4>4. CASE ~br[s].ours
        BY <2>1, <4>1, <4>4
      <4> QED
        BY <4>3, <4>4
    <3> QED
      BY <3>1
  <2>3. br' \in [Slots -> BridgeStates]
    BY <1>3, <2>2 DEF KillJob
  <2> QED
    BY <1>3, <2>2, <2>3 DEF KillJob, OwnInv
<1>4. CASE ShellDies
  <2>1. ASSUME NEW s \in Slots PROVE br'[s] \in BridgeStates /\ ~br'[s].ours
    <3>1. br'[s] = [br[s] EXCEPT !.ours = FALSE] /\ br[s] \in BridgeStates
      BY <1>4 DEF ShellDies, Orphaned, OwnInv
    <3>2. br'[s] \in BridgeStates
      BY <3>1, States
    <3> QED
      BY <3>1, <3>2 DEF BridgeStates
  <2>2. br' \in [Slots -> BridgeStates]
    BY <1>4, <2>1 DEF ShellDies, Orphaned
  <2>3. sh' \in {"clear", "none"} /\ (sh' = "clear" => job' # "down")
    BY <1>4 DEF ShellDies
  <2> QED
    BY <2>1, <2>2, <2>3 DEF OwnInv
<1> QED
  BY <1>1, <1>2, <1>3, <1>4 DEF Upstart

LEMMA TickStep == OwnInv /\ Tick => OwnInv'
<1> SUFFICES ASSUME OwnInv, Tick PROVE OwnInv'
  OBVIOUS
<1>1. ASSUME NEW s \in Slots
      PROVE  br'[s] \in BridgeStates /\ br'[s].st = br[s].st /\ br'[s].ours = br[s].ours
  <2>1. br'[s] = [br[s] EXCEPT !.left = Down(@)] /\ br[s] \in BridgeStates
    BY DEF Tick, OwnInv
  <2>2. br'[s] \in BridgeStates
    BY <2>1, States
  <2> QED
    BY <2>1, <2>2 DEF BridgeStates
<1>2. br' \in [Slots -> BridgeStates]
  BY <1>1 DEF Tick
<1> QED
  BY <1>1, <1>2 DEF Tick, OwnInv

LEMMA OwnInvariant == Spec => []OwnInv
<1>1. Init => OwnInv
  <2> SUFFICES ASSUME Init PROVE OwnInv
    OBVIOUS
  <2>1. br \in [Slots -> BridgeStates]
    BY States DEF Init
  <2> QED
    BY <2>1 DEF Init, OwnInv, NoBridge
<1>2. OwnInv /\ [Next]_vars => OwnInv'
  <2> SUFFICES ASSUME OwnInv, [Next]_vars PROVE OwnInv'
    OBVIOUS
  <2>1. CASE Next
    BY <2>1, ShellStep, BridgeStep, UpstartStep, TickStep DEF Next
  <2>2. CASE UNCHANGED vars
    BY <2>2 DEF vars, OwnInv
  <2> QED
    BY <2>1, <2>2
<1> QED
  BY <1>1, <1>2, PTL DEF Spec

\* At most one bridge is in the process group of the script, whatever is
\* stopped, killed or respawned, and however long anything takes.
THEOREM StopReachesAll == Spec => []OneOwnBridge
<1>1. OwnInv => OneOwnBridge
  <2> SUFFICES ASSUME OwnInv PROVE OneOwnBridge
    OBVIOUS
  <2> DEFINE Own == {s \in Live : br[s].ours}
  <2>1. Own \subseteq {cur}
    BY DEF Live, OwnInv
  <2>2. IsFiniteSet({cur}) /\ Cardinality({cur}) = 1
    BY FS_Singleton
  <2>3. Cardinality(Own) \in Nat /\ Cardinality(Own) <= 1
    BY <2>1, <2>2, FS_Subset, FS_CardinalityType
  <2> QED
    BY <2>3 DEF OneOwnBridge
<1> QED
  BY <1>1, OwnInvariant, PTL

-----------------------------------------------------------------------------
\* The variables that OwnInv leaves out.
PlainInv ==
  /\ mortal \in Faults
  /\ job \in {"up", "stopping", "down"}
  /\ killIn \in 0..KillAfter /\ rest \in 0..Rest
  /\ sh \in {"none", "clear", "launch", "work", "sleep", "wait", "rest"}
  /\ (sh = "none") = (job = "down")
  /\ cur \in 0..MaxBridges /\ file \in 0..MaxBridges

LEMMA PlainStep == PlainInv /\ [Next]_vars => PlainInv'
<1> SUFFICES ASSUME PlainInv, [Next]_vars PROVE PlainInv'
  OBVIOUS
<1> USE Times DEF PlainInv, At, Alone, Slots
<1>1. CASE Shell
  BY <1>1 DEF Shell, Clear, Launch, Round, Reap, Rested
<1>2. ASSUME NEW s \in Slots, Bridge(s) PROVE PlainInv'
  BY <1>2 DEF Bridge, Settled, Paced, Publish, Call, TearDown, Gone, Dies
<1>3. CASE Upstart
  BY <1>3 DEF Upstart, StartJob, StopJob, KillJob, KillDue, ShellDies, Fragile, Guarded
<1>4. CASE Tick
  BY <1>4 DEF Tick, Down
<1>5. CASE UNCHANGED vars
  BY <1>5 DEF vars
<1> QED
  BY <1>1, <1>2, <1>3, <1>4, <1>5 DEF Next

\* Every variable of the job keeps its type.
THEOREM TypeCorrect == Spec => []TypeOK
<1>1. Init => PlainInv
  BY Times DEF Init, PlainInv
<1>2. PlainInv /\ OwnInv => TypeOK
  BY DEF PlainInv, OwnInv, TypeOK, BridgeStates, MaxLeft
<1> QED
  BY <1>1, <1>2, PlainStep, OwnInvariant, PTL DEF Spec

-----------------------------------------------------------------------------
\* Who is in the loop, as long as the script does not die alone.  An orphan has
\* its SIGTERM; if it is in its loop, it leaves that before a bridge that is
\* younger has settled, and one that has settled later finds none there.
LoopInv ==
  /\ \A s \in Slots : br[s].st # "free" /\ ~br[s].ours => br[s].sig
  /\ \A s \in Slots : br[s].st = "settle" => br[s].left <= Settle
  /\ \A s \in Slots : br[s].st \in Looping /\ br[s].sig => br[s].left <= Grace
  /\ \A s, t \in Slots : s # t /\ br[s].st \in Looping =>
       /\ br[t].st \notin Looping
       /\ br[t].st = "settle" => br[t].sig \/ (br[s].sig /\ br[s].left < br[t].left)

\* The bridge of a running job has no SIGTERM, and it publishes with nobody left
\* but bridges that are held up by gdbus or closing: a predecessor that is still
\* settling tears itself down, and unlinks the file, when its 2 s are over, not
\* later than those of this one, and so before this one registers.
FileInv ==
  job = "up" => \A s \in Slots : br[s].ours =>
    /\ ~br[s].sig
    /\ \A t \in Slots : t # s /\ br[t].st = "settle" =>
         /\ br[s].st \notin {"ready", "published"}
         /\ br[s].st = "settle" => br[t].left <= br[s].left
         /\ br[s].st = "pace" => br[t].left = 0 /\ 0 < br[s].left

\* What the steps of a bridge have in common: the others stay as they are.
LEMMA OneMoves ==
  ASSUME OwnInv, NEW s \in Slots,
         NEW st \in {"free", "settle", "calling", "closing"} \cup Looping, NEW left \in 0..MaxLeft,
         br' = [br EXCEPT ![s].st = st, ![s].left = left]
  PROVE  /\ \A t \in Slots : t # s => br'[t] = br[t]
         /\ br'[s].st = st /\ br'[s].left = left
         /\ br'[s].sig = br[s].sig /\ br'[s].ours = br[s].ours
BY DEF OwnInv, BridgeStates

LEMMA Lefts ==
  OwnInv => \A s \in Slots : br[s].left \in Nat /\ br[s].sig \in BOOLEAN /\ br[s].ours \in BOOLEAN
BY Times DEF OwnInv, BridgeStates

\* Two bridges of the script's group are one.
LEMMA OneInGroup ==
  ASSUME OwnInv, NEW s \in Slots, NEW t \in Slots,
         br[s].ours, br[s].st # "free", br[t].ours, br[t].st # "free"
  PROVE  s = t
BY DEF OwnInv

LEMMA SettledKeeps ==
  ASSUME OwnInv, LoopInv, FileInv, NEW s \in Slots, Settled(s)
  PROVE  LoopInv' /\ FileInv'
<1>1. /\ br[s].st = "settle" /\ br[s].left = 0 /\ ~br[s].sig /\ br[s].ours
      /\ UNCHANGED <<job, file>>
  BY DEF Settled, Alone, LoopInv
<1>2. Pace \in 0..MaxLeft /\ "pace" \in Looping /\ 0 < Pace /\ Pace \in Nat
  BY Times, TimingAssumption DEF Looping
<1>3. /\ \A t \in Slots : t # s => br'[t] = br[t]
      /\ br'[s].st = "pace" /\ br'[s].left = Pace
      /\ br'[s].sig = br[s].sig /\ br'[s].ours = br[s].ours
  BY <1>2, OneMoves DEF Settled, Becomes
<1>4. \A t \in Slots : t # s => br[t].st \notin Looping
  BY <1>1, Lefts DEF LoopInv
<1>5. \A t \in Slots : t # s /\ br[t].st = "settle" => br[t].sig
  BY <1>1, OneInGroup DEF LoopInv
<1>6. LoopInv'
  BY <1>1, <1>2, <1>3, <1>4, <1>5 DEF LoopInv, Looping
<1>7. job = "up" => \A t \in Slots : t # s /\ br[t].st = "settle" => br[t].left = 0
  BY <1>1, Lefts DEF FileInv
<1>8. \A t \in Slots : t # s /\ br[t].ours => br[t].st = "free"
  BY <1>1, OneInGroup
<1>9. FileInv'
  BY <1>1, <1>2, <1>3, <1>7, <1>8 DEF FileInv
<1> QED
  BY <1>6, <1>9

LEMMA PacedKeeps ==
  ASSUME OwnInv, LoopInv, FileInv, NEW s \in Slots, Paced(s)
  PROVE  LoopInv' /\ FileInv'
<1>1. /\ br[s].st = "pace" /\ br[s].left = 0 /\ ~br[s].sig /\ br[s].ours
      /\ UNCHANGED <<job, file>>
  BY DEF Paced, Alone, LoopInv
<1>2. /\ \A t \in Slots : t # s => br'[t] = br[t]
      /\ br'[s].st = "ready" /\ br'[s].left = 0
      /\ br'[s].sig = br[s].sig /\ br'[s].ours = br[s].ours
  <2>1. 0 \in 0..MaxLeft /\ "ready" \in {"free", "settle", "calling", "closing"} \cup Looping
    BY Times DEF Looping
  <2>2. br' = [br EXCEPT ![s].st = "ready", ![s].left = 0]
    BY DEF Paced, Becomes
  <2> QED
    BY <2>1, <2>2, OneMoves
<1>3. LoopInv'
  <2>1. "pace" \in Looping /\ "ready" \in Looping /\ ~br'[s].sig
    BY <1>1, <1>2 DEF Looping
  <2>2. \A t \in Slots \ {s} : /\ br[t].st \notin Looping
                              /\ br[t].st = "settle" => br[t].sig
    BY <1>1, <2>1 DEF LoopInv
  <2> QED
    BY <1>1, <1>2, <2>1, <2>2 DEF LoopInv
<1>4. job = "up" => \A t \in Slots : t # s => br[t].st # "settle"
  BY <1>1 DEF FileInv
<1>5. \A t \in Slots : t # s /\ br[t].ours => br[t].st = "free"
  BY <1>1, OneInGroup
<1>6. FileInv'
  BY <1>1, <1>2, <1>4, <1>5 DEF FileInv
<1> QED
  BY <1>3, <1>6

LEMMA PublishKeeps ==
  ASSUME OwnInv, LoopInv, FileInv, NEW s \in Slots, Publish(s)
  PROVE  LoopInv' /\ FileInv'
<1>1. br[s].st = "ready" /\ job' = job
  BY DEF Publish, Alone
<1>2. /\ \A t \in Slots : t # s => br'[t] = br[t]
      /\ br'[s].st = "published" /\ br'[s].left = br[s].left
      /\ br'[s].sig = br[s].sig /\ br'[s].ours = br[s].ours
  <2>1. br[s].left \in 0..MaxLeft
    BY DEF OwnInv, BridgeStates
  <2> QED
    BY <2>1, OneMoves DEF Publish, Becomes, Looping
<1>3. LoopInv'
  BY <1>1, <1>2 DEF LoopInv, Looping
<1>4. FileInv'
  BY <1>1, <1>2 DEF FileInv
<1> QED
  BY <1>3, <1>4

LEMMA CallKeeps ==
  ASSUME OwnInv, LoopInv, FileInv, NEW s \in Slots, Call(s)
  PROVE  LoopInv' /\ FileInv'
<1>1. br[s].st = "published" /\ br[s].sig /\ job' = job
  BY DEF Call, Alone
<1>2. /\ \A t \in Slots : t # s => br'[t] = br[t]
      /\ br'[s].st = "calling"
      /\ br'[s].sig = br[s].sig /\ br'[s].ours = br[s].ours
  <2>1. 0 \in 0..MaxLeft
    BY Times
  <2> QED
    BY <2>1, OneMoves DEF Call, Becomes
<1>3. LoopInv'
  BY <1>1, <1>2 DEF LoopInv, Looping
<1>4. FileInv'
  BY <1>1, <1>2 DEF FileInv
<1> QED
  BY <1>3, <1>4

LEMMA TearDownKeeps ==
  ASSUME OwnInv, LoopInv, FileInv, NEW s \in Slots, TearDown(s)
  PROVE  LoopInv' /\ FileInv'
<1>1. br[s].st \in Looping \cup {"settle", "calling"} /\ job' = job
  BY DEF TearDown, Alone
<1>2. /\ \A t \in Slots : t # s => br'[t] = br[t]
      /\ br'[s].st = "closing" /\ br'[s].left = Closing
      /\ br'[s].sig = br[s].sig /\ br'[s].ours = br[s].ours
  BY Times, OneMoves DEF TearDown, Becomes
<1>3. LoopInv'
  BY <1>1, <1>2 DEF LoopInv, Looping
<1>4. FileInv'
  BY <1>1, <1>2 DEF FileInv
<1> QED
  BY <1>3, <1>4

LEMMA EndKeeps ==
  ASSUME OwnInv, LoopInv, FileInv, NEW s \in Slots, Gone(s) \/ Dies(s)
  PROVE  LoopInv' /\ FileInv'
<1>1. UNCHANGED <<job, file>>
  BY DEF Gone, Dies, Alone
<1>2. /\ \A t \in Slots : t # s => br'[t] = br[t]
      /\ br'[s].st = "free" /\ ~br'[s].ours
  BY DEF Gone, Dies, OwnInv, NoBridge
<1> QED
  BY <1>1, <1>2 DEF LoopInv, FileInv, Looping

LEMMA ScriptKeeps ==
  ASSUME OwnInv, LoopInv, FileInv, Shell
  PROVE  LoopInv' /\ FileInv'
<1>1. CASE Clear
  <2>1. br' = br /\ job' = job
    BY <1>1 DEF Clear, At
  <2> QED
    BY <2>1 DEF LoopInv, FileInv
<1>2. CASE Round \/ Reap \/ Rested
  <2>1. UNCHANGED <<br, job, file>>
    BY <1>2 DEF Round, Reap, Rested, At
  <2> QED
    BY <2>1 DEF LoopInv, FileInv
<1>3. ASSUME NEW s \in Slots, Launch(s) PROVE LoopInv' /\ FileInv'
  <2>1. /\ \A t \in Slots : t # s => br'[t] = br[t]
        /\ br'[s].st = "settle" /\ br'[s].left = Settle /\ ~br'[s].sig /\ br'[s].ours
    BY <1>3 DEF Launch, Born, OwnInv
  <2>2. \A t \in Slots : br[t].st # "free" => ~br[t].ours /\ br[t].sig
    BY <1>3 DEF Launch, At, OwnInv, LoopInv
  <2>3. \A t \in Slots : br[t].st \in Looping => br[t].sig /\ br[t].left < Settle
    BY <2>2, Lefts, Times, TimingAssumption DEF LoopInv, Looping
  <2>4. LoopInv'
    BY <2>1, <2>2, <2>3, Times DEF LoopInv, Looping
  <2>5. job' = job /\ file' = file
    BY <1>3 DEF Launch, At
  <2>6. \A t \in Slots : t # s /\ br'[t].ours => br[t].st = "free"
    BY <2>1, <2>2
  <2>7. \A t \in Slots : t # s /\ br[t].st = "settle" => br'[t].left <= br'[s].left
    BY <2>1 DEF LoopInv
  <2> QED
    BY <2>1, <2>4, <2>5, <2>6, <2>7 DEF FileInv
<1> QED
  BY <1>1, <1>2, <1>3 DEF Shell

\* What SIGTERM in the group does: nothing to others, no bridge starts or ends.
LEMMA TermFacts ==
  ASSUME OwnInv, NEW s \in Slots
  PROVE  /\ Termed[s].st = br[s].st /\ Termed[s].ours = br[s].ours
         /\ ~br[s].ours => Termed[s] = br[s]
         /\ br[s].ours => /\ Termed[s].sig
                          /\ Termed[s].left = IF br[s].st \in Looping THEN Grace
                                                                     ELSE br[s].left
BY DEF OwnInv, BridgeStates, Termed

LEMMA TermKeeps ==
  ASSUME OwnInv, LoopInv,
         NEW b \in [Slots -> BridgeStates],
         \A s \in Slots : /\ b[s].st = Termed[s].st /\ b[s].left = Termed[s].left
                          /\ b[s].sig = Termed[s].sig
                          /\ b[s].ours => Termed[s].ours,
         br' = b
  PROVE  LoopInv'
<1>1. \A s \in Slots :
        /\ br'[s].st = br[s].st
        /\ br[s].ours => br'[s].sig
        /\ ~br[s].ours => br'[s].sig = br[s].sig /\ br'[s].left = br[s].left
        /\ br[s].st \notin Looping => br'[s].left = br[s].left
        /\ br[s].ours /\ br[s].st \in Looping => br'[s].left = Grace
  BY TermFacts
<1>2. \A s \in Slots : br[s].st # "free" => br'[s].sig
  BY <1>1 DEF LoopInv
<1>3. \A s \in Slots : br'[s].st \in Looping /\ br'[s].sig => br'[s].left <= Grace
  <2> SUFFICES ASSUME NEW s \in Slots, br'[s].st \in Looping, br'[s].sig
               PROVE  br'[s].left <= Grace
    OBVIOUS
  <2> QED
    BY <1>1, Times DEF LoopInv, Looping
<1> QED
  BY <1>1, <1>2, <1>3 DEF LoopInv, Looping

LEMMA UpstartKeeps ==
  ASSUME OwnInv, OwnInv', LoopInv, FileInv, Upstart, ~ShellDies
  PROVE  LoopInv' /\ FileInv'
<1>1. CASE StartJob
  <2>1. br' = br /\ job = "down"
    BY <1>1 DEF StartJob
  <2> QED
    BY <2>1 DEF LoopInv, FileInv, OwnInv
<1>2. CASE StopJob
  <2>1. job' # "up"
    BY <1>2 DEF StopJob
  <2>2. \A s \in Slots : /\ br'[s].st = Termed[s].st /\ br'[s].left = Termed[s].left
                         /\ br'[s].sig = Termed[s].sig
                         /\ br'[s].ours => Termed[s].ours
    <3>1. CASE br' = Termed
      BY <3>1
    <3>2. CASE br' = [s \in Slots |-> [Termed[s] EXCEPT !.ours = FALSE]]
      <4>1. ASSUME NEW s \in Slots PROVE Termed[s] \in BridgeStates
        <5>1. br[s] \in BridgeStates
          BY DEF OwnInv
        <5> QED
          BY <5>1, States DEF Termed
      <4> QED
        BY <3>2, <4>1 DEF BridgeStates
    <3> QED
      BY <1>2, <3>1, <3>2 DEF StopJob
  <2>3. br' \in [Slots -> BridgeStates]
    BY DEF OwnInv
  <2>4. LoopInv'
    BY <2>2, <2>3, TermKeeps
  <2> QED
    BY <2>1, <2>4 DEF FileInv
<1>3. CASE KillJob
  <2>1. job' # "up" /\ \A s \in Slots : br'[s] = br[s] \/ br'[s].st = "free"
    BY <1>3 DEF KillJob, NoBridge
  <2> QED
    BY <2>1 DEF LoopInv, FileInv, Looping
<1> QED
  BY <1>1, <1>2, <1>3 DEF Upstart

\* Bridges settle in step, and time stands still until one that has to go goes.
LEMMA TickKeeps ==
  ASSUME OwnInv, LoopInv, FileInv, Tick
  PROVE  LoopInv' /\ FileInv'
<1>1. \A s \in Slots :
        /\ br'[s].st = br[s].st /\ br'[s].sig = br[s].sig /\ br'[s].ours = br[s].ours
        /\ br'[s].left = IF br[s].left > 0 THEN br[s].left - 1 ELSE 0
        /\ br[s].sig /\ br[s].st \in Looping \cup {"settle"} => br[s].left > 0
  <2> SUFFICES ASSUME NEW s \in Slots
               PROVE  /\ br'[s].st = br[s].st /\ br'[s].sig = br[s].sig
                      /\ br'[s].ours = br[s].ours
                      /\ br'[s].left = IF br[s].left > 0 THEN br[s].left - 1 ELSE 0
                      /\ br[s].sig /\ br[s].st \in Looping \cup {"settle"} => br[s].left > 0
    OBVIOUS
  <2>1. br[s] \in BridgeStates /\ br'[s] = [br[s] EXCEPT !.left = Down(@)]
    BY DEF Tick, OwnInv
  <2>2. ~AtLimit(br[s])
    BY DEF Tick
  <2> QED
    BY <2>1, <2>2, Lefts DEF BridgeStates, AtLimit, Down
<1>2. UNCHANGED <<job, file>>
  BY DEF Tick
<1>3. LoopInv'
  BY <1>1, Lefts, Times DEF LoopInv, Looping
<1>4. \A s, t \in Slots : br[s].ours /\ t # s /\ br[t].st = "settle" => br[t].sig \/ br[s].st = "free"
  BY OneInGroup DEF LoopInv
<1>5. FileInv'
  <2> SUFFICES ASSUME job = "up", NEW s \in Slots, br[s].ours
               PROVE  /\ ~br'[s].sig
                      /\ \A t \in Slots : t # s /\ br'[t].st = "settle" =>
                           /\ br'[s].st \notin {"ready", "published"}
                           /\ br'[s].st = "settle" => br'[t].left <= br'[s].left
                           /\ br'[s].st = "pace" => br'[t].left = 0 /\ 0 < br'[s].left
    BY <1>1, <1>2 DEF FileInv
  <2>1. ~br'[s].sig
    BY <1>1 DEF FileInv
  <2>2. ASSUME NEW t \in Slots, t # s, br'[t].st = "settle"
        PROVE  /\ br'[s].st \notin {"ready", "published"}
               /\ br'[s].st = "settle" => br'[t].left <= br'[s].left
               /\ br'[s].st = "pace" => br'[t].left = 0 /\ 0 < br'[s].left
    <3>1. /\ br[s].st \notin {"ready", "published"}
          /\ br[s].st = "settle" => br[t].left <= br[s].left
          /\ br[s].st = "pace" => br[t].left = 0
      BY <1>1, <2>2 DEF FileInv
    <3>2. br[s].st \in {"settle", "pace"} => br[t].left > 0
      BY <1>1, <1>4, <2>2
    <3> QED
      BY <1>1, <3>1, <3>2, Lefts
  <2> QED
    BY <2>1, <2>2
<1> QED
  BY <1>3, <1>5

LEMMA LoopInvariant == Spec => [](OwnInv /\ (ScriptLasts => LoopInv /\ FileInv))
<1>1. Init => LoopInv /\ FileInv
  BY DEF Init, LoopInv, FileInv, NoBridge, Looping
<1>2. OwnInv /\ OwnInv' /\ (ScriptLasts => LoopInv /\ FileInv) /\ [Next]_vars
        => (ScriptLasts => LoopInv /\ FileInv)'
  <2> SUFFICES ASSUME OwnInv, OwnInv', ScriptLasts => LoopInv /\ FileInv, [Next]_vars,
                      ScriptLasts'
               PROVE  LoopInv' /\ FileInv'
    OBVIOUS
  <2>1. mortal' = mortal
    BY DEF Next, vars, Shell, Clear, Launch, Round, Reap, Rested, At, Bridge, Settled,
           Paced, Publish, Call, TearDown, Gone, Dies, Alone, Upstart, StartJob, StopJob,
           KillJob, ShellDies, Tick
  <2>2. LoopInv /\ FileInv /\ "shell" \notin mortal
    BY <2>1 DEF ScriptLasts
  <2>3. CASE Shell
    BY <2>2, <2>3, ScriptKeeps
  <2>4. ASSUME NEW s \in Slots, Bridge(s) PROVE LoopInv' /\ FileInv'
    BY <2>2, <2>4, SettledKeeps, PacedKeeps, PublishKeeps, CallKeeps, TearDownKeeps, EndKeeps
       DEF Bridge
  <2>5. CASE Upstart
    BY <2>2, <2>5, UpstartKeeps DEF ShellDies
  <2>6. CASE Tick
    BY <2>2, <2>6, TickKeeps
  <2>7. CASE UNCHANGED vars
    BY <2>2, <2>7 DEF vars, LoopInv, FileInv
  <2> QED
    BY <2>3, <2>4, <2>5, <2>6, <2>7 DEF Next
<1> QED
  BY <1>1, <1>2, OwnInvariant, PTL DEF Spec

\* However often the job is stopped, killed and started again, and whichever
\* bridges die, at no time do two of them feed the keyboard to UHID.
THEOREM OneForwards == Spec => []OneForwarder
<1>1. OwnInv /\ (ScriptLasts => LoopInv /\ FileInv) => OneForwarder
  <2> SUFFICES ASSUME LoopInv PROVE Cardinality(Forwarding) <= 1
    BY DEF OneForwarder
  <2>1. CASE Forwarding = {}
    BY <2>1, FS_EmptySet
  <2>2. ASSUME NEW s \in Forwarding PROVE Cardinality(Forwarding) <= 1
    <3>1. Forwarding = {s}
      BY DEF Forwarding, LoopInv, Looping
    <3>2. Cardinality({s}) = 1
      BY FS_Singleton
    <3> QED
      BY <3>1, <3>2
  <2> QED
    BY <2>1, <2>2
<1> QED
  BY <1>1, LoopInvariant, PTL

\* A bridge that unlinks the file beside one of the running job that has
\* published comes from a gdbus call: it is not in the loop (only one is), and
\* those that were settling are gone.
LEMMA OneTakesFile ==
  ASSUME OwnInv, LoopInv, FileInv, ScriptLasts, job = "up", [Next]_vars,
         NEW s \in Forwarding, br[s].ours, file = s, file' # s
  PROVE  \/ br'[s].st # "published" \/ job' # "up"
         \/ \E t \in Slots : br[t].st = "calling" /\ br'[t].st = "closing"
<1>1. s \in Slots /\ br[s].st = "published" /\ sh \in {"work", "sleep"}
  BY DEF Forwarding, OwnInv
<1>2. CASE Shell
  BY <1>1, <1>2 DEF Shell, Clear, Launch, Round, Reap, Rested, At
<1>3. ASSUME NEW t \in Slots, Bridge(t)
      PROVE  \/ br'[s].st # "published"
             \/ \E u \in Slots : br[u].st = "calling" /\ br'[u].st = "closing"
  <2>1. CASE Settled(t) \/ Paced(t) \/ Call(t) \/ Gone(t) \/ Dies(t)
    BY <2>1 DEF Settled, Paced, Call, Gone, Dies
  <2>2. CASE Publish(t)
    <3>1. br[t].st = "ready" /\ t # s
      BY <1>1, <2>2 DEF Publish
    <3> QED
      BY <1>1, <3>1 DEF LoopInv, Looping
  <2>3. CASE TearDown(t)
    <3>1. br'[t].st = "closing" /\ (t # s => br[t].st \in Looping \cup {"settle", "calling"})
      BY <2>3, Times, OneMoves DEF TearDown, Becomes
    <3>2. CASE t = s
      BY <3>1, <3>2
    <3>3. CASE t # s
      <4>1. br[t].st \notin Looping \cup {"settle"}
        BY <1>1, <3>3 DEF LoopInv, FileInv, Looping
      <4> QED
        BY <3>1, <3>3, <4>1
    <3> QED
      BY <3>2, <3>3
  <2> QED
    BY <1>3, <2>1, <2>2, <2>3 DEF Bridge
<1>4. CASE Upstart
  BY <1>4 DEF Upstart, StartJob, StopJob, KillJob, KillDue, ShellDies, ScriptLasts
<1>5. CASE Tick \/ UNCHANGED vars
  BY <1>5 DEF Tick, vars
<1> QED
  BY <1>2, <1>3, <1>4, <1>5 DEF Next

\* The bridge of the running job that has published stays the one the file
\* names, though its predecessors unlink the file late and the trap does too,
\* until it goes itself, the job is stopped, or a predecessor comes back from a
\* gdbus call that it made after its SIGTERM.
THEOREM FileIsKept == Spec => OnlyACallTakesFile
<1>1. OwnInv /\ (ScriptLasts => LoopInv /\ FileInv) /\ [Next]_vars
        => [ScriptLasts /\ job = "up" =>
              \A s \in Forwarding : br[s].ours /\ file = s /\ file' # s =>
                \/ br'[s].st # "published" \/ job' # "up"
                \/ \E t \in Slots : br[t].st = "calling" /\ br'[t].st = "closing"]_vars
  BY OneTakesFile
<1> QED
  BY <1>1, LoopInvariant, PTL DEF Spec, OnlyACallTakesFile
=============================================================================
