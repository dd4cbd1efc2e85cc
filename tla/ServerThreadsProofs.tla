------------------------- MODULE ServerThreadsProofs -------------------------
(***************************************************************************)
(* The pipeline lock of the C engine, the types, what a poll may read and  *)
(* the slots of the index jobs, for any number of threads, job slots,      *)
(* state objects, edits and requests.                                      *)
(*                                                                         *)
(* OneRunner is not inductive: that no second thread starts a run rests on *)
(* the flag being set for as long as somebody runs.  HeldWhileRunning adds *)
(* just that, and is given up, as OneRunner is, when a shutdown begins:    *)
(* request_shutdown clears the flag whoever holds it.  SnapshotInv does    *)
(* the same for SnapshotFreedOnlyByWatch, further down.                    *)
(***************************************************************************)
EXTENDS ServerThreads, TLAPS

Running(t) == pc[t] = "run"

\* Before a shutdown a thread that runs a pipeline has the flag set.
HeldWhileRunning == ~shutdown => \A t \in Locals : Running(t) => lock

\* Each local thread has a control state.
PcTotal == pc = [t \in Locals |-> pc[t]]

Exclusion == PcTotal /\ HeldWhileRunning /\ OneRunner

----------------------------------------------------------------------------
(* What a step does to the threads that run.                               *)

\* A step that leaves the flag as it is and makes nobody run.
QuietStep ==
    /\ PcTotal'
    /\ lock' = lock
    /\ shutdown => shutdown'
    /\ \A t \in Locals : Running(t)' => Running(t)

\* A thread takes the flag that nobody had (cbm_pipeline_try_lock).
TakingStep ==
    /\ PcTotal'
    /\ ~lock /\ lock'
    /\ shutdown' = shutdown
    /\ \E u \in Locals : \A t \in Locals : Running(t)' => Running(t) \/ t = u

\* The thread that ran gives the flag back (cbm_pipeline_unlock).
ReleasingStep ==
    /\ PcTotal'
    /\ shutdown' = shutdown
    /\ \E u \in Locals : /\ Running(u) /\ ~Running(u)'
                         /\ \A t \in Locals : Running(t)' => Running(t)

\* A shutdown has begun.
ShutdownStep == PcTotal' /\ shutdown'

\* Nobody runs any more: the process is gone.
EndingStep == PcTotal' /\ \A t \in Locals : ~Running(t)'

\* Each kind of step keeps the exclusion: the argument for the lock, whatever
\* else the threads do.
LEMMA KindsKeepExclusion ==
    ASSUME Exclusion,
           QuietStep \/ TakingStep \/ ReleasingStep \/ ShutdownStep \/ EndingStep
    PROVE  Exclusion'
<1>1. CASE QuietStep
  BY <1>1 DEF Exclusion, QuietStep, HeldWhileRunning, OneRunner, Running
<1>2. CASE TakingStep
  <2>1. PICK u \in Locals : \A t \in Locals : Running(t)' => Running(t) \/ t = u
    BY <1>2 DEF TakingStep
  <2>2. ~shutdown' => \A t \in Locals : ~Running(t)
    BY <1>2 DEF Exclusion, TakingStep, HeldWhileRunning
  <2>3. ~shutdown' => \A t \in Locals : Running(t)' => t = u
    BY <2>1, <2>2
  <2>. QED
    BY <1>2, <2>3 DEF Exclusion, TakingStep, HeldWhileRunning, OneRunner, Running
<1>3. CASE ReleasingStep
  <2>1. PICK u \in Locals : /\ Running(u) /\ ~Running(u)'
                            /\ \A t \in Locals : Running(t)' => Running(t)
    BY <1>3 DEF ReleasingStep
  <2>2. ~shutdown' => \A t \in Locals : ~Running(t)'
    BY <1>3, <2>1 DEF Exclusion, ReleasingStep, OneRunner, Running
  <2>. QED
    BY <1>3, <2>2 DEF Exclusion, ReleasingStep, HeldWhileRunning, OneRunner, Running
<1>4. CASE ShutdownStep
  BY <1>4 DEF Exclusion, ShutdownStep, HeldWhileRunning, OneRunner
<1>5. CASE EndingStep
  BY <1>5 DEF Exclusion, EndingStep, HeldWhileRunning, OneRunner, Running
<1>. QED
  BY <1>1, <1>2, <1>3, <1>4, <1>5

\* A thread that goes to another control state is the only one that changes its.
LEMMA GotoOne ==
    ASSUME PcTotal, NEW t \in Locals, NEW label, Goto(t, label)
    PROVE  /\ PcTotal'
           /\ pc'[t] = label
           /\ \A u \in Locals : u # t => pc'[u] = pc[u]
BY DEF PcTotal, Goto

----------------------------------------------------------------------------
(* The steps of the threads, each of its kind.                              *)

\* The steps in which one thread goes somewhere else than into a run.
LEMMA GoingElsewhere ==
    ASSUME PcTotal, NEW t \in Locals, NEW label, label # "run",
           Goto(t, label), lock' = lock, shutdown => shutdown'
    PROVE  QuietStep
BY GotoOne DEF QuietStep, Running

\* Taking the lock, in whichever thread.
LEMMA Taking ==
    ASSUME PcTotal, NEW t \in Locals, LockAndRead(t), UNCHANGED shutdown
    PROVE  TakingStep
<1>1. /\ PcTotal' /\ \A u \in Locals : u # t => pc'[u] = pc[u]
  BY GotoOne DEF LockAndRead
<1>. QED
  BY <1>1 DEF TakingStep, LockAndRead, Running

\* Giving it back.
LEMMA Releasing ==
    ASSUME PcTotal, NEW t \in Locals, NEW label, label # "run",
           FinishRun(t), Goto(t, label), UNCHANGED shutdown
    PROVE  ReleasingStep
<1>1. /\ PcTotal' /\ pc'[t] = label
      /\ \A u \in Locals : u # t => pc'[u] = pc[u]
  BY GotoOne
<1>. QED
  BY <1>1 DEF ReleasingStep, FinishRun, Running

\* The end of the process.
LEMMA Ending ==
    ASSUME ProcessEnds
    PROVE  EndingStep
BY DEF ProcessEnds, EndingStep, PcTotal, Running

\* A step that moves no thread.
LEMMA Staying ==
    ASSUME PcTotal, UNCHANGED <<pc, lock, shutdown>>
    PROVE  QuietStep
BY DEF PcTotal, QuietStep, Running

LEMMA LocalsMembers == /\ "main" \in Locals /\ "watcher" \in Locals
                       /\ "http" \in Locals /\ AutoThreads \subseteq Locals
BY DEF Locals

AnyKind == QuietStep \/ TakingStep \/ ReleasingStep \/ ShutdownStep \/ EndingStep

LEMMA MainKinds == ASSUME PcTotal, MainStep PROVE AnyKind
<1>. USE LocalsMembers
<1>1. CASE IndexLock("main")
  BY <1>1, Taking DEF IndexLock, AnyKind, stopVars
<1>2. CASE DeleteUnlink("main")
  BY <1>2, GoingElsewhere DEF DeleteUnlink, AnyKind, stopVars
<1>3. CASE IndexDone("main")
  BY <1>3, Releasing DEF IndexDone, AnyKind, stopVars
<1>4. CASE DeleteUnwatch
  BY <1>4, GoingElsewhere DEF DeleteUnwatch, AnyKind, stopVars
<1>5. CASE LeaveLoop
  BY <1>5, GotoOne DEF LeaveLoop, AnyKind, ShutdownStep
<1>6. CASE JoinHttp
  BY <1>6, GoingElsewhere DEF JoinHttp, AnyKind
<1>7. CASE JoinWatcher
  BY <1>7, GoingElsewhere DEF JoinWatcher, AnyKind, stopVars
<1>8. CASE JoinAuto
  BY <1>8, Ending DEF JoinAuto, AnyKind
<1>. QED
  BY <1>1, <1>2, <1>3, <1>4, <1>5, <1>6, <1>7, <1>8 DEF MainStep, TakesLock

LEMMA WatcherKinds == ASSUME PcTotal, WatcherStep PROVE AnyKind
<1>. USE LocalsMembers
<1>1. CASE WatcherStops
  BY <1>1, GoingElsewhere DEF WatcherStops, AnyKind, stopVars
<1>2. CASE PollOnce
  <2>1. CASE watched = {}
    BY <1>2, <2>1, Staying DEF PollOnce, AnyKind, stopVars
  <2>2. CASE watched # {}
    BY <1>2, <2>2, GoingElsewhere DEF PollOnce, AnyKind, stopVars, Goto
  <2>. QED
    BY <2>1, <2>2
<1>3. CASE InitBaseline
  BY <1>3, GoingElsewhere DEF InitBaseline, AnyKind, stopVars
<1>4. CASE CheckChanges
  <2>1. PICK label : label # "run" /\ Goto("watcher", label)
    <3>1. \E c \in BOOLEAN : Goto("watcher", IF c THEN "index" ELSE "idle")
      BY <1>4 DEF CheckChanges
    <3>. QED
      BY <3>1
  <2>. QED
    BY <1>4, <2>1, GoingElsewhere DEF CheckChanges, AnyKind, stopVars
<1>5. CASE WatcherSkips
  BY <1>5, GoingElsewhere DEF WatcherSkips, AnyKind, stopVars
<1>6. CASE WatcherRuns
  BY <1>6, Taking DEF WatcherRuns, AnyKind, stopVars
<1>7. CASE WatcherRunDone
  <2>1. PICK label : label # "run" /\ Goto("watcher", label)
    BY <1>7 DEF WatcherRunDone
  <2>. QED
    BY <1>7, <2>1, Releasing DEF WatcherRunDone, AnyKind, stopVars
<1>8. CASE PollAfter
  BY <1>8, GoingElsewhere DEF PollAfter, AnyKind, stopVars
<1>9. CASE PollFreed
  <2>1. CASE ProcessEnds
    BY <2>1, Ending DEF AnyKind
  <2>2. CASE ~ProcessEnds
    <3>1. PICK label \in {"idle", "index"} : Goto("watcher", label)
      BY <1>9, <2>2 DEF PollFreed
    <3>. QED
      BY <1>9, <2>2, <3>1, GoingElsewhere DEF PollFreed, AnyKind, stopVars
  <2>. QED
    BY <2>1, <2>2
<1>. QED
  BY <1>1, <1>2, <1>3, <1>4, <1>5, <1>6, <1>7, <1>8, <1>9 DEF WatcherStep

LEMMA HttpKinds == ASSUME PcTotal, HttpStep PROVE AnyKind
<1>. USE LocalsMembers
<1>1. CASE HttpStops
  BY <1>1, GoingElsewhere DEF HttpStops, AnyKind, stopVars
<1>2. CASE IndexLock("http")
  BY <1>2, Taking DEF IndexLock, AnyKind, stopVars
<1>3. CASE DeleteUnlink("http")
  BY <1>3, GoingElsewhere DEF DeleteUnlink, AnyKind, stopVars
<1>4. CASE IndexDone("http")
  BY <1>4, Releasing DEF IndexDone, AnyKind, stopVars
<1>. QED
  BY <1>1, <1>2, <1>3, <1>4 DEF HttpStep, TakesLock

LEMMA AutoKinds == ASSUME PcTotal, NEW a \in AutoThreads, AutoStep(a) PROVE AnyKind
<1>. USE LocalsMembers
<1>1. CASE IndexLock(a)
  BY <1>1, Taking DEF IndexLock, AnyKind, stopVars
<1>2. CASE AutoDone(a)
  <2>1. PICK label : label # "run" /\ Goto(a, label)
    BY <1>2 DEF AutoDone
  <2>. QED
    BY <1>2, <2>1, Releasing DEF AutoDone, AnyKind, stopVars
<1>3. CASE AutoRegister(a)
  BY <1>3, GoingElsewhere DEF AutoRegister, AnyKind, stopVars
<1>4. CASE UseFreedWatcher(a)
  <2>1. CASE ProcessEnds
    BY <2>1, Ending DEF AnyKind
  <2>2. CASE ~ProcessEnds
    <3>1. PICK label \in {"done", "stuck"} : Goto(a, label)
      BY <1>4, <2>2 DEF UseFreedWatcher
    <3>. QED
      BY <1>4, <2>2, <3>1, GoingElsewhere DEF UseFreedWatcher, AnyKind, stopVars
  <2>. QED
    BY <2>1, <2>2
<1>. QED
  BY <1>1, <1>2, <1>3, <1>4 DEF AutoStep

\* A job's child has a process, and a lock, of its own.
LEMMA JobKinds == ASSUME PcTotal, NEW s \in Slots, JobStep(s) PROVE AnyKind
<1>1. UNCHANGED <<pc, lock, shutdown>>
  BY DEF JobStep, ChildEnds, JobReaped, stopVars
<1>. QED
  BY <1>1, Staying DEF AnyKind

LEMMA OutsideKinds == ASSUME PcTotal, Outside PROVE AnyKind
<1>. USE LocalsMembers
<1>1. CASE Initialize
  <2>1. CASE \E a \in AutoThreads : Goto(a, "lock")
    BY <1>1, <2>1, GoingElsewhere DEF Initialize, AnyKind, stopVars
  <2>2. CASE UNCHANGED pc
    BY <1>1, <2>2, Staying DEF Initialize, AnyKind, stopVars
  <2>. QED
    BY <1>1, <2>1, <2>2 DEF Initialize
<1>2. CASE \E label \in {"lock", "delete"} : McpCall(label) \/ RpcCall(label)
  BY <1>2, GoingElsewhere DEF McpCall, RpcCall, Call, AnyKind, stopVars
<1>3. CASE RequestShutdown
  BY <1>3, Staying DEF RequestShutdown, AnyKind, ShutdownStep, PcTotal
<1>4. CASE ParentDied
  BY <1>4, Ending DEF ParentDied, AnyKind
<1>5. CASE Edit \/ Commit \/ EndOfInput \/ HttpDeletes \/ StartJob \/ KillChild
  <2>1. UNCHANGED <<pc, lock, shutdown>>
    BY <1>5 DEF Edit, Commit, EndOfInput, HttpDeletes, StartJob, KillChild, stopVars
  <2>. QED
    BY <2>1, Staying DEF AnyKind
<1>. QED
  BY <1>1, <1>2, <1>3, <1>4, <1>5 DEF Outside

----------------------------------------------------------------------------
\* The exclusion holds at first and every step keeps it.
LEMMA ExclusionInit == Init => Exclusion
<1>. SUFFICES ASSUME Init PROVE Exclusion
  OBVIOUS
<1>1. \A t \in Locals : pc[t] \in {"done", "idle"}
  BY DEF Init
<1>. QED
  BY <1>1 DEF Init, Exclusion, PcTotal, HeldWhileRunning, OneRunner, Running

LEMMA ExclusionStep == Exclusion /\ [Next]_vars => Exclusion'
<1>. SUFFICES ASSUME Exclusion, [Next]_vars PROVE Exclusion'
  OBVIOUS
<1>1. PcTotal
  BY DEF Exclusion
<1>2. CASE UNCHANGED vars
  BY <1>1, <1>2, Staying, KindsKeepExclusion DEF vars, stopVars
<1>3. CASE Next
  BY <1>1, <1>3, MainKinds, WatcherKinds, HttpKinds, AutoKinds, JobKinds, OutsideKinds,
     KindsKeepExclusion DEF Next, AnyKind
<1>. QED
  BY <1>2, <1>3

\* pipeline.h: "Index lock (prevents concurrent pipeline runs on same DB)".
\* Of any number of threads at most one is inside a pipeline run until a
\* shutdown begins, however requests, polls, auto-indexing and the end of the
\* parent interleave.
THEOREM RunsExclude == Spec => []OneRunner
<1>1. Exclusion => OneRunner
  BY DEF Exclusion
<1>. QED
  BY <1>1, ExclusionInit, ExclusionStep, PTL DEF Spec

----------------------------------------------------------------------------
(* Types.                                                                   *)

LEMMA TypeInit == Init => TypeOK
<1>. SUFFICES ASSUME Init PROVE TypeOK
  OBVIOUS
<1>1. 0 \in 0..MaxEdits /\ 0 \in 0..None /\ None \in 0..None
  BY BoundsAssumption DEF None
<1>2. pc \in [Locals -> {"idle", "done"}]
  BY DEF Init
<1>. QED
  BY <1>1, <1>2 DEF Init, TypeOK

\* What the types need of the small steps shared by the actions.
LEMMA TypesOfParts ==
    ASSUME TypeOK
    PROVE  /\ repo.work \in 0..None /\ repo.head \in 0..None /\ None \in 0..None
           /\ \A s \in Runners : snap[s] \in 0..None
           /\ Locals \subseteq Runners /\ Slots \subseteq Runners
BY BoundsAssumption DEF TypeOK, None, Runners

LEMMA ContentsTyped ==
    ASSUME TypeOK, NEW used
    PROVE  Contents(used) \in [StateIds -> [lastHead : 0..None, baseline : BOOLEAN]]
BY TypesOfParts DEF TypeOK, Contents, NewState

LEMMA WatchTypes ==
    ASSUME TypeOK, Watch
    PROVE  /\ watched' \subseteq StateIds /\ alive' \subseteq StateIds
           /\ st' \in [StateIds -> [lastHead : 0..None, baseline : BOOLEAN]]
<1>1. \A used \in SUBSET StateIds :
        Contents(used) \in [StateIds -> [lastHead : 0..None, baseline : BOOLEAN]]
  BY ContentsTyped
<1>2. Places(watched) \subseteq StateIds
  BY DEF TypeOK, Places
<1>3. PICK s \in Places(watched) :
        /\ alive' = (alive \ watched) \cup {s}
        /\ watched' = {s}
        /\ st' = Contents(((alive \ watched) \cup polled) \ {s})
  BY DEF Watch
<1>4. ((alive \ watched) \cup polled) \ {s} \in SUBSET StateIds
  BY DEF TypeOK
<1>. QED
  BY <1>1, <1>2, <1>3, <1>4 DEF TypeOK

LEMMA EndTypes == ASSUME TypeOK, ProcessEnds PROVE TypeOK'
<1>1. pc' \in [Locals -> {"exited"}]
  BY DEF ProcessEnds
<1>2. snap' \in [Runners -> 0..None]
  BY TypesOfParts DEF ProcessEnds
<1>3. st' \in [StateIds -> [lastHead : 0..None, baseline : BOOLEAN]]
  BY TypesOfParts DEF ProcessEnds, NewState
<1>. QED
  BY <1>1, <1>2, <1>3 DEF TypeOK, ProcessEnds, repoVars, stopVars, jobVars

\* A run leaves a version in the database, whether it publishes or fails.
LEMMA FinishTypes ==
    ASSUME TypeOK, NEW t \in Runners,
           Publish(t) \/ Fail \/ UNCHANGED <<db, events>>
    PROVE  db' \in 0..None
<1>1. snap[t] \in 0..None
  BY TypesOfParts
<1>. QED
  BY <1>1 DEF TypeOK, Publish, Fail

LEMMA MainTypes == ASSUME TypeOK, MainStep PROVE TypeOK'
<1>. USE LocalsMembers, TypesOfParts
<1>1. CASE IndexLock("main")
  BY <1>1 DEF TypeOK, IndexLock, LockAndRead, Goto, repoVars, stopVars, watchVars, jobVars
<1>2. CASE DeleteUnlink("main")
  BY <1>2 DEF TypeOK, DeleteUnlink, Goto, stopVars, watchVars, jobVars
<1>3. CASE IndexDone("main")
  <2>1. db' \in 0..None
    BY <1>3, FinishTypes DEF IndexDone
  <2>. QED
    BY <1>3, <2>1 DEF TypeOK, IndexDone, FinishRun, Goto, stopVars, watchVars, jobVars
<1>4. CASE DeleteUnwatch
  BY <1>4 DEF TypeOK, DeleteUnwatch, Unwatch, Goto, stopVars, jobVars
<1>5. CASE LeaveLoop
  BY <1>5 DEF TypeOK, LeaveLoop, Goto, repoVars, watchVars, jobVars
<1>6. CASE JoinHttp
  BY <1>6 DEF TypeOK, JoinHttp, Goto, repoVars, watchVars, jobVars
<1>7. CASE JoinWatcher
  BY <1>7, ContentsTyped DEF TypeOK, JoinWatcher, Goto, repoVars, stopVars, jobVars
<1>8. CASE JoinAuto
  BY <1>8, EndTypes DEF JoinAuto
<1>. QED
  BY <1>1, <1>2, <1>3, <1>4, <1>5, <1>6, <1>7, <1>8 DEF MainStep, TakesLock

LEMMA WatcherTypes == ASSUME TypeOK, WatcherStep PROVE TypeOK'
<1>. USE LocalsMembers, TypesOfParts
<1>1. CASE WatcherStops
  BY <1>1 DEF TypeOK, WatcherStops, Goto, repoVars, stopVars, watchVars, jobVars
<1>2. CASE PollOnce
  BY <1>2, ContentsTyped DEF TypeOK, PollOnce, repoVars, stopVars, jobVars
<1>3. CASE InitBaseline
  BY <1>3 DEF TypeOK, InitBaseline, Goto, repoVars, stopVars, jobVars
<1>4. CASE CheckChanges
  BY <1>4 DEF TypeOK, CheckChanges, Goto, repoVars, stopVars, jobVars
<1>5. CASE WatcherSkips
  BY <1>5 DEF TypeOK, WatcherSkips, Goto, repoVars, stopVars, watchVars, jobVars
<1>6. CASE WatcherRuns
  BY <1>6 DEF TypeOK, WatcherRuns, LockAndRead, Goto, repoVars, stopVars, watchVars, jobVars
<1>7. CASE WatcherRunDone
  <2>1. db' \in 0..None
    BY <1>7, FinishTypes DEF WatcherRunDone
  <2>2. polled' \subseteq StateIds
    BY <1>7 DEF WatcherRunDone, TypeOK
  <2>3. \E label \in {"after", "idle"} : Goto("watcher", label)
    BY <1>7 DEF WatcherRunDone
  <2>. QED
    BY <1>7, <2>1, <2>2, <2>3 DEF TypeOK, WatcherRunDone, FinishRun, Goto, stopVars, jobVars
<1>8. CASE PollAfter
  BY <1>8 DEF TypeOK, PollAfter, Goto, repoVars, stopVars, jobVars
<1>9. CASE PollFreed
  <2>1. CASE ProcessEnds
    BY <2>1, EndTypes
  <2>2. CASE ~ProcessEnds
    <3>1. \E label \in {"idle", "index"} : Goto("watcher", label)
      BY <1>9, <2>2 DEF PollFreed
    <3>2. polled' \subseteq StateIds
      BY <1>9, <2>2 DEF PollFreed, TypeOK
    <3>. QED
      BY <1>9, <2>2, <3>1, <3>2 DEF TypeOK, PollFreed, Goto, repoVars, stopVars, jobVars
  <2>. QED
    BY <2>1, <2>2
<1>. QED
  BY <1>1, <1>2, <1>3, <1>4, <1>5, <1>6, <1>7, <1>8, <1>9 DEF WatcherStep

LEMMA ServantTypes ==
    ASSUME TypeOK, HttpStep \/ (\E a \in AutoThreads : AutoStep(a)) \/ (\E s \in Slots : JobStep(s))
    PROVE  TypeOK'
<1>. USE LocalsMembers, TypesOfParts
<1>1. CASE HttpStops
  BY <1>1 DEF TypeOK, HttpStops, Goto, repoVars, stopVars, watchVars, jobVars
<1>2. CASE DeleteUnlink("http")
  BY <1>2 DEF TypeOK, DeleteUnlink, Goto, stopVars, watchVars, jobVars
<1>3. CASE IndexDone("http")
  <2>1. db' \in 0..None
    BY <1>3, FinishTypes DEF IndexDone
  <2>. QED
    BY <1>3, <2>1 DEF TypeOK, IndexDone, FinishRun, Goto, stopVars, watchVars, jobVars
<1>4. ASSUME NEW t \in Locals, IndexLock(t) PROVE TypeOK'
  BY <1>4 DEF TypeOK, IndexLock, LockAndRead, Goto, repoVars, stopVars, watchVars, jobVars
<1>5. ASSUME NEW a \in AutoThreads, AutoDone(a) PROVE TypeOK'
  <2>1. db' \in 0..None
    BY <1>5, FinishTypes DEF AutoDone
  <2>2. \E label \in {"register", "done"} : Goto(a, label)
    BY <1>5 DEF AutoDone
  <2>. QED
    BY <1>5, <2>1, <2>2 DEF TypeOK, AutoDone, FinishRun, Goto, stopVars, watchVars, jobVars
<1>6. ASSUME NEW a \in AutoThreads, AutoRegister(a) PROVE TypeOK'
  BY <1>6, WatchTypes DEF TypeOK, AutoRegister, Watch, Goto, repoVars, stopVars, jobVars
<1>9. ASSUME NEW a \in AutoThreads, UseFreedWatcher(a) PROVE TypeOK'
  <2>1. CASE ProcessEnds
    BY <2>1, EndTypes
  <2>2. CASE ~ProcessEnds
    <3>1. \E label \in {"done", "stuck"} : Goto(a, label)
      BY <1>9, <2>2 DEF UseFreedWatcher
    <3>. QED
      BY <1>9, <2>2, <3>1 DEF TypeOK, UseFreedWatcher, Goto, repoVars, stopVars, watchVars, jobVars
  <2>. QED
    BY <2>1, <2>2
<1>7. ASSUME NEW s \in Slots, ChildEnds(s) PROVE TypeOK'
  <2>1. db' \in 0..None
    BY <1>7, FinishTypes DEF ChildEnds
  <2>2. child' \in [Slots -> {"none", "running", "ok", "failed"}]
    BY <1>7 DEF ChildEnds, TypeOK
  <2>. QED
    BY <1>7, <2>1, <2>2 DEF TypeOK, ChildEnds, stopVars, watchVars
<1>8. ASSUME NEW s \in Slots, JobReaped(s) PROVE TypeOK'
  BY <1>8 DEF TypeOK, JobReaped, repoVars, stopVars, watchVars, jobVars
<1>. QED
  BY <1>1, <1>2, <1>3, <1>4, <1>5, <1>6, <1>7, <1>8, <1>9
     DEF HttpStep, TakesLock, AutoStep, JobStep

LEMMA OutsideTypes == ASSUME TypeOK, Outside PROVE TypeOK'
<1>. USE LocalsMembers, TypesOfParts
<1>1. CASE Edit
  <2>1. repo'.work \in 0..MaxEdits
    BY <1>1, BoundsAssumption DEF Edit, TypeOK
  <2>. QED
    BY <1>1, <2>1 DEF TypeOK, Edit, stopVars, watchVars, jobVars
<1>2. CASE Commit
  BY <1>2 DEF TypeOK, Commit, stopVars, watchVars, jobVars
<1>3. CASE Initialize
  <2>1. /\ watched' \subseteq StateIds /\ alive' \subseteq StateIds /\ pending' \subseteq StateIds
        /\ polled' \subseteq StateIds /\ watcherFreed' \in BOOLEAN
        /\ st' \in [StateIds -> [lastHead : 0..None, baseline : BOOLEAN]]
    <3>1. CASE Watch
      BY <3>1, WatchTypes DEF TypeOK, Watch
    <3>2. CASE UNCHANGED watchVars
      BY <3>2 DEF TypeOK, watchVars
    <3>. QED
      BY <1>3, <3>1, <3>2 DEF Initialize
  <2>2. autoTid' \subseteq AutoThreads
    BY <1>3 DEF Initialize, TypeOK
  <2>3. pc' = pc \/ \E a \in AutoThreads : Goto(a, "lock")
    BY <1>3 DEF Initialize
  <2>. QED
    BY <1>3, <2>1, <2>2, <2>3 DEF TypeOK, Initialize, Goto, repoVars, stopVars, jobVars
<1>4. CASE \E label \in {"lock", "delete"} : McpCall(label) \/ RpcCall(label)
  <2>1. \E t \in Locals : \E label \in {"lock", "delete"} : Goto(t, label)
    BY <1>4 DEF McpCall, RpcCall, Call
  <2>2. UNCHANGED <<repoVars, lock, snap, cancelled, stopVars, autoTid, watchVars, jobVars>>
    BY <1>4 DEF McpCall, RpcCall, Call
  <2>. QED
    BY <2>1, <2>2 DEF TypeOK, Goto, repoVars, stopVars, watchVars, jobVars
<1>5. CASE EndOfInput
  BY <1>5 DEF TypeOK, EndOfInput, repoVars, watchVars, jobVars
<1>6. CASE RequestShutdown
  BY <1>6 DEF TypeOK, RequestShutdown, repoVars, watchVars, jobVars
<1>7. CASE ParentDied
  BY <1>7, EndTypes DEF ParentDied
<1>8. CASE HttpDeletes
  BY <1>8 DEF TypeOK, HttpDeletes, stopVars, watchVars, jobVars
<1>9. CASE StartJob
  BY <1>9 DEF TypeOK, StartJob, repoVars, stopVars, watchVars
<1>10. CASE KillChild
  BY <1>10 DEF TypeOK, KillChild, repoVars, stopVars, watchVars
<1>. QED
  BY <1>1, <1>2, <1>3, <1>4, <1>5, <1>6, <1>7, <1>8, <1>9, <1>10 DEF Outside

\* Every variable keeps its type: a thread is always at a line of its code, the
\* database holds a version that was in the tree, and the watcher's table, its
\* deferred list and its snapshot hold state objects and nothing else.
THEOREM ThreadsTyped == Spec => []TypeOK
<1>1. TypeOK /\ [Next]_vars => TypeOK'
  <2>. SUFFICES ASSUME TypeOK, [Next]_vars PROVE TypeOK'
    OBVIOUS
  <2>1. CASE UNCHANGED vars
    BY <2>1 DEF TypeOK, vars, repoVars, stopVars, watchVars, jobVars
  <2>2. CASE Next
    BY <2>2, MainTypes, WatcherTypes, ServantTypes, OutsideTypes DEF Next
  <2>. QED
    BY <2>1, <2>2
<1>. QED
  BY <1>1, TypeInit, PTL DEF Spec

----------------------------------------------------------------------------
(* The watcher's snapshot.                                                  *)

\* A poll takes its snapshot when it holds none, at most one state is watched at
\* a time, and a watcher that waits, or has stopped, points at nothing: what a
\* poll drains and what the shutdown frees is in no snapshot.
SnapshotInv ==
    /\ PcTotal
    /\ watched = {} \/ \E s \in StateIds : watched = {s}
    /\ pc["watcher"] \in {"idle", "done"} => polled = {}

\* What SnapshotFreedOnlyByWatch says of one step.
FreedByWatch ==
    \A s \in StateIds : FreedUnderPoll(s) => watched = {s} /\ watched' \notin {{}, {s}}

Sound == SnapshotInv' /\ FreedByWatch

\* A step that frees nothing, registers nothing and at most drops the snapshot.
StillStep ==
    /\ PcTotal'
    /\ alive' = alive
    /\ watched' \in {watched, {}}
    /\ polled' \in {polled, {}}
    /\ pc'["watcher"] \in {"idle", "done"} => polled' = {} \/ pc["watcher"] \in {"idle", "done"}

LEMMA StillKeeps ==
    ASSUME SnapshotInv, StillStep
    PROVE  Sound
<1>1. SnapshotInv'
  BY DEF SnapshotInv, StillStep
<1>2. FreedByWatch
  BY DEF StillStep, FreedByWatch, FreedUnderPoll
<1>. QED
  BY <1>1, <1>2 DEF Sound

\* The steps that move one thread, or none.
LEMMA StillOnes ==
    ASSUME PcTotal, alive' = alive, watched' \in {watched, {}}, polled' \in {polled, {}},
           NEW t \in Locals, NEW label, Goto(t, label),
           t = "watcher" => polled' = {} \/ label \notin {"idle", "done"} \/ pc[t] \in {"idle", "done"}
    PROVE  StillStep
<1>1. /\ PcTotal' /\ pc'[t] = label /\ \A u \in Locals : u # t => pc'[u] = pc[u]
  BY GotoOne
<1>2. "watcher" \in Locals
  BY LocalsMembers
<1>. QED
  BY <1>1, <1>2 DEF StillStep

LEMMA StillUnmoved ==
    ASSUME PcTotal, UNCHANGED <<alive, watched, polled, pc>>
    PROVE  StillStep
BY DEF StillStep, PcTotal

\* A step that leaves no snapshot frees nothing under one.
LEMMA NothingPolled ==
    ASSUME polled' = {} \/ polled = {}
    PROVE  FreedByWatch
BY DEF FreedByWatch, FreedUnderPoll

LEMMA EndSound == ASSUME ProcessEnds PROVE Sound
<1>1. PcTotal' /\ watched' = {} /\ polled' = {}
  BY DEF ProcessEnds, PcTotal
<1>. QED
  BY <1>1, NothingPolled DEF Sound, SnapshotInv

\* cbm_watcher_watch: the new state is allocated, so one that was freed is another.
LEMMA WatchSound ==
    ASSUME SnapshotInv, TypeOK, Watch, PcTotal', pc'["watcher"] = pc["watcher"]
    PROVE  Sound
<1>1. PICK n \in Places(watched) :
        alive' = (alive \ watched) \cup {n} /\ watched' = {n} /\ polled' = polled
  BY DEF Watch
<1>2. n \in StateIds
  BY <1>1 DEF Places, TypeOK
<1>3. SnapshotInv'
  BY <1>1, <1>2 DEF SnapshotInv
<1>4. ASSUME NEW s \in StateIds, FreedUnderPoll(s)
      PROVE  watched = {s} /\ watched' \notin {{}, {s}}
  <2>1. s \in watched /\ s # n
    BY <1>1, <1>4 DEF FreedUnderPoll
  <2>. QED
    BY <1>1, <2>1 DEF SnapshotInv
<1>. QED
  BY <1>3, <1>4 DEF Sound, FreedByWatch

LEMMA MainSnapshot == ASSUME SnapshotInv, MainStep PROVE Sound
<1>. USE LocalsMembers, ThreadsAssumption
<1>0. PcTotal
  BY DEF SnapshotInv
<1>1. CASE IndexLock("main")
  BY <1>0, <1>1, StillOnes, StillKeeps DEF IndexLock, LockAndRead, watchVars
<1>2. CASE DeleteUnlink("main")
  BY <1>0, <1>2, StillOnes, StillKeeps DEF DeleteUnlink, watchVars
<1>3. CASE IndexDone("main")
  BY <1>0, <1>3, StillOnes, StillKeeps DEF IndexDone, watchVars
<1>4. CASE DeleteUnwatch
  BY <1>0, <1>4, StillOnes, StillKeeps DEF DeleteUnwatch, Unwatch
<1>5. CASE LeaveLoop \/ JoinHttp
  BY <1>0, <1>5, StillOnes, StillKeeps DEF LeaveLoop, JoinHttp, watchVars
<1>6. CASE JoinWatcher
  <2>1. PcTotal' /\ polled = {} /\ polled' = {} /\ watched' = {}
    BY <1>0, <1>6, GotoOne DEF JoinWatcher, SnapshotInv
  <2>. QED
    BY <2>1, NothingPolled DEF Sound, SnapshotInv
<1>7. CASE JoinAuto
  BY <1>7, EndSound DEF JoinAuto
<1>. QED
  BY <1>1, <1>2, <1>3, <1>4, <1>5, <1>6, <1>7 DEF MainStep, TakesLock

LEMMA WatcherSnapshot == ASSUME SnapshotInv, WatcherStep PROVE Sound
<1>. USE LocalsMembers, ThreadsAssumption
<1>0. PcTotal
  BY DEF SnapshotInv
<1>1. CASE WatcherStops
  BY <1>0, <1>1, StillOnes, StillKeeps DEF WatcherStops, Ready, watchVars
<1>2. CASE PollOnce
  <2>1. PcTotal' /\ polled = {}
    BY <1>0, <1>2 DEF PollOnce, PcTotal, Ready, SnapshotInv
  <2>2. watched # {} => pc'["watcher"] = "project"
    BY <1>0, <1>2 DEF PollOnce, PcTotal
  <2>. QED
    BY <1>2, <2>1, <2>2, NothingPolled DEF PollOnce, Sound, SnapshotInv
<1>3. CASE InitBaseline
  BY <1>0, <1>3, StillOnes, StillKeeps DEF InitBaseline
<1>4. CASE CheckChanges
  <2>1. /\ UNCHANGED <<alive, watched>> /\ pc["watcher"] = "project"
        /\ \/ Goto("watcher", "index") /\ polled' = polled
           \/ Goto("watcher", "idle") /\ polled' = {}
    BY <1>4 DEF CheckChanges
  <2>. QED
    BY <1>0, <2>1, StillOnes, StillKeeps
<1>5. CASE WatcherSkips
  BY <1>0, <1>5, StillOnes, StillKeeps DEF WatcherSkips, watchVars
<1>6. CASE WatcherRuns
  BY <1>0, <1>6, StillOnes, StillKeeps DEF WatcherRuns, LockAndRead, watchVars
<1>7. CASE WatcherRunDone
  BY <1>0, <1>7, StillOnes, StillKeeps DEF WatcherRunDone
<1>8. CASE PollAfter
  BY <1>0, <1>8, StillOnes, StillKeeps DEF PollAfter
<1>9. CASE PollFreed
  <2>1. CASE ProcessEnds
    BY <2>1, EndSound
  <2>2. CASE ~ProcessEnds
    BY <1>0, <1>9, <2>2, StillOnes, StillKeeps DEF PollFreed
  <2>. QED
    BY <2>1, <2>2
<1>. QED
  BY <1>1, <1>2, <1>3, <1>4, <1>5, <1>6, <1>7, <1>8, <1>9 DEF WatcherStep

LEMMA ServantSnapshot ==
    ASSUME SnapshotInv, TypeOK,
           HttpStep \/ (\E a \in AutoThreads : AutoStep(a)) \/ \E s \in Slots : JobStep(s)
    PROVE  Sound
<1>. USE LocalsMembers, ThreadsAssumption
<1>0. PcTotal
  BY DEF SnapshotInv
<1>1. CASE HttpStops
  BY <1>0, <1>1, StillOnes, StillKeeps DEF HttpStops, watchVars
<1>2. CASE IndexLock("http") \/ DeleteUnlink("http")
  BY <1>0, <1>2, StillOnes, StillKeeps DEF IndexLock, DeleteUnlink, LockAndRead, watchVars
<1>3. CASE IndexDone("http")
  BY <1>0, <1>3, StillOnes, StillKeeps DEF IndexDone, watchVars
<1>4. ASSUME NEW a \in AutoThreads, IndexLock(a)
      PROVE  Sound
  BY <1>0, <1>4, StillOnes, StillKeeps DEF IndexLock, LockAndRead, watchVars
<1>5. ASSUME NEW a \in AutoThreads, AutoDone(a)
      PROVE  Sound
  BY <1>0, <1>5, StillOnes, StillKeeps DEF AutoDone, FinishRun, watchVars
<1>6. ASSUME NEW a \in AutoThreads, AutoRegister(a)
      PROVE  Sound
  <2>1. PcTotal' /\ pc'["watcher"] = pc["watcher"]
    BY <1>0, <1>6, GotoOne DEF AutoRegister
  <2>. QED
    BY <1>6, <2>1, WatchSound DEF AutoRegister
<1>7. ASSUME NEW a \in AutoThreads, UseFreedWatcher(a)
      PROVE  Sound
  <2>1. CASE ProcessEnds
    BY <2>1, EndSound
  <2>2. CASE ~ProcessEnds
    BY <1>0, <1>7, <2>2, StillOnes, StillKeeps DEF UseFreedWatcher, watchVars
  <2>. QED
    BY <2>1, <2>2
<1>8. ASSUME NEW s \in Slots, JobStep(s)
      PROVE  Sound
  BY <1>0, <1>8, StillUnmoved, StillKeeps DEF JobStep, ChildEnds, JobReaped, watchVars
<1>. QED
  BY <1>1, <1>2, <1>3, <1>4, <1>5, <1>6, <1>7, <1>8 DEF HttpStep, TakesLock, AutoStep

LEMMA OutsideSnapshot == ASSUME SnapshotInv, TypeOK, Outside PROVE Sound
<1>. USE LocalsMembers, ThreadsAssumption
<1>0. PcTotal
  BY DEF SnapshotInv
<1>1. CASE Initialize
  <2>1. CASE Watch /\ UNCHANGED pc
    BY <1>0, <2>1, WatchSound DEF PcTotal
  <2>2. CASE UNCHANGED <<watchVars, pc>>
    BY <1>0, <2>2, StillUnmoved, StillKeeps DEF watchVars
  <2>3. ASSUME NEW a \in AutoThreads, Goto(a, "lock"), UNCHANGED watchVars
        PROVE  Sound
    BY <1>0, <2>3, StillOnes, StillKeeps DEF watchVars
  <2>. QED
    BY <1>1, <2>1, <2>2, <2>3 DEF Initialize
<1>2. CASE \E label \in {"lock", "delete"} : McpCall(label) \/ RpcCall(label)
  BY <1>0, <1>2, StillOnes, StillKeeps DEF McpCall, RpcCall, Call, watchVars
<1>3. CASE ParentDied
  BY <1>3, EndSound DEF ParentDied
<1>4. CASE Edit \/ Commit \/ EndOfInput \/ HttpDeletes \/ StartJob \/ KillChild \/ RequestShutdown
  <2>1. UNCHANGED <<alive, watched, polled, pc>>
    BY <1>4 DEF Edit, Commit, EndOfInput, HttpDeletes, StartJob, KillChild, RequestShutdown, watchVars
  <2>. QED
    BY <1>0, <2>1, StillUnmoved, StillKeeps
<1>. QED
  BY <1>1, <1>2, <1>3, <1>4 DEF Outside

\* The watcher reads the state its snapshot points at outside its mutex.  A
\* delete leaves the state to the next poll and the shutdown joins the watcher
\* first, so the one thing that frees it under the poll is a registration that
\* replaces it (cbm_watcher_watch, on a repeated initialize or after an
\* auto-index run), however often and by whichever thread that is done.
THEOREM OnlyWatchFreesTheSnapshot == Spec => SnapshotFreedOnlyByWatch
<1>1. Init => SnapshotInv
  BY DEF Init, SnapshotInv, PcTotal
<1>2. SnapshotInv /\ TypeOK /\ [Next]_vars => Sound
  <2>. SUFFICES ASSUME SnapshotInv, TypeOK, [Next]_vars PROVE Sound
    OBVIOUS
  <2>1. CASE UNCHANGED vars
    BY <2>1, StillUnmoved, StillKeeps DEF SnapshotInv, vars, watchVars
  <2>2. CASE Next
    BY <2>2, MainSnapshot, WatcherSnapshot, ServantSnapshot, OutsideSnapshot DEF Next
  <2>. QED
    BY <2>1, <2>2
<1>3. SnapshotInv /\ TypeOK /\ [Next]_vars => SnapshotInv' /\ [FreedByWatch]_vars
  BY <1>2 DEF Sound
<1>4. Spec => [][FreedByWatch]_vars
  BY <1>1, <1>3, ThreadsTyped, PTL DEF Spec
<1>. QED
  BY <1>4 DEF SnapshotFreedOnlyByWatch, FreedByWatch

\* An index job's slot is never given away while its child runs, whichever way
\* the child, the reaping thread and new requests interleave (index_thread_fn
\* sets the slot's status only after the child has ended).
THEOREM SlotsExclude == Spec => []SlotsAreExclusive
<1>. DEFINE Tables == jobs = [s \in Slots |-> jobs[s]] /\ child = [s \in Slots |-> child[s]]
            Inv    == Tables /\ SlotsAreExclusive
<1>1. Init => Inv
  BY DEF Init, SlotsAreExclusive
<1>2. Inv /\ [Next]_vars => Inv'
  <2>. SUFFICES ASSUME Inv, [Next]_vars PROVE Inv'
    OBVIOUS
  <2>1. CASE UNCHANGED jobVars
    BY <2>1 DEF SlotsAreExclusive, jobVars
  <2>2. CASE StartJob
    BY <2>2 DEF StartJob, SlotsAreExclusive, FreeSlot
  <2>3. CASE KillChild
    BY <2>3 DEF KillChild, SlotsAreExclusive
  <2>4. ASSUME NEW s \in Slots, JobStep(s)
        PROVE  Inv'
    BY <2>4 DEF JobStep, ChildEnds, JobReaped, SlotsAreExclusive
  <2>5. CASE MainStep \/ WatcherStep \/ HttpStep \/ \E a \in AutoThreads : AutoStep(a)
    <3>1. UNCHANGED jobVars
      BY <2>5 DEF MainStep, TakesLock, IndexLock, DeleteUnlink, IndexDone, DeleteUnwatch, LeaveLoop,
                  JoinHttp, JoinWatcher, JoinAuto, WatcherStep, WatcherStops, PollOnce, InitBaseline,
                  CheckChanges, WatcherSkips, WatcherRuns, WatcherRunDone, PollAfter, PollFreed,
                  HttpStep, HttpStops, AutoStep, AutoDone, AutoRegister, UseFreedWatcher,
                  ProcessEnds
    <3>. QED
      BY <2>1, <3>1
  <2>6. CASE \/ Edit \/ Commit \/ Initialize \/ EndOfInput \/ RequestShutdown \/ ParentDied \/ HttpDeletes
             \/ \E label \in {"lock", "delete"} : McpCall(label) \/ RpcCall(label)
    <3>1. UNCHANGED jobVars
      BY <2>6 DEF Edit, Commit, Initialize, EndOfInput, RequestShutdown, ParentDied, ProcessEnds, HttpDeletes,
                  McpCall, RpcCall, Call
    <3>. QED
      BY <2>1, <3>1
  <2>7. CASE UNCHANGED vars
    BY <2>1, <2>7 DEF vars
  <2>. QED
    BY <2>2, <2>3, <2>4, <2>5, <2>6, <2>7 DEF Next, Outside
<1>3. Inv => SlotsAreExclusive
  OBVIOUS
<1>. QED
  BY <1>1, <1>2, <1>3, PTL DEF Spec

==============================================================================
