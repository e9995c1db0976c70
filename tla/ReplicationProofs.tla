------------------------- MODULE ReplicationProofs -------------------------
(***************************************************************************)
(* Proofs about replication, for any number of jobs, sources, goroutines,  *)
(* runs and seconds, and whatever may happen around the runs.              *)
(***************************************************************************)
EXTENDS Replication, LongOpsProofs

(* A goroutine that is not idle has a job, and a stream that can be sent   *)
(* is of a snapshot that was taken.                                        *)
Known ==
  /\ \A w \in Workers : worker[w].pc # "idle" => worker[w].job \in Jobs
  /\ \A o \in OpIds : pipe[o].sound => pipe[o].job \in Jobs /\ pipe[o].snap \in Time

TypeInv == TypeOK /\ Known

LEMMA TypeInit == Init => TypeInv
<1> SUFFICES ASSUME Init PROVE TypeInv
  OBVIOUS
<1>1. OpsTypeOK
  BY OpsInvInit DEF Init, OpsInv
<1>2. job \in [Jobs -> Rows]
  BY DEF Init
<1>3. worker \in [Workers -> Goroutines]
  BY ReplicationAssumption, LongOpsAssumption DEF Init, Idle, Goroutines, Seconds
<1>4. dest \in [Jobs -> Destinations]
  BY ReplicationAssumption DEF Init, Absent, Destinations, Seconds
<1>5. pipe \in [OpIds -> Pipelines]
  BY ReplicationAssumption DEF Init, NoPipe, Pipelines, Seconds
<1>6. TypeOK
  BY <1>1, <1>2, <1>3, <1>4, <1>5, ReplicationAssumption
  DEF Init, TypeOK, Seconds, Time
<1>7. Known
  BY DEF Init, Known, Idle, NoPipe
<1> QED
  BY <1>6, <1>7 DEF TypeInv

(* Moving on changes where the goroutine is and nothing else of it.        *)
LEMMA GotoType ==
  ASSUME worker \in [Workers -> Goroutines], NEW w \in Workers,
         NEW pc \in Holding, Goto(w, pc)
  PROVE  /\ worker' \in [Workers -> Goroutines]
         /\ worker'[w].pc = pc
         /\ \A v \in Workers : v # w => worker'[v] = worker[v]
         /\ \A v \in Workers : /\ worker'[v].job = worker[v].job
                               /\ worker'[v].op = worker[v].op
                               /\ worker'[v].snap = worker[v].snap
                               /\ worker'[v].bookmark = worker[v].bookmark
                               /\ worker'[v].force = worker[v].force
  BY DEF Goto, Goroutines

(* Every step of a run is a step of the registry's, or none of it.         *)
LEMMA OpsSimulation == TypeInv /\ [Next]_vars => [OpsNext]_opVars
<1> SUFFICES ASSUME TypeInv, [Next]_vars PROVE [OpsNext]_opVars
  OBVIOUS
<1>1. ASSUME NEW w \in Workers, NEW full, NEW next, worker[w].job \in Jobs, Launch(w, full, next)
      PROVE  OpsNext
  BY <1>1, ReplicationAssumption DEF Launch, OpsNext
<1>2. ASSUME NEW w \in Workers, Work(w) PROVE [OpsNext]_opVars
  <2>1. CASE StartSend(w)
    BY <1>1, <2>1 DEF StartSend, TypeInv, Known
  <2>2. CASE StartFull(w)
    BY <1>1, <2>2 DEF StartFull, TypeInv, Known
  <2>3. CASE UNCHANGED opVars
    BY <2>3
  <2> QED
    BY <1>2, <2>1, <2>2, <2>3
    DEF Work, TryAcquire, TakeSnapshot, WaitOp, WaitFull, DestroyDest, DropBookmark,
        MakeBookmark, Prune, MarkRun, Release
<1>3. ASSUME NEW o \in OpIds, PipelineSucceeds(o) \/ PipelineFails(o)
      PROVE  OpsNext
  BY <1>3 DEF PipelineSucceeds, PipelineFails, OpsNext, OpsStep, Exited
<1>4. ASSUME NEW o \in OpIds, Registry(o) \/ Kill(o) \/ Purge(o)
      PROVE  OpsNext
  BY <1>4 DEF Registry, Kill, Purge, OpsNext, OpsStep
<1>5. CASE Restart
  BY <1>5 DEF Restart, OpsNext
<1>6. CASE UNCHANGED vars
  BY <1>6 DEF vars
<1>7. ASSUME NEW w \in Workers, NEW j \in Jobs, Read(w, j) PROVE UNCHANGED opVars
  BY <1>7 DEF Read
<1>8. ASSUME NEW j \in Jobs, Patch(j) \/ Delete(j) \/ Diverge(j) PROVE UNCHANGED opVars
  BY <1>8 DEF Patch, Delete, Diverge
<1>9. CASE Tick
  BY <1>9 DEF Tick
<1> QED
  BY <1>2, <1>3, <1>4, <1>5, <1>6, <1>7, <1>8, <1>9 DEF Next

-----------------------------------------------------------------------------
(* The types.                                                              *)

(* Launch records a stream it can type: the snapshot and the bookmark it   *)
(* opens are seconds, and a sound stream is of a job's snapshot.           *)
LEMMA LaunchType ==
  ASSUME TypeInv, NEW w \in Workers, worker[w].pc # "idle",
         NEW full \in BOOLEAN, NEW next \in Holding, Launch(w, full, next)
  PROVE  /\ worker' \in [Workers -> Goroutines]
         /\ pipe' \in [OpIds -> Pipelines]
         /\ Known'
<1> USE ReplicationAssumption, LongOpsAssumption DEF TypeInv, TypeOK, Known, Seconds, Time
<1> DEFINE s == Source(w)
<1>1. worker[w].job \in Jobs /\ s \in Sources
  BY DEF Source
<1>2. seq + 1 \in OpIds
  BY DEF Launch, Start, OpsTypeOK, OpIds
<1>3. worker[w] \in Goroutines
  OBVIOUS
<1>4. worker' \in [Workers -> Goroutines]
  <2>1. worker' = [worker EXCEPT ![w].pc = next, ![w].op = seq + 1]
    BY DEF Launch
  <2>2. seq + 1 \in 0 .. MaxOps /\ worker \in [Workers -> Goroutines]
    BY <1>2 DEF OpIds
  <2> HIDE DEF TypeInv, TypeOK, Known
  <2> QED
    BY <2>1, <2>2 DEF Goroutines
<1>5. pipe' \in [OpIds -> Pipelines]
  BY <1>1, <1>2, <1>3 DEF Launch, Pipelines, Goroutines
<1>6. \A v \in Workers : worker'[v].job = worker[v].job /\ (v # w => worker'[v] = worker[v])
  BY <1>3 DEF Launch, Goroutines
<1>7. \A o \in OpIds : pipe'[o].sound => pipe'[o].job \in Jobs /\ pipe'[o].snap \in Time
  BY <1>1, <1>2, <1>3 DEF Launch, Goroutines
<1> QED
  BY <1>1, <1>4, <1>5, <1>6, <1>7

(* A receive that is cut short leaves well-typed destinations and streams. *)
LEMMA CutShortType ==
  ASSUME TypeInv, CutShort
  PROVE  /\ dest' \in [Jobs -> Destinations]
         /\ pipe' \in [OpIds -> Pipelines]
         /\ \A o \in OpIds : pipe'[o].sound => pipe'[o].job \in Jobs /\ pipe'[o].snap \in Time
<1> USE ReplicationAssumption DEF TypeInv, TypeOK, Known
<1>1. dest' \in [Jobs -> Destinations]
  <2>1. \A d \in Destinations : [d EXCEPT !.exists = TRUE, !.stuck = TRUE] \in Destinations
    BY DEF Destinations
  <2>2. PICK torn :
          dest' = [j \in Jobs |->
                    IF j \in torn THEN [dest[j] EXCEPT !.exists = TRUE, !.stuck = TRUE]
                                  ELSE dest[j]]
    BY DEF CutShort
  <2>3. dest \in [Jobs -> Destinations]
    OBVIOUS
  <2> HIDE DEF TypeInv, TypeOK, Known
  <2> QED
    BY <2>1, <2>2, <2>3
<1>2. NoPipe \in Pipelines
  BY DEF NoPipe, Pipelines, Seconds
<1>3. pipe' \in [OpIds -> Pipelines]
  BY <1>2 DEF CutShort
<1>4. \A o \in OpIds : pipe'[o].sound => pipe'[o].job \in Jobs /\ pipe'[o].snap \in Time
  BY DEF CutShort, NoPipe
<1> QED
  BY <1>1, <1>3, <1>4

(* One step of a goroutine keeps the types.                                *)
LEMMA WorkType ==
  ASSUME TypeInv, OpsTypeOK', NEW w \in Workers, Work(w)
  PROVE  TypeInv'
<1> USE ReplicationAssumption DEF TypeInv, TypeOK, Known
<1>0. worker \in [Workers -> Goroutines] /\ worker[w] \in Goroutines
  OBVIOUS
<1>a. ASSUME NEW pc \in Holding, Goto(w, pc), worker[w].pc # "idle"
      PROVE  /\ worker' \in [Workers -> Goroutines]
             /\ \A v \in Workers : worker'[v].pc # "idle" => worker'[v].job \in Jobs
  BY <1>0, <1>a, GotoType DEF Goroutines
<1>b. ASSUME worker' = [worker EXCEPT ![w] = Idle]
      PROVE  /\ worker' \in [Workers -> Goroutines]
             /\ \A v \in Workers : worker'[v].pc # "idle" => worker'[v].job \in Jobs
  <2>1. Idle \in Goroutines
    BY LongOpsAssumption DEF Idle, Goroutines, Seconds, OpsTypeOK
  <2> QED
    BY <1>0, <1>b, <2>1 DEF Idle
<1>c. Absent \in Destinations
  BY DEF Absent, Destinations, Seconds
<1>1. CASE TryAcquire(w)
  BY <1>1, <1>a, <1>b DEF TryAcquire, Holding, zfsVars
<1>2. CASE TakeSnapshot(w)
  <2>1. CASE Goto(w, "mark")
    BY <1>2, <2>1, <1>a DEF TakeSnapshot, Holding
  <2>2. CASE /\ snaps' = [snaps EXCEPT ![Source(w)] = @ \cup {now}]
             /\ worker' = [worker EXCEPT ![w].pc = "send", ![w].snap = now]
    <3>1. worker' \in [Workers -> Goroutines]
      <4>1. now \in Seconds
        BY DEF Seconds, Time
      <4> HIDE DEF TypeInv, TypeOK, Known
      <4> QED
        BY <1>0, <2>2, <4>1 DEF Goroutines, Holding
    <3>2. \A v \in Workers : worker'[v].pc # "idle" => worker'[v].job \in Jobs
      BY <1>0, <1>2, <2>2 DEF Goroutines, TakeSnapshot
    <3> QED
      BY <1>2, <2>2, <3>1, <3>2 DEF TakeSnapshot
  <2> QED
    BY <1>2, <2>1, <2>2 DEF TakeSnapshot
<1>3. CASE StartSend(w)
  BY <1>3, <1>a, LaunchType DEF StartSend, Holding, zfsVars
<1>4. CASE WaitOp(w)
  BY <1>4, <1>a DEF WaitOp, Verdict, Holding, zfsVars
<1>5. CASE DestroyDest(w)
  BY <1>5, <1>a, <1>c DEF DestroyDest, Holding
<1>6. CASE StartFull(w)
  BY <1>6, <1>a, LaunchType DEF StartFull, Holding, zfsVars
<1>7. CASE WaitFull(w)
  BY <1>7, <1>a DEF WaitFull, Holding, zfsVars
<1>8. CASE DropBookmark(w)
  BY <1>8, <1>a DEF DropBookmark, Seconds, Holding
<1>9. CASE MakeBookmark(w)
  <2>1. CASE Goto(w, "mark")
    BY <1>9, <2>1, <1>a DEF MakeBookmark, Goroutines, Holding
  <2>2. CASE worker' = [worker EXCEPT ![w].pc = "prune", ![w].bookmark = worker[w].snap]
    <3>1. /\ worker' \in [Workers -> Goroutines]
          /\ \A v \in Workers : worker'[v].job = worker[v].job
          /\ \A v \in Workers : v # w => worker'[v] = worker[v]
      <4> HIDE DEF TypeInv, TypeOK, Known
      <4> QED
        BY <1>0, <2>2 DEF Goroutines, Holding
    <3> QED
      BY <1>0, <1>9, <3>1 DEF MakeBookmark, Goroutines
  <2> QED
    BY <1>9, <2>1, <2>2 DEF MakeBookmark
<1>10. CASE Prune(w)
  BY <1>10, <1>a DEF Prune, Holding
<1>11. CASE MarkRun(w)
  BY <1>11, <1>a DEF MarkRun, Rows, Goroutines, Holding, zfsVars
<1>12. CASE Release(w)
  BY <1>12, <1>b DEF Release, zfsVars
<1> QED
  BY <1>1, <1>2, <1>3, <1>4, <1>5, <1>6, <1>7, <1>8, <1>9, <1>10, <1>11, <1>12 DEF Work

LEMMA TypeStep == TypeInv /\ [Next]_vars => TypeInv'
<1> SUFFICES ASSUME TypeInv, [Next]_vars PROVE TypeInv'
  OBVIOUS
<1>0. OpsTypeOK'
  BY OpsSimulation, OpsTypeStep DEF TypeInv, TypeOK
<1> USE ReplicationAssumption DEF TypeInv, TypeOK, Known
<1>1. ASSUME NEW w \in Workers, NEW j \in Jobs, Read(w, j) PROVE TypeInv'
  <2>1. job[j].bookmark \in Seconds /\ job[j].force \in BOOLEAN /\ 0 \in Seconds /\ 0 \in 0 .. MaxOps
    BY LongOpsAssumption DEF Seconds, Rows
  <2>2. /\ worker' \in [Workers -> Goroutines]
        /\ worker'[w].job = j
        /\ \A v \in Workers : v # w => worker'[v] = worker[v]
    <3>1. worker \in [Workers -> Goroutines]
      OBVIOUS
    <3> HIDE DEF TypeInv, TypeOK, Known
    <3> QED
      BY <1>1, <2>1, <3>1 DEF Read, Goroutines
  <2> QED
    BY <1>0, <1>1, <2>2 DEF Read, zfsVars
<1>2. ASSUME NEW w \in Workers, Work(w) PROVE TypeInv'
  BY <1>0, <1>2, WorkType
<1>3. ASSUME NEW o \in OpIds, PipelineSucceeds(o) PROVE TypeInv'
  <2>1. pipe[o].sound /\ pipe[o].job \in Jobs /\ pipe[o].snap \in Time
    BY <1>3 DEF PipelineSucceeds, CanReceive
  <2>2. [exists |-> TRUE, head |-> pipe[o].snap, stuck |-> FALSE] \in Destinations
    BY <2>1 DEF Destinations, Seconds, Time
  <2>3. NoPipe \in Pipelines /\ ~NoPipe.sound
    BY DEF NoPipe, Pipelines, Seconds
  <2> QED
    BY <1>0, <1>3, <2>1, <2>2, <2>3 DEF PipelineSucceeds
<1>4. ASSUME NEW o \in OpIds, PipelineFails(o) \/ Kill(o) PROVE TypeInv'
  BY <1>0, <1>4, CutShortType DEF PipelineFails, Kill
<1>5. ASSUME NEW o \in OpIds, Registry(o) \/ Purge(o) PROVE TypeInv'
  BY <1>0, <1>5 DEF Registry, Purge, zfsVars
<1>6. ASSUME NEW j \in Jobs, Patch(j) \/ Delete(j) PROVE TypeInv'
  <2>1. \A r \in Rows : /\ \A f \in BOOLEAN : [r EXCEPT !.force = f] \in Rows
                        /\ [r EXCEPT !.exists = FALSE] \in Rows
    BY DEF Rows
  <2>2. job' \in [Jobs -> Rows]
    <3> job \in [Jobs -> Rows]
      OBVIOUS
    <3> HIDE DEF TypeInv, TypeOK, Known
    <3>1. CASE Patch(j)
      <4>1. PICK f \in BOOLEAN : job' = [job EXCEPT ![j].force = f]
        BY <3>1 DEF Patch
      <4>2. job[j] \in Rows /\ [job[j] EXCEPT !.force = f] \in Rows
        BY <2>1
      <4> QED
        BY <4>1, <4>2
    <3>2. CASE Delete(j)
      BY <2>1, <3>2 DEF Delete
    <3> QED
      BY <1>6, <3>1, <3>2
  <2> QED
    BY <1>0, <1>6, <2>2 DEF Patch, Delete, zfsVars
<1>7. ASSUME NEW j \in Jobs, Diverge(j) PROVE TypeInv'
  BY <1>0, <1>7 DEF Diverge, Destinations
<1>8. CASE Tick
  BY <1>0, <1>8 DEF Tick, Time
<1>9. CASE Restart
  <2>1. Idle \in Goroutines /\ Idle.pc = "idle"
    BY LongOpsAssumption DEF Idle, Goroutines, Seconds, OpsTypeOK
  <2> QED
    BY <1>0, <1>9, <2>1, CutShortType DEF Restart
<1>10. CASE UNCHANGED vars
  BY <1>0, <1>10 DEF vars, zfsVars
<1> QED
  BY <1>1, <1>2, <1>3, <1>4, <1>5, <1>6, <1>7, <1>8, <1>9, <1>10 DEF Next

(* Every variable keeps its type, in every behaviour.                      *)
THEOREM ReplicationTypes == Spec => []TypeOK
<1>1. Spec => []TypeInv
  BY TypeInit, TypeStep, PTL DEF Spec
<1> QED
  BY <1>1, PTL DEF TypeInv

-----------------------------------------------------------------------------
(* The registry.                                                           *)

(* The actions are built from those of LongOps, so a behaviour here is one *)
(* of the registry with this client: what OpsSpec implies can be cited.    *)
LEMMA OpsBehaviour == Spec => OpsSpec
<1>1. Init => OpsInit
  BY DEF Init
<1>2. TypeInv /\ [Next]_vars => [OpsNext]_opVars
  BY OpsSimulation
<1> QED
  BY <1>1, <1>2, TypeInit, TypeStep, PTL DEF Spec, OpsSpec

(* So what LongOps promises holds here too.                                *)
THEOREM ReplicationTruthful == Spec => []TruthfulStatus /\ FinalIsFinal
  BY OpsBehaviour, OpsTruthful, OpsFinal

-----------------------------------------------------------------------------
(* What a step does to the goroutines.                                     *)

(* A goroutine that executes a job and does not finish goes on executing   *)
(* the same job; the other goroutines and the slots stay as they are.      *)
LEMMA Advance ==
  ASSUME TypeInv, NEW w \in Workers, Work(w), ~TryAcquire(w), ~Release(w)
  PROVE  /\ worker[w].pc \in Holding
         /\ worker'[w].pc \in Holding
         /\ worker'[w].job = worker[w].job
         /\ worker'[w].force = worker[w].force
         /\ \A v \in Workers : v # w => worker'[v] = worker[v]
         /\ inFlight' = inFlight
<1>0. worker \in [Workers -> Goroutines]
  BY DEF TypeInv, TypeOK
<1> DEFINE Goal == /\ worker[w].pc \in Holding
                   /\ worker'[w].pc \in Holding
                   /\ worker'[w].job = worker[w].job
                   /\ worker'[w].force = worker[w].force
                   /\ \A v \in Workers : v # w => worker'[v] = worker[v]
                   /\ inFlight' = inFlight
<1>a. ASSUME worker[w].pc \in Holding, inFlight' = inFlight, NEW pc \in Holding, Goto(w, pc)
      PROVE  Goal
  BY <1>a, <1>0, GotoType
<1>2. CASE TakeSnapshot(w)
  <2>1. CASE Goto(w, "mark")
    BY <1>2, <2>1, <1>a DEF TakeSnapshot, Holding
  <2>2. CASE worker' = [worker EXCEPT ![w].pc = "send", ![w].snap = now]
    BY <1>0, <1>2, <2>2 DEF TakeSnapshot, Goroutines, Holding
  <2> QED
    BY <1>2, <2>1, <2>2 DEF TakeSnapshot
<1>3. ASSUME NEW full, NEW next \in Holding, Launch(w, full, next), worker[w].pc \in Holding,
             inFlight' = inFlight
      PROVE  Goal
  <2>1. worker' = [worker EXCEPT ![w].pc = next, ![w].op = seq + 1]
    BY <1>3 DEF Launch
  <2> QED
    BY <1>0, <1>3, <2>1 DEF Goroutines
<1>4. CASE StartSend(w) \/ StartFull(w)
  BY <1>3, <1>4, <1>a DEF StartSend, StartFull, Holding
<1>5. CASE WaitOp(w) \/ WaitFull(w)
  BY <1>5, <1>a DEF WaitOp, WaitFull, Verdict, Holding
<1>6. CASE DestroyDest(w) \/ DropBookmark(w) \/ Prune(w) \/ MarkRun(w)
  BY <1>6, <1>a DEF DestroyDest, DropBookmark, Prune, MarkRun, Holding
<1>7. CASE MakeBookmark(w)
  <2>1. CASE Goto(w, "mark")
    BY <1>7, <2>1, <1>a DEF MakeBookmark, Holding
  <2>2. CASE worker' = [worker EXCEPT ![w].pc = "prune", ![w].bookmark = worker[w].snap]
    BY <1>0, <1>7, <2>2 DEF MakeBookmark, Goroutines, Holding
  <2> QED
    BY <1>7, <2>1, <2>2 DEF MakeBookmark
<1> QED
  BY <1>2, <1>4, <1>5, <1>6, <1>7 DEF Work

(* Everything that is not a goroutine's step leaves goroutines and slots   *)
(* alone, unless the daemon restarts.                                      *)
LEMMA Aside ==
  ASSUME [Next]_vars, ~Restart, \A w \in Workers : ~Work(w),
         \A w \in Workers, j \in Jobs : ~Read(w, j)
  PROVE  UNCHANGED <<worker, inFlight>>
  BY DEF Next, PipelineSucceeds, PipelineFails, Registry, Kill, Purge, Patch, Delete,
         Diverge, Tick, vars, zfsVars

-----------------------------------------------------------------------------
(* The slots.                                                              *)

Holds(w, j) == worker[w].pc \in Holding /\ worker[w].job = j

(* SlotExclusive, job by job.                                              *)
SlotInv ==
  /\ \A v, w \in Workers, j \in Jobs : Holds(v, j) /\ Holds(w, j) => v = w
  /\ \A j \in Jobs : j \in inFlight <=> \E w \in Workers : Holds(w, j)

LEMMA SlotInvImplies == TypeInv /\ SlotInv => SlotExclusive
<1> SUFFICES ASSUME TypeInv, SlotInv PROVE SlotExclusive
  OBVIOUS
<1>1. \A w \in Workers : worker[w].pc \in Holding => worker[w].job \in Jobs
  BY DEF TypeInv, Known, Holding
<1>2. inFlight \subseteq Jobs
  BY DEF TypeInv, TypeOK
<1>3. inFlight = {worker[w].job : w \in {v \in Workers : worker[v].pc \in Holding}}
  BY <1>1, <1>2 DEF SlotInv, Holds
<1>4. \A v, w \in Workers :
        v # w /\ worker[v].pc \in Holding /\ worker[w].pc \in Holding
          => worker[v].job # worker[w].job
  BY <1>1 DEF SlotInv, Holds
<1> QED
  BY <1>3, <1>4 DEF SlotExclusive

LEMMA SlotInit == Init => SlotInv
  BY DEF Init, SlotInv, Holds, Idle, Holding

LEMMA SlotStep == TypeInv /\ SlotInv /\ [Next]_vars => SlotInv'
<1> SUFFICES ASSUME TypeInv, SlotInv, [Next]_vars PROVE SlotInv'
  OBVIOUS
<1>0. worker \in [Workers -> Goroutines] /\ inFlight \subseteq Jobs
  BY DEF TypeInv, TypeOK
<1>1. ASSUME NEW w \in Workers, NEW j \in Jobs, Read(w, j) PROVE SlotInv'
  <2>1. /\ worker[w].pc \notin Holding /\ worker'[w].pc \notin Holding
        /\ \A v \in Workers : v # w => worker'[v] = worker[v]
        /\ inFlight' = inFlight
    BY <1>0, <1>1 DEF Read, Holding
  <2> QED
    BY <2>1 DEF SlotInv, Holds
<1>2. ASSUME NEW w \in Workers, TryAcquire(w) PROVE SlotInv'
  <2>1. worker[w].pc \notin Holding /\ worker[w].job \in Jobs
    BY <1>2 DEF TryAcquire, Holding, TypeInv, Known
  <2>2. CASE worker[w].job \in inFlight
    <3>1. /\ worker'[w].pc \notin Holding
          /\ \A v \in Workers : v # w => worker'[v] = worker[v]
          /\ inFlight' = inFlight
      BY <1>0, <1>2, <2>2 DEF TryAcquire, Idle, Holding
    <3> QED
      BY <2>1, <3>1 DEF SlotInv, Holds
  <2>3. CASE worker[w].job \notin inFlight
    <3>1. /\ Goto(w, "snapshot")
          /\ inFlight' = inFlight \cup {worker[w].job}
      BY <1>2, <2>3 DEF TryAcquire
    <3>2. /\ worker'[w].pc \in Holding /\ worker'[w].job = worker[w].job
          /\ \A v \in Workers : v # w => worker'[v] = worker[v]
      BY <1>0, <3>1, GotoType DEF Holding
    <3> QED
      BY <2>1, <2>3, <3>1, <3>2 DEF SlotInv, Holds
  <2> QED
    BY <2>2, <2>3
<1>3. ASSUME NEW w \in Workers, Release(w) PROVE SlotInv'
  <2>1. /\ worker[w].pc \in Holding /\ worker[w].job \in Jobs
        /\ worker'[w].pc \notin Holding
        /\ \A v \in Workers : v # w => worker'[v] = worker[v]
        /\ inFlight' = inFlight \ {worker[w].job}
    BY <1>0, <1>3 DEF Release, Idle, Holding, TypeInv, Known
  <2> QED
    BY <2>1 DEF SlotInv, Holds
<1>4. ASSUME NEW w \in Workers, Work(w), ~TryAcquire(w), ~Release(w) PROVE SlotInv'
  BY <1>4, Advance DEF SlotInv, Holds
<1>5. CASE Restart
  BY <1>5 DEF Restart, SlotInv, Holds, Idle, Holding
<1>6. CASE UNCHANGED <<worker, inFlight>>
  BY <1>6 DEF SlotInv, Holds
<1> QED
  BY <1>1, <1>2, <1>3, <1>4, <1>5, <1>6, Aside

(* At most one goroutine executes a job, whichever of the tick and the     *)
(* requests started it, and a slot is taken exactly while one does.        *)
THEOREM SlotIsExclusive == Spec => []SlotExclusive
  BY TypeInit, TypeStep, SlotInit, SlotStep, SlotInvImplies, PTL DEF Spec

-----------------------------------------------------------------------------
(* The operations and who waits for them.                                  *)

Waits(w) == worker[w].pc \in {"wait", "rewait"}

(* The operation a goroutine waits for was started for its job, sends its  *)
(* snapshot while it lives, and delivered it if it succeeded.              *)
WaitInv ==
  \A w \in Workers : Waits(w) =>
    /\ worker[w].op \in OpIds
    /\ status[worker[w].op] # "none"
    /\ target[worker[w].op] = worker[w].job
    /\ proc[worker[w].op] = "alive" =>
         /\ pipe[worker[w].op].job = worker[w].job
         /\ pipe[worker[w].op].snap = worker[w].snap
    /\ proc[worker[w].op] = "ok" => worker[w].snap \in reached[worker[w].job]

(* Somebody waits for every operation that runs.                           *)
OwnInv ==
  \A o \in OpIds : status[o] = "running" => \E w \in Workers : Waits(w) /\ worker[w].op = o

LEMMA WaitInit == Init => WaitInv /\ OwnInv
  BY DEF Init, OpsInit, WaitInv, OwnInv, Waits, Idle

(* What a destination has received whole it has received for good, and a   *)
(* process that succeeds delivers what it was sending.                     *)
LEMMA Delivery ==
  ASSUME TypeInv, OpsInv, [Next]_vars
  PROVE  /\ \A j \in Jobs : reached[j] \subseteq reached'[j]
         /\ \A o \in OpIds : status[o] # "none" =>
              /\ proc'[o] = "alive" => pipe'[o] = pipe[o]
              /\ proc[o] = "alive" /\ proc'[o] = "ok" =>
                   pipe[o].job \in Jobs /\ pipe[o].snap \in reached'[pipe[o].job]
<1> DEFINE Goal ==
      /\ \A j \in Jobs : reached[j] \subseteq reached'[j]
      /\ \A o \in OpIds : status[o] # "none" =>
           /\ proc'[o] = "alive" => pipe'[o] = pipe[o]
           /\ proc[o] = "alive" /\ proc'[o] = "ok" =>
                pipe[o].job \in Jobs /\ pipe[o].snap \in reached'[pipe[o].job]
<1>0. /\ reached \in [Jobs -> SUBSET Time] /\ pipe \in [OpIds -> Pipelines]
      /\ proc \in [OpIds -> {"none", "alive"} \cup Exited]
      /\ \A o \in OpIds : pipe[o].sound => pipe[o].job \in Jobs
  BY DEF TypeInv, TypeOK, OpsTypeOK, Known
<1>1. ASSUME NEW o \in OpIds, PipelineSucceeds(o) PROVE Goal
  BY <1>0, <1>1 DEF PipelineSucceeds, CanReceive, Exit
<1>2. ASSUME CutShort, reached' = reached,
             \A o \in OpIds : proc'[o] = proc[o] \/ proc'[o] = "fail"
      PROVE  Goal
  BY <1>0, <1>2 DEF CutShort
<1>3. ASSUME NEW o \in OpIds, PipelineFails(o) PROVE Goal
  BY <1>0, <1>2, <1>3 DEF PipelineFails, Exit
<1>4. ASSUME NEW o \in OpIds, Kill(o) PROVE Goal
  BY <1>0, <1>2, <1>4 DEF Kill, CancelKill
<1>5. CASE Restart
  BY <1>0, <1>2, <1>5 DEF Restart, RestartOps
<1>6. ASSUME NEW w \in Workers, NEW full, NEW next, Launch(w, full, next), reached' = reached
      PROVE  Goal
  <2>1. seq + 1 \in OpIds /\ status[seq + 1] = "none"
    BY <1>6, LongOpsAssumption DEF Launch, Start, OpsInv, OpsTypeOK, Fresh, OpIds
  <2>2. \A o \in OpIds : o # seq + 1 => pipe'[o] = pipe[o] /\ proc'[o] = proc[o]
    BY <1>0, <1>6 DEF Launch, Start
  <2> QED
    BY <1>6, <2>1, <2>2
<1>7. CASE UNCHANGED <<pipe, proc, reached>>
  BY <1>7
<1>8. ASSUME NEW w \in Workers, Work(w) PROVE Goal
  BY <1>6, <1>7, <1>8
  DEF Work, TryAcquire, TakeSnapshot, StartSend, StartFull, WaitOp, WaitFull, DestroyDest,
      DropBookmark, MakeBookmark, Prune, MarkRun, Release, zfsVars, opVars
<1>9. ASSUME NEW o \in OpIds, Registry(o) \/ Purge(o) PROVE Goal
  BY <1>7, <1>9
  DEF Registry, Purge, Watch, CancelFind, CancelRequest, PurgeOp, zfsVars
<1>10. ASSUME NEW w \in Workers, NEW j \in Jobs, Read(w, j) PROVE Goal
  BY <1>7, <1>10 DEF Read, zfsVars, opVars
<1>11. ASSUME NEW j \in Jobs, Patch(j) \/ Delete(j) \/ Diverge(j) PROVE Goal
  BY <1>7, <1>11 DEF Patch, Delete, Diverge, zfsVars, opVars
<1>12. CASE Tick \/ UNCHANGED vars
  BY <1>7, <1>12 DEF Tick, vars, zfsVars, opVars
<1> QED
  BY <1>1, <1>3, <1>4, <1>5, <1>8, <1>9, <1>10, <1>11, <1>12 DEF Next

(* A goroutine that waits has just launched, or was waiting already.       *)
LEMMA WaitOrigin ==
  ASSUME TypeInv, [Next]_vars, NEW w \in Workers, Waits(w)'
  PROVE  \/ Waits(w) /\ worker'[w] = worker[w]
         \/ /\ worker[w].pc \in Holding
            /\ \E full \in BOOLEAN, next \in {"wait", "rewait"} : Launch(w, full, next)
<1>0. worker \in [Workers -> Goroutines]
  BY DEF TypeInv, TypeOK
<1>1. CASE worker'[w] = worker[w]
  BY <1>1 DEF Waits
<1>2. CASE StartSend(w) \/ StartFull(w)
  <2>1. ~Goto(w, "mark")
    BY <1>0, GotoType DEF Waits, Holding
  <2> QED
    BY <1>2, <2>1 DEF StartSend, StartFull, Holding
<1>3. CASE Release(w)
  BY <1>0, <1>3 DEF Release, Idle, Waits
<1>4. CASE TryAcquire(w)
  BY <1>0, <1>4, GotoType DEF TryAcquire, Idle, Waits, Holding
<1>5. CASE TakeSnapshot(w)
  <2>1. CASE Goto(w, "mark")
    BY <1>0, <2>1, GotoType DEF Waits, Holding
  <2>2. CASE worker' = [worker EXCEPT ![w].pc = "send", ![w].snap = now]
    BY <1>0, <2>2 DEF Goroutines, Waits
  <2> QED
    BY <1>5, <2>1, <2>2 DEF TakeSnapshot
<1>6. CASE MakeBookmark(w)
  <2>1. CASE Goto(w, "mark")
    BY <1>0, <2>1, GotoType DEF Waits, Holding
  <2>2. CASE worker' = [worker EXCEPT ![w].pc = "prune", ![w].bookmark = worker[w].snap]
    BY <1>0, <2>2 DEF Goroutines, Waits
  <2> QED
    BY <1>6, <2>1, <2>2 DEF MakeBookmark
<1>7. ASSUME NEW pc \in Holding \ {"wait", "rewait"}, Goto(w, pc) PROVE FALSE
  BY <1>0, <1>7, GotoType DEF Waits
<1>8. CASE WaitOp(w) \/ WaitFull(w) \/ DestroyDest(w) \/ DropBookmark(w) \/ Prune(w) \/ MarkRun(w)
  BY <1>7, <1>8 DEF WaitOp, WaitFull, Verdict, DestroyDest, DropBookmark, Prune, MarkRun, Holding
<1>9. ASSUME NEW j \in Jobs, Read(w, j) PROVE FALSE
  BY <1>0, <1>9 DEF Read, Waits
<1>10. CASE Restart
  BY <1>10 DEF Restart, Idle, Waits
<1>11. ASSUME NEW v \in Workers \ {w}, Work(v) PROVE worker'[w] = worker[w]
  BY <1>0, <1>11, Advance DEF TryAcquire, Release, Goto
<1>12. ASSUME NEW v \in Workers \ {w}, NEW j \in Jobs, Read(v, j) PROVE worker'[w] = worker[w]
  BY <1>0, <1>12 DEF Read
<1> QED
  BY <1>1, <1>2, <1>3, <1>4, <1>5, <1>6, <1>8, <1>9, <1>10, <1>11, <1>12, Aside DEF Work

LEMMA LaunchWaits ==
  ASSUME TypeInv, OpsInv, NEW w \in Workers, NEW full \in BOOLEAN,
         NEW next \in {"wait", "rewait"}, worker[w].pc \in Holding, Launch(w, full, next)
  PROVE  /\ seq + 1 \in OpIds
         /\ status[seq + 1] = "none"
         /\ Waits(w)'
         /\ worker'[w].op = seq + 1
         /\ worker'[w].job = worker[w].job
         /\ worker'[w].snap = worker[w].snap
         /\ status' = [status EXCEPT ![seq + 1] = "running"]
         /\ target'[seq + 1] = worker[w].job
         /\ proc'[seq + 1] = "alive"
         /\ pipe'[seq + 1].job = worker[w].job
         /\ pipe'[seq + 1].snap = worker[w].snap
<1>1. seq + 1 \in OpIds /\ status[seq + 1] = "none"
  BY LongOpsAssumption DEF Launch, Start, OpsInv, OpsTypeOK, Fresh, OpIds
<1>2. /\ worker' = [worker EXCEPT ![w].pc = next, ![w].op = seq + 1]
      /\ worker \in [Workers -> Goroutines]
  BY DEF Launch, TypeInv, TypeOK
<1>3. /\ Waits(w)' /\ worker'[w].op = seq + 1
      /\ worker'[w].job = worker[w].job /\ worker'[w].snap = worker[w].snap
  BY <1>2 DEF Goroutines, Waits
<1>4. /\ status' = [status EXCEPT ![seq + 1] = "running"]
      /\ target'[seq + 1] = worker[w].job
      /\ proc'[seq + 1] = "alive"
  BY <1>1 DEF Launch, Start, OpsInv, OpsTypeOK
<1>5. pipe'[seq + 1].job = worker[w].job /\ pipe'[seq + 1].snap = worker[w].snap
  BY <1>1 DEF Launch, TypeInv, TypeOK
<1> QED
  BY <1>1, <1>3, <1>4, <1>5

LEMMA WaitStep == TypeInv /\ OpsInv /\ WaitInv /\ [Next]_vars => WaitInv'
<1> SUFFICES ASSUME TypeInv, OpsInv, WaitInv, [Next]_vars, NEW w \in Workers, Waits(w)'
             PROVE  /\ worker'[w].op \in OpIds
                    /\ status'[worker'[w].op] # "none"
                    /\ target'[worker'[w].op] = worker'[w].job
                    /\ proc'[worker'[w].op] = "alive" =>
                         /\ pipe'[worker'[w].op].job = worker'[w].job
                         /\ pipe'[worker'[w].op].snap = worker'[w].snap
                    /\ proc'[worker'[w].op] = "ok" => worker'[w].snap \in reached'[worker'[w].job]
  BY DEF WaitInv
<1>1. CASE Waits(w) /\ worker'[w] = worker[w]
  <2> DEFINE o == worker[w].op
  <2>1. /\ o \in OpIds /\ status[o] # "none" /\ target[o] = worker[w].job
        /\ proc[o] = "alive" => pipe[o].job = worker[w].job /\ pipe[o].snap = worker[w].snap
        /\ proc[o] = "ok" => worker[w].snap \in reached[worker[w].job]
    BY <1>1 DEF WaitInv
  <2>2. /\ status'[o] # "none" /\ target'[o] = target[o]
        /\ proc[o] \in Exited => proc'[o] = proc[o]
        /\ proc'[o] = "alive" => proc[o] = "alive"
    BY <2>1, OpsSimulation, OpsHistory
  <2>3. worker[w].job \in Jobs
    BY <1>1 DEF Waits, TypeInv, Known
  <2>4. proc'[o] = "alive" => pipe'[o].job = worker[w].job /\ pipe'[o].snap = worker[w].snap
    BY <2>1, <2>2, Delivery
  <2>5. ASSUME proc'[o] = "ok" PROVE worker[w].snap \in reached'[worker[w].job]
    <3>1. CASE proc[o] = "ok"
      BY <2>1, <2>3, <3>1, Delivery
    <3>2. CASE proc[o] = "alive"
      BY <2>1, <2>5, <3>2, Delivery
    <3>3. proc[o] # "none" /\ proc[o] # "fail"
      <4>1. proc[o] # "fail"
        BY <2>2, <2>5 DEF Exited
      <4>2. proc[o] # "none"
        BY <2>1 DEF OpsInv, Started
      <4> QED
        BY <4>1, <4>2
    <3> QED
      BY <2>1, <3>1, <3>2, <3>3 DEF OpsInv, OpsTypeOK, Exited
  <2> QED
    BY <1>1, <2>1, <2>2, <2>4, <2>5
<1>2. CASE worker[w].pc \in Holding /\ \E full \in BOOLEAN, next \in {"wait", "rewait"} : Launch(w, full, next)
  <2>1. PICK full \in BOOLEAN, next \in {"wait", "rewait"} : Launch(w, full, next)
    BY <1>2
  <2>2. status'[seq + 1] = "running"
    BY <1>2, <2>1, LaunchWaits DEF OpsInv, OpsTypeOK
  <2> QED
    BY <1>2, <2>1, <2>2, LaunchWaits
<1> QED
  BY <1>1, <1>2, WaitOrigin

(* Who waits for an operation that runs goes on waiting.                   *)
LEMMA WaitStays ==
  ASSUME TypeInv, [Next]_vars, ~Restart, NEW w \in Workers, Waits(w),
         status[worker[w].op] = "running"
  PROVE  worker'[w] = worker[w]
<1>0. worker \in [Workers -> Goroutines]
  BY DEF TypeInv, TypeOK
<1>1. ~Work(w)
  BY DEF Work, Waits, Ended, TryAcquire, TakeSnapshot, StartSend, StartFull, WaitOp, WaitFull,
         DestroyDest, DropBookmark, MakeBookmark, Prune, MarkRun, Release
<1>2. ASSUME NEW v \in Workers \ {w}, Work(v) PROVE worker'[w] = worker[w]
  BY <1>0, <1>2, Advance DEF TryAcquire, Release, Goto
<1>3. ASSUME NEW v \in Workers, NEW j \in Jobs, Read(v, j) PROVE worker'[w] = worker[w]
  BY <1>0, <1>3 DEF Read, Waits
<1> QED
  BY <1>1, <1>2, <1>3, Aside

(* Only a goroutine starts an operation.                                   *)
LEMMA RunningOrigin ==
  ASSUME TypeInv, OpsInv, [Next]_vars, NEW o \in OpIds, status'[o] = "running"
  PROVE  \/ status[o] = "running"
         \/ \E w \in Workers, full \in BOOLEAN, next \in {"wait", "rewait"} :
              worker[w].pc \in Holding /\ Launch(w, full, next) /\ o = seq + 1
<1> DEFINE Goal == \/ status[o] = "running"
                   \/ \E w \in Workers, full \in BOOLEAN, next \in {"wait", "rewait"} :
                        worker[w].pc \in Holding /\ Launch(w, full, next) /\ o = seq + 1
<1>0. status \in [OpIds -> Statuses] /\ TypeOK
  BY DEF OpsInv, OpsTypeOK, TypeInv
<1>1. CASE status' = status
  BY <1>1
<1>2. ASSUME NEW w \in Workers, NEW full \in BOOLEAN, NEW next \in {"wait", "rewait"},
             worker[w].pc \in Holding, Launch(w, full, next)
      PROVE  Goal
  <2>1. CASE o = seq + 1
    BY <1>2, <2>1
  <2>2. CASE o # seq + 1
    BY <1>0, <1>2, <2>2, LaunchWaits
  <2> QED
    BY <2>1, <2>2
<1>3. ASSUME NEW w \in Workers, StartSend(w) \/ StartFull(w) PROVE Goal
  BY <1>1, <1>2, <1>3 DEF StartSend, StartFull, Holding, opVars
<1>4. ASSUME NEW w \in Workers, Work(w) PROVE Goal
  BY <1>1, <1>3, <1>4
  DEF Work, TryAcquire, TakeSnapshot, WaitOp, WaitFull, DestroyDest, DropBookmark,
      MakeBookmark, Prune, MarkRun, Release, opVars
<1>5. ASSUME NEW p \in OpIds, PipelineSucceeds(p) \/ PipelineFails(p) \/ Kill(p)
      PROVE  Goal
  BY <1>1, <1>5 DEF PipelineSucceeds, PipelineFails, Kill, Exit, CancelKill
<1>6. ASSUME NEW p \in OpIds, Registry(p) \/ Purge(p) PROVE Goal
  <2>1. CASE Watch(p)
    BY <1>0, <2>1 DEF Watch, FinalStatus
  <2>2. CASE PurgeOp(p)
    BY <1>0, <2>2 DEF PurgeOp
  <2>3. CASE CancelFind(p) \/ CancelRequest(p)
    BY <1>1, <2>3 DEF CancelFind, CancelRequest
  <2> QED
    BY <1>6, <2>1, <2>2, <2>3 DEF Registry, Purge
<1>7. ASSUME NEW w \in Workers, NEW j \in Jobs, Read(w, j) PROVE Goal
  BY <1>1, <1>7 DEF Read, opVars
<1>8. ASSUME NEW j \in Jobs, Patch(j) \/ Delete(j) \/ Diverge(j) PROVE Goal
  BY <1>1, <1>8 DEF Patch, Delete, Diverge, opVars
<1>9. CASE Tick \/ UNCHANGED vars
  BY <1>1, <1>9 DEF Tick, vars, opVars
<1>10. CASE Restart
  BY <1>0, <1>10 DEF Restart, RestartOps
<1> QED
  BY <1>4, <1>5, <1>6, <1>7, <1>8, <1>9, <1>10 DEF Next

LEMMA OwnStep == TypeInv /\ OpsInv /\ OwnInv /\ [Next]_vars => OwnInv'
<1> SUFFICES ASSUME TypeInv, OpsInv, OwnInv, [Next]_vars, NEW o \in OpIds, status'[o] = "running"
             PROVE  \E w \in Workers : Waits(w)' /\ worker'[w].op = o
  BY DEF OwnInv
<1>1. CASE status[o] = "running"
  <2>1. PICK w \in Workers : Waits(w) /\ worker[w].op = o
    BY <1>1 DEF OwnInv
  <2>2. ~Restart
    BY DEF Restart, RestartOps
  <2>3. worker'[w] = worker[w]
    BY <1>1, <2>1, <2>2, WaitStays
  <2> QED
    BY <2>1, <2>3 DEF Waits
<1>2. CASE status[o] # "running"
  BY <1>2, RunningOrigin, LaunchWaits
<1> QED
  BY <1>1, <1>2

(* Two running operations have two goroutines waiting for them, hence two  *)
(* slots, hence two jobs.                                                  *)
LEMMA OnePipeline == TypeInv /\ SlotInv /\ WaitInv /\ OwnInv => OnePipelinePerJob
<1> SUFFICES ASSUME TypeInv, SlotInv, WaitInv, OwnInv, NEW o \in OpIds, NEW p \in OpIds,
                    o # p, status[o] = "running", status[p] = "running", target[o] = target[p]
             PROVE  FALSE
  BY DEF OnePipelinePerJob
<1>1. PICK v \in Workers : Waits(v) /\ worker[v].op = o
  BY DEF OwnInv
<1>2. PICK w \in Workers : Waits(w) /\ worker[w].op = p
  BY DEF OwnInv
<1>3. worker[v].job = worker[w].job /\ worker[v].job \in Jobs
  BY <1>1, <1>2 DEF WaitInv, TypeInv, Known, Waits
<1>4. Holds(v, worker[v].job) /\ Holds(w, worker[v].job)
  BY <1>1, <1>2, <1>3 DEF Waits, Holds, Holding
<1> QED
  BY <1>1, <1>2, <1>3, <1>4 DEF SlotInv

(* No two 'zfs send | zfs recv' run for one job, as far as the daemon      *)
(* knows: what it launched and has not seen end.                           *)
THEOREM OnePipelineAtATime == Spec => []OnePipelinePerJob
<1>1. OpsSpec => []OpsInv
  BY OpsInvariant
<1>2. Spec => []OpsInv
  BY <1>1, OpsBehaviour
<1> QED
  BY <1>2, TypeInit, TypeStep, SlotInit, SlotStep, WaitInit, WaitStep, OwnStep, OnePipeline,
     PTL DEF Spec

-----------------------------------------------------------------------------
(* Nobody waits for what the registry has forgotten.                       *)
KeptInv == \A w \in Workers : Waits(w) => status[worker[w].op] # "gone"

(* Only a restart forgets an operation that somebody waits for.            *)
LEMMA GoneOrigin ==
  ASSUME TypeInv, OpsInv, [Next]_vars, ~Restart, NEW o \in OpIds, status'[o] = "gone"
  PROVE  status[o] = "gone" \/ Purge(o)
<1> DEFINE Goal == status[o] = "gone" \/ Purge(o)
<1>0. status \in [OpIds -> Statuses]
  BY DEF OpsInv, OpsTypeOK
<1>1. CASE status' = status
  BY <1>1
<1>2. ASSUME NEW t \in Targets, Start(t) PROVE Goal
  BY <1>0, <1>2 DEF Start
<1>3. ASSUME NEW w \in Workers, StartSend(w) \/ StartFull(w) PROVE Goal
  <2>1. worker[w].job \in Targets
    BY <1>3, ReplicationAssumption DEF StartSend, StartFull, TypeInv, Known
  <2> QED
    BY <1>1, <1>2, <1>3, <2>1 DEF StartSend, StartFull, Launch, opVars
<1>4. ASSUME NEW w \in Workers, Work(w) PROVE Goal
  BY <1>1, <1>3, <1>4
  DEF Work, TryAcquire, TakeSnapshot, WaitOp, WaitFull, DestroyDest, DropBookmark,
      MakeBookmark, Prune, MarkRun, Release, opVars
<1>5. ASSUME NEW p \in OpIds, PipelineSucceeds(p) \/ PipelineFails(p) \/ Kill(p)
      PROVE  Goal
  BY <1>1, <1>5 DEF PipelineSucceeds, PipelineFails, Kill, Exit, CancelKill
<1>6. ASSUME NEW p \in OpIds, Registry(p) \/ Purge(p) PROVE Goal
  <2>1. CASE Watch(p)
    BY <1>0, <2>1 DEF Watch, FinalStatus
  <2>2. CASE Purge(p)
    BY <1>0, <2>2 DEF Purge, PurgeOp
  <2>3. CASE CancelFind(p) \/ CancelRequest(p)
    BY <1>1, <2>3 DEF CancelFind, CancelRequest
  <2> QED
    BY <1>6, <2>1, <2>2, <2>3 DEF Registry
<1>7. ASSUME NEW w \in Workers, NEW j \in Jobs, Read(w, j) PROVE Goal
  BY <1>1, <1>7 DEF Read, opVars
<1>8. ASSUME NEW j \in Jobs, Patch(j) \/ Delete(j) \/ Diverge(j) PROVE Goal
  BY <1>1, <1>8 DEF Patch, Delete, Diverge, opVars
<1>9. CASE Tick \/ UNCHANGED vars
  BY <1>1, <1>9 DEF Tick, vars, opVars
<1> QED
  BY <1>4, <1>5, <1>6, <1>7, <1>8, <1>9 DEF Next

LEMMA KeptStep == TypeInv /\ OpsInv /\ WaitInv /\ KeptInv /\ [Next]_vars => KeptInv'
<1> SUFFICES ASSUME TypeInv, OpsInv, WaitInv, KeptInv, [Next]_vars,
                    NEW w \in Workers, Waits(w)', status'[worker'[w].op] = "gone"
             PROVE  FALSE
  BY DEF KeptInv
<1>1. CASE Waits(w) /\ worker'[w] = worker[w]
  <2>1. ~Restart
    BY DEF Restart, Idle, Waits
  <2>2. worker[w].op \in OpIds /\ status[worker[w].op] # "gone"
    BY <1>1 DEF WaitInv, KeptInv
  <2>3. Purge(worker[w].op)
    BY <1>1, <2>1, <2>2, GoneOrigin
  <2> QED
    BY <1>1, <2>3 DEF Purge, Waits
<1>2. CASE worker[w].pc \in Holding /\ \E full \in BOOLEAN, next \in {"wait", "rewait"} : Launch(w, full, next)
  <2>1. PICK full \in BOOLEAN, next \in {"wait", "rewait"} : Launch(w, full, next)
    BY <1>2
  <2> QED
    BY <1>2, <2>1, LaunchWaits DEF OpsInv, OpsTypeOK
<1> QED
  BY <1>1, <1>2, WaitOrigin

LEMMA NothingLost == OpsInv /\ WaitInv /\ OwnInv /\ KeptInv => NoLostWait
<1> SUFFICES ASSUME OpsInv, WaitInv, OwnInv, KeptInv PROVE NoLostWait
  OBVIOUS
<1>1. ASSUME NEW w \in Workers, Waits(w)
      PROVE  \E o \in OpIds :
               /\ o = worker[w].op /\ target[o] = worker[w].job
               /\ status[o] \in Ended \/ (status[o] = "running" /\ proc[o] # "none")
  <2>1. /\ worker[w].op \in OpIds /\ target[worker[w].op] = worker[w].job
        /\ status[worker[w].op] \notin {"none", "gone"}
    BY <1>1 DEF WaitInv, KeptInv
  <2>2. status[worker[w].op] \in Ended \cup {"running"} /\ proc[worker[w].op] # "none"
    BY <2>1 DEF OpsInv, OpsTypeOK, Statuses, Started
  <2> QED
    BY <2>1, <2>2
<1> QED
  BY <1>1 DEF NoLostWait, OwnInv, Waits

(* However runs fail, are canceled or cut by a restart, waitOp never polls *)
(* for an operation that is no longer there, no operation runs on with     *)
(* nobody to record how it ended, and no two run for one job.              *)
THEOREM RunsMatchRegistry == Spec => []RegistryMatchesRuns
<1>1. OpsSpec => []OpsInv
  BY OpsInvariant
<1>2. Spec => []OpsInv
  BY <1>1, OpsBehaviour
<1>3. Init => KeptInv
  BY DEF Init, Idle, KeptInv, Waits
<1>4. Spec => []NoLostWait
  BY <1>2, <1>3, TypeInit, TypeStep, WaitInit, WaitStep, OwnStep, KeptStep, NothingLost,
     PTL DEF Spec
<1> QED
  BY <1>4, OnePipelineAtATime, PTL DEF RegistryMatchesRuns

-----------------------------------------------------------------------------
(* The bookmarks.                                                          *)

(* After a success the goroutine's snapshot is at the destination, and a   *)
(* goroutine's copy of last_bookmark is of a snapshot that is.             *)
SentInv ==
  \A w \in Workers :
    worker[w].pc \in {"unbookmark", "bookmark", "prune"}
      => worker[w].snap \in reached[worker[w].job]

CopyInv ==
  \A w \in Workers :
    worker[w].pc # "idle" /\ worker[w].bookmark # 0
      => worker[w].bookmark \in reached[worker[w].job]

ReachedInv == SentInv /\ CopyInv /\ BookmarkReached

LEMMA ReachedInit == Init => ReachedInv
<1> SUFFICES ASSUME Init PROVE ReachedInv
  OBVIOUS
<1>1. \A j \in Jobs : job[j].bookmark = 0
  BY DEF Init
<1> QED
  BY <1>1 DEF Init, ReachedInv, SentInv, CopyInv, BookmarkReached, Idle

(* A step that adds to what was received, and that lets no goroutine       *)
(* forget what it was doing, keeps ReachedInv when tables do not change.   *)
LEMMA ReachedFrame ==
  ASSUME TypeInv, ReachedInv, \A j \in Jobs : reached[j] \subseteq reached'[j],
         UNCHANGED worker, UNCHANGED bm,
         \A j \in Jobs : job'[j].bookmark = job[j].bookmark
  PROVE  ReachedInv'
<1>1. \A w \in Workers : worker[w].pc # "idle" => worker[w].job \in Jobs
  BY DEF TypeInv, Known
<1>2. SentInv' /\ CopyInv'
  BY <1>1 DEF ReachedInv, SentInv, CopyInv
<1>3. BookmarkReached'
  BY DEF ReachedInv, BookmarkReached
<1> QED
  BY <1>2, <1>3 DEF ReachedInv

(* A goroutine that moves on to where nothing is claimed keeps it too.     *)
LEMMA ReachedGoto ==
  ASSUME TypeInv, ReachedInv, NEW w \in Workers, NEW pc \in Holding, Goto(w, pc),
         worker[w].pc # "idle", UNCHANGED reached,
         pc \in {"unbookmark", "bookmark", "prune"} => worker[w].snap \in reached[worker[w].job]
  PROVE  SentInv' /\ CopyInv'
<1>1. worker \in [Workers -> Goroutines]
  BY DEF TypeInv, TypeOK
<1>2. /\ worker'[w].pc = pc
      /\ \A v \in Workers : /\ v # w => worker'[v] = worker[v]
                            /\ worker'[v].job = worker[v].job
                            /\ worker'[v].snap = worker[v].snap
                            /\ worker'[v].bookmark = worker[v].bookmark
  BY <1>1, GotoType
<1>3. SentInv'
  BY <1>2 DEF ReachedInv, SentInv
<1>4. CopyInv'
  BY <1>2 DEF ReachedInv, CopyInv
<1> QED
  BY <1>3, <1>4

LEMMA ReachedWork ==
  ASSUME TypeInv, OpsInv, WaitInv, ReachedInv, NEW w \in Workers, Work(w)
  PROVE  ReachedInv'
<1>0. worker \in [Workers -> Goroutines] /\ reached' = reached
  BY DEF TypeInv, TypeOK, Work, TryAcquire, TakeSnapshot, StartSend, StartFull, WaitOp, WaitFull,
         DestroyDest, DropBookmark, MakeBookmark, Prune, MarkRun, Release, zfsVars
<1>a. ASSUME UNCHANGED <<job, bm>> PROVE BookmarkReached'
  BY <1>0, <1>a DEF ReachedInv, BookmarkReached
<1>b. ASSUME NEW pc \in Holding \ {"unbookmark", "bookmark", "prune"}, Goto(w, pc),
             worker[w].pc # "idle"
      PROVE  SentInv' /\ CopyInv'
  BY <1>0, <1>b, ReachedGoto
<1>c. ASSUME worker' = [worker EXCEPT ![w] = Idle] PROVE SentInv' /\ CopyInv'
  BY <1>0, <1>c DEF Idle, ReachedInv, SentInv, CopyInv
<1>1. CASE TryAcquire(w)
  BY <1>1, <1>a, <1>b, <1>c DEF TryAcquire, Holding, zfsVars, ReachedInv
<1>2. CASE TakeSnapshot(w)
  <2>1. CASE Goto(w, "mark")
    BY <1>2, <2>1, <1>a, <1>b DEF TakeSnapshot, Holding, ReachedInv
  <2>2. CASE worker' = [worker EXCEPT ![w].pc = "send", ![w].snap = now]
    <3>1. /\ worker'[w].pc = "send" /\ worker'[w].job = worker[w].job
          /\ worker'[w].bookmark = worker[w].bookmark
          /\ \A v \in Workers : v # w => worker'[v] = worker[v]
      BY <1>0, <2>2 DEF Goroutines
    <3>2. SentInv' /\ CopyInv'
      BY <1>0, <1>2, <3>1 DEF TakeSnapshot, ReachedInv, SentInv, CopyInv
    <3> QED
      BY <1>2, <1>a, <3>2 DEF TakeSnapshot, ReachedInv
  <2> QED
    BY <1>2, <2>1, <2>2 DEF TakeSnapshot
<1>3. CASE StartSend(w) \/ StartFull(w)
  <2>1. CASE Goto(w, "mark")
    BY <1>3, <2>1, <1>a, <1>b DEF StartSend, StartFull, Holding, ReachedInv, zfsVars
  <2>2. ASSUME NEW full, NEW next \in {"wait", "rewait"}, Launch(w, full, next)
        PROVE  SentInv' /\ CopyInv'
    <3>1. worker' = [worker EXCEPT ![w].pc = next, ![w].op = seq + 1]
      BY <2>2 DEF Launch
    <3>2. /\ worker'[w].pc = next /\ worker'[w].job = worker[w].job
          /\ worker'[w].bookmark = worker[w].bookmark
          /\ \A v \in Workers : v # w => worker'[v] = worker[v]
      BY <1>0, <3>1 DEF Goroutines
    <3> QED
      BY <1>0, <1>3, <3>2 DEF StartSend, StartFull, ReachedInv, SentInv, CopyInv
  <2> QED
    BY <1>3, <1>a, <2>1, <2>2 DEF StartSend, StartFull, ReachedInv, zfsVars
<1>4. CASE WaitOp(w) \/ WaitFull(w)
  <2>1. PICK pc \in Holding : Goto(w, pc) /\ (pc = "unbookmark" <=> status[worker[w].op] = "done")
                             /\ pc \notin {"bookmark", "prune"}
    BY <1>4 DEF WaitOp, WaitFull, Verdict, Holding
  <2>2. status[worker[w].op] = "done" => worker[w].snap \in reached[worker[w].job]
    <3>1. Waits(w)
      BY <1>4 DEF WaitOp, WaitFull, Waits
    <3> QED
      BY <3>1 DEF WaitInv, OpsInv, TruthfulStatus
  <2> QED
    BY <1>0, <1>4, <1>a, <2>1, <2>2, ReachedGoto DEF WaitOp, WaitFull, zfsVars, ReachedInv
<1>5. CASE DestroyDest(w)
  BY <1>5, <1>a, <1>b DEF DestroyDest, Holding, ReachedInv
<1>6. CASE DropBookmark(w)
  <2>1. SentInv' /\ CopyInv'
    BY <1>0, <1>6, ReachedGoto DEF DropBookmark, Holding, ReachedInv, SentInv
  <2>2. \A s \in Sources : bm'[s] \in {0, bm[s]}
    BY <1>6 DEF DropBookmark, TypeInv, TypeOK
  <2>3. BookmarkReached'
    BY <1>0, <1>6, <2>2 DEF DropBookmark, ReachedInv, BookmarkReached
  <2> QED
    BY <2>1, <2>3 DEF ReachedInv
<1>7. CASE MakeBookmark(w)
  <2>1. CASE Goto(w, "mark") /\ UNCHANGED bm
    BY <1>7, <2>1, <1>a, <1>b DEF MakeBookmark, Holding, ReachedInv
  <2>3. CASE Goto(w, "mark") /\ bm' = [bm EXCEPT ![Source(w)] = worker[w].snap]
    <3>1. worker[w].snap \in reached[worker[w].job] /\ worker[w].job \in Jobs
      BY <1>7 DEF MakeBookmark, ReachedInv, SentInv, TypeInv, Known
    <3>2. SentInv' /\ CopyInv'
      BY <1>7, <2>3, <1>b DEF MakeBookmark, Holding
    <3>3. BookmarkReached'
      BY <1>0, <1>7, <2>3, <3>1
      DEF MakeBookmark, Source, ReachedInv, BookmarkReached, TypeInv, TypeOK
    <3> QED
      BY <3>2, <3>3 DEF ReachedInv
  <2>2. CASE /\ bm' = [bm EXCEPT ![Source(w)] = worker[w].snap]
             /\ worker' = [worker EXCEPT ![w].pc = "prune", ![w].bookmark = worker[w].snap]
    <3>1. worker[w].snap \in reached[worker[w].job] /\ worker[w].job \in Jobs
      BY <1>7 DEF MakeBookmark, ReachedInv, SentInv, TypeInv, Known
    <3>2. /\ worker'[w].pc = "prune" /\ worker'[w].job = worker[w].job
          /\ worker'[w].bookmark = worker[w].snap /\ worker'[w].snap = worker[w].snap
          /\ \A v \in Workers : v # w => worker'[v] = worker[v]
      BY <1>0, <2>2 DEF Goroutines
    <3>3. SentInv' /\ CopyInv'
      BY <1>0, <3>1, <3>2 DEF ReachedInv, SentInv, CopyInv
    <3>4. BookmarkReached'
      BY <1>0, <1>7, <2>2, <3>1
      DEF MakeBookmark, Source, ReachedInv, BookmarkReached, TypeInv, TypeOK
    <3> QED
      BY <3>3, <3>4 DEF ReachedInv
  <2> QED
    BY <1>7, <2>1, <2>2, <2>3 DEF MakeBookmark
<1>8. CASE Prune(w)
  BY <1>8, <1>a, <1>b DEF Prune, Holding, ReachedInv
<1>9. CASE MarkRun(w)
  <2>1. SentInv' /\ CopyInv'
    BY <1>9, <1>b DEF MarkRun, Holding
  <2>2. worker[w].bookmark # 0 => worker[w].bookmark \in reached[worker[w].job]
    BY <1>9 DEF MarkRun, ReachedInv, CopyInv
  <2>3. \A j \in Jobs :
          \/ job'[j].bookmark = job[j].bookmark
          \/ j = worker[w].job /\ job'[j].bookmark = worker[w].bookmark
    <3>1. job \in [Jobs -> Rows]
      BY DEF TypeInv, TypeOK
    <3>2. CASE UNCHANGED job
      BY <3>1, <3>2 DEF Rows
    <3>3. CASE job' = [job EXCEPT ![worker[w].job].bookmark = worker[w].bookmark]
      BY <3>1, <3>3 DEF Rows
    <3> QED
      BY <1>9, <3>2, <3>3 DEF MarkRun
  <2>4. BookmarkReached'
    BY <1>0, <1>9, <2>2, <2>3 DEF MarkRun, zfsVars, ReachedInv, BookmarkReached
  <2> QED
    BY <2>1, <2>4 DEF ReachedInv
<1>10. CASE Release(w)
  BY <1>10, <1>a, <1>c DEF Release, zfsVars, ReachedInv
<1> QED
  BY <1>1, <1>2, <1>3, <1>4, <1>5, <1>6, <1>7, <1>8, <1>9, <1>10 DEF Work

LEMMA ReachedStep == TypeInv /\ OpsInv /\ WaitInv /\ ReachedInv /\ [Next]_vars => ReachedInv'
<1> SUFFICES ASSUME TypeInv, OpsInv, WaitInv, ReachedInv, [Next]_vars PROVE ReachedInv'
  OBVIOUS
<1>0. /\ worker \in [Workers -> Goroutines] /\ job \in [Jobs -> Rows]
      /\ \A j \in Jobs : reached[j] \subseteq reached'[j]
  BY Delivery DEF TypeInv, TypeOK
<1>1. ASSUME NEW w \in Workers, NEW j \in Jobs, Read(w, j) PROVE ReachedInv'
  <2>1. /\ worker'[w].pc = "read" /\ worker'[w].job = j
        /\ worker'[w].bookmark = job[j].bookmark
        /\ \A v \in Workers : v # w => worker'[v] = worker[v]
    BY <1>0, <1>1 DEF Read
  <2>2. SentInv' /\ CopyInv'
    BY <1>1, <2>1 DEF Read, zfsVars, ReachedInv, SentInv, CopyInv, BookmarkReached
  <2>3. BookmarkReached'
    BY <1>1 DEF Read, zfsVars, ReachedInv, BookmarkReached
  <2> QED
    BY <2>2, <2>3 DEF ReachedInv
<1>2. ASSUME NEW w \in Workers, Work(w) PROVE ReachedInv'
  BY <1>2, ReachedWork
<1>3. CASE Restart
  <2>1. SentInv' /\ CopyInv'
    BY <1>3 DEF Restart, Idle, SentInv, CopyInv
  <2>2. BookmarkReached'
    BY <1>3 DEF Restart, ReachedInv, BookmarkReached
  <2> QED
    BY <2>1, <2>2 DEF ReachedInv
<1>4. ASSUME NEW j \in Jobs, Patch(j) \/ Delete(j) PROVE ReachedInv'
  <2>1. \A i \in Jobs : job'[i].bookmark = job[i].bookmark
    BY <1>0, <1>4 DEF Patch, Delete, Rows
  <2> QED
    BY <1>0, <1>4, <2>1, ReachedFrame DEF Patch, Delete, zfsVars
<1>5. CASE UNCHANGED <<worker, bm, job>>
  BY <1>0, <1>5, ReachedFrame
<1>6. ASSUME NEW o \in OpIds,
             PipelineSucceeds(o) \/ PipelineFails(o) \/ Registry(o) \/ Kill(o) \/ Purge(o)
      PROVE  ReachedInv'
  BY <1>5, <1>6 DEF PipelineSucceeds, PipelineFails, Registry, Kill, Purge, zfsVars
<1>7. ASSUME NEW j \in Jobs, Diverge(j) PROVE ReachedInv'
  BY <1>5, <1>7 DEF Diverge
<1>8. CASE Tick \/ UNCHANGED vars
  BY <1>5, <1>8 DEF Tick, vars, zfsVars
<1> QED
  BY <1>1, <1>2, <1>3, <1>4, <1>6, <1>7, <1>8 DEF Next

(* Whatever fails, is canceled or restarted, the bookmark a job goes on    *)
(* from is one its destination has received whole.                         *)
THEOREM BookmarksReached == Spec => []BookmarkReached
<1>1. Spec => []OpsInv
  BY OpsInvariant, OpsBehaviour
<1>2. ReachedInv => BookmarkReached
  BY DEF ReachedInv
<1> QED
  BY <1>1, <1>2, TypeInit, TypeStep, WaitInit, WaitStep, ReachedInit, ReachedStep, PTL DEF Spec

-----------------------------------------------------------------------------
(* The destinations.                                                       *)

(* A goroutine about to destroy its destination has force_full, a bookmark *)
(* to send from, and an increment that failed and that nobody canceled.    *)
DestroyInv ==
  \A w \in Workers : worker[w].pc = "destroy" =>
    /\ worker[w].force
    /\ worker[w].bookmark # 0
    /\ worker[w].op \in OpIds
    /\ status[worker[w].op] \in {"error", "gone"}
    /\ proc[worker[w].op] = "fail"
    /\ worker[w].op \notin requested

LEMMA DestroyInit == Init => DestroyInv
  BY DEF Init, DestroyInv, Idle

(* It gets there from waiting for the increment, and stays there only      *)
(* while it does nothing.                                                  *)
LEMMA DestroyOrigin ==
  ASSUME TypeInv, [Next]_vars, NEW w \in Workers, worker'[w].pc = "destroy"
  PROVE  \/ worker'[w] = worker[w]
         \/ /\ WaitOp(w) /\ Goto(w, "destroy")
            /\ status[worker[w].op] = "error" /\ worker[w].bookmark # 0 /\ worker[w].force
<1>0. worker \in [Workers -> Goroutines]
  BY DEF TypeInv, TypeOK
<1>a. ASSUME NEW pc \in Holding \ {"destroy"}, Goto(w, pc) PROVE FALSE
  BY <1>0, <1>a, GotoType
<1>b. worker' # [worker EXCEPT ![w] = Idle]
  BY <1>0 DEF Idle
<1>1. CASE WaitOp(w)
  <2>1. /\ status[worker[w].op] # "done"
        /\ status[worker[w].op] = "error" /\ worker[w].bookmark # 0 /\ worker[w].force
    BY <1>1, <1>a DEF WaitOp, Verdict, Holding
  <2> QED
    BY <1>1, <2>1 DEF WaitOp, Verdict
<1>2. ASSUME NEW pc \in Holding \ {"destroy"}, NEW n,
             \/ worker' = [worker EXCEPT ![w].pc = pc, ![w].op = n]
             \/ worker' = [worker EXCEPT ![w].pc = pc, ![w].snap = n]
             \/ worker' = [worker EXCEPT ![w].pc = pc, ![w].bookmark = n]
      PROVE  FALSE
  BY <1>0, <1>2 DEF Goroutines
<1>3. ~StartSend(w) /\ ~StartFull(w)
  BY <1>a, <1>2 DEF StartSend, StartFull, Launch, Holding
<1>4. ~TakeSnapshot(w) /\ ~MakeBookmark(w)
  BY <1>a, <1>2 DEF TakeSnapshot, MakeBookmark, Holding
<1>5. ~TryAcquire(w) /\ ~Release(w)
  BY <1>a, <1>b DEF TryAcquire, Release, Holding
<1>6. ~WaitFull(w) /\ ~DestroyDest(w) /\ ~DropBookmark(w) /\ ~Prune(w) /\ ~MarkRun(w)
  BY <1>a DEF WaitFull, DestroyDest, DropBookmark, Prune, MarkRun, Holding
<1>7. ASSUME NEW v \in Workers \ {w}, Work(v) PROVE worker'[w] = worker[w]
  BY <1>0, <1>7, Advance DEF TryAcquire, Release, Goto
<1>8. ASSUME NEW v \in Workers, NEW j \in Jobs, Read(v, j) PROVE worker'[w] = worker[w]
  BY <1>0, <1>8 DEF Read
<1>9. ~Restart
  BY DEF Restart, Idle
<1> QED
  BY <1>1, <1>3, <1>4, <1>5, <1>6, <1>7, <1>8, <1>9, Aside DEF Work

LEMMA DestroyStep ==
  TypeInv /\ OpsInv /\ WaitInv /\ DestroyInv /\ [Next]_vars => DestroyInv'
<1> SUFFICES ASSUME TypeInv, OpsInv, WaitInv, DestroyInv, [Next]_vars,
                    NEW w \in Workers, worker'[w].pc = "destroy"
             PROVE  /\ worker'[w].force
                    /\ worker'[w].bookmark # 0
                    /\ worker'[w].op \in OpIds
                    /\ status'[worker'[w].op] \in {"error", "gone"}
                    /\ proc'[worker'[w].op] = "fail"
                    /\ worker'[w].op \notin requested'
  BY DEF DestroyInv
<1>1. CASE worker'[w] = worker[w]
  <2>1. /\ worker[w].force /\ worker[w].bookmark # 0 /\ worker[w].op \in OpIds
        /\ status[worker[w].op] \in {"error", "gone"} /\ proc[worker[w].op] = "fail"
        /\ worker[w].op \notin requested
    BY <1>1 DEF DestroyInv
  <2> QED
    BY <1>1, <2>1, OpsSimulation, OpsHistory DEF Exited
<1>2. CASE /\ WaitOp(w) /\ Goto(w, "destroy")
           /\ status[worker[w].op] = "error" /\ worker[w].bookmark # 0 /\ worker[w].force
  <2>1. worker[w].op \in OpIds
    BY <1>2 DEF WaitOp, Waits, WaitInv
  <2>2. proc[worker[w].op] = "fail" /\ worker[w].op \notin requested
    BY <1>2, <2>1 DEF OpsInv, TruthfulStatus
  <2>3. /\ worker'[w].force = worker[w].force /\ worker'[w].bookmark = worker[w].bookmark
        /\ worker'[w].op = worker[w].op
    BY <1>2, GotoType DEF TypeInv, TypeOK, Holding
  <2>4. UNCHANGED <<status, proc, requested>>
    BY <1>2 DEF WaitOp, opVars
  <2> QED
    BY <1>2, <2>1, <2>2, <2>3, <2>4
<1> QED
  BY <1>1, <1>2, DestroyOrigin

(* No step but DestroyDest makes a destination disappear.                  *)
LEMMA DestroyedBy ==
  ASSUME TypeInv, [Next]_vars, NEW j \in Jobs, dest[j].exists, ~dest'[j].exists
  PROVE  \E w \in Workers : DestroyDest(w) /\ worker[w].job = j /\ ~Receiving(j)
<1>0. dest \in [Jobs -> Destinations]
  BY DEF TypeInv, TypeOK
<1>1. dest' # dest
  OBVIOUS
<1>2. ~CutShort
  <2>1. SUFFICES ASSUME CutShort PROVE FALSE
    OBVIOUS
  <2>2. PICK torn :
          dest' = [i \in Jobs |->
                    IF i \in torn THEN [dest[i] EXCEPT !.exists = TRUE, !.stuck = TRUE]
                                  ELSE dest[i]]
    BY <2>1 DEF CutShort
  <2>3. \A d \in Destinations : [d EXCEPT !.exists = TRUE, !.stuck = TRUE].exists
    BY DEF Destinations
  <2>4. CASE j \in torn
    BY <1>0, <2>2, <2>3, <2>4
  <2>5. CASE j \notin torn
    BY <2>2, <2>5
  <2> QED
    BY <2>4, <2>5
<1>3. ASSUME NEW o \in OpIds PROVE ~PipelineSucceeds(o)
  BY <1>0 DEF PipelineSucceeds
<1>4. ASSUME NEW i \in Jobs PROVE ~Diverge(i)
  BY <1>0 DEF Diverge, Destinations
<1>5. ASSUME NEW w \in Workers, DestroyDest(w) PROVE worker[w].job = j /\ ~Receiving(j)
  BY <1>0, <1>1, <1>5 DEF DestroyDest
<1>6. ASSUME NEW w \in Workers, Work(w) PROVE DestroyDest(w)
  BY <1>1, <1>6
  DEF Work, TryAcquire, TakeSnapshot, StartSend, StartFull, WaitOp, WaitFull, DropBookmark,
      MakeBookmark, Prune, MarkRun, Release, zfsVars
<1>7. \E w \in Workers : Work(w)
  BY <1>1, <1>2, <1>3, <1>4
  DEF Next, Read, PipelineFails, Registry, Kill, Purge, Patch, Delete, Tick, Restart, vars, zfsVars
<1> QED
  BY <1>5, <1>6, <1>7

(* A destination is destroyed only by a run read with force_full set,      *)
(* whose increment failed by itself, and never while a receive is writing  *)
(* to it.                                                                  *)
THEOREM DestroyOnlyOnFailure == Spec => DestroyedOnlyOnFailure
<1> DEFINE Only ==
      \A j \in Jobs :
        dest[j].exists /\ ~dest'[j].exists =>
          /\ ~Receiving(j)
          /\ \E w \in Workers :
               LET v == worker[w] IN
               /\ v.pc = "destroy" /\ v.job = j /\ v.force
               /\ v.bookmark # 0 /\ proc[v.op] = "fail" /\ v.op \notin requested
<1>1. Spec => []OpsInv
  BY OpsInvariant, OpsBehaviour
<1>2. TypeInv /\ DestroyInv /\ [Next]_vars => [Only]_vars
  BY DestroyedBy DEF DestroyInv, DestroyDest
<1> QED
  BY <1>1, <1>2, TypeInit, TypeStep, WaitInit, WaitStep, DestroyInit, DestroyStep,
     PTL DEF Spec, DestroyedOnlyOnFailure
=============================================================================
