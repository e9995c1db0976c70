---------------------------- MODULE Replication ----------------------------
(***************************************************************************)
(* Replication jobs: internal/replication.  The 30 s tick and the "run     *)
(* now" handler each read a job from the database and try to take the      *)
(* job's slot; whoever takes it executes the run: snapshot the source,     *)
(* send it (from the bookmark when the job has one) through a long         *)
(* operation, poll that operation, and after a success move the bookmark   *)
(* and prune old snapshots; then record the run and free the slot.         *)
(*                                                                         *)
(* ZFS itself is outside the repository: snaps, bm and dest say what the   *)
(* commands this code issues do to it.  A snapshot is named by the second  *)
(* it was taken in.                                                        *)
(*                                                                         *)
(* Abstracted: schedules (a job may be due at any time, and a disabled one *)
(* may be run by hand), SSH, raw sends, the history rows and SSE events,   *)
(* the wording of errors, last_run/last_ok/last_error.                     *)
(***************************************************************************)
EXTENDS LongOps, FiniteSets

CONSTANTS
  Jobs,        \* replication_jobs
  Sources,     \* source datasets
  SourceOf,    \* the source of each job; each job has its own destination
  Workers,     \* goroutines: requests and ticks that got as far as a job
  MaxTime,     \* bound: seconds
  MaxRuns,     \* bound: jobs read in order to run them
  Events       \* what may happen around the runs in this instance

EventKinds ==
  {"command",   \* an external command fails, times out or cannot be launched
   "transfer",  \* a send|recv that could work breaks
   "cancel",    \* POST /api/longops/{id}/cancel
   "diverge",   \* somebody changes the destination
   "restart",   \* the daemon dies and starts again
   "db",        \* the final UPDATE fails
   "patch",     \* PATCH force_full
   "delete",    \* DELETE of a job
   "purge"}     \* the operations that ended are listed an hour later

ASSUME ReplicationAssumption ==
  /\ SourceOf \in [Jobs -> Sources]
  /\ MaxTime \in Nat \ {0}
  /\ MaxRuns \in Nat
  /\ Jobs \subseteq Targets
  /\ MaxOps >= 2 * MaxRuns
  /\ Events \subseteq EventKinds
  /\ NoTarget \notin Jobs

VARIABLES
  job,         \* the table: row present, force_full, last_bookmark (0 = "")
  inFlight,    \* Runner.inFlight: the taken slots
  worker,      \* each goroutine's progress and its copy of the job
  runs,        \* jobs read so far
  now,         \* the clock
  snaps,       \* ezrepl-* snapshots of each source
  bm,          \* what <source>#ezrepl-last points to, 0 when it is missing
  dest,        \* each job's destination dataset
  reached,     \* history: snapshots each destination has received whole
  pipe         \* what the process behind each operation sends

zfsVars == <<now, snaps, bm, dest, reached>>
vars == <<job, inFlight, worker, runs, zfsVars, pipe, opVars>>

Time == 1 .. MaxTime
Idle == [pc |-> "idle", job |-> NoTarget, bookmark |-> 0,
         force |-> FALSE, snap |-> 0, op |-> 0]
NoPipe == [job |-> NoTarget, full |-> FALSE, from |-> 0,
           snap |-> 0, sound |-> FALSE]
Absent == [exists |-> FALSE, head |-> 0, stuck |-> FALSE]

Holding == {"snapshot", "send", "wait", "destroy", "resend", "rewait",
            "unbookmark", "bookmark", "prune", "mark", "release"}

Seconds == 0 .. MaxTime
Rows == [exists : BOOLEAN, force : BOOLEAN, bookmark : Seconds]
Goroutines == [pc : {"idle", "read"} \cup Holding, job : Jobs \cup {NoTarget},
               bookmark : Seconds, force : BOOLEAN, snap : Seconds, op : 0 .. MaxOps]
Destinations == [exists : BOOLEAN, head : Seconds, stuck : BOOLEAN]
Pipelines == [job : Jobs \cup {NoTarget}, full : BOOLEAN, from : Seconds,
              snap : Seconds, sound : BOOLEAN]

TypeOK ==
  /\ job \in [Jobs -> Rows]
  /\ inFlight \in SUBSET Jobs
  /\ worker \in [Workers -> Goroutines]
  /\ runs \in 0 .. MaxRuns
  /\ now \in Time
  /\ snaps \in [Sources -> SUBSET Time]
  /\ bm \in [Sources -> Seconds]
  /\ dest \in [Jobs -> Destinations]
  /\ reached \in [Jobs -> SUBSET Time]
  /\ pipe \in [OpIds -> Pipelines]
  /\ OpsTypeOK

Init ==
  /\ job \in [Jobs -> {r \in Rows : r.exists /\ r.bookmark = 0}]
  /\ inFlight = {}
  /\ worker = [w \in Workers |-> Idle]
  /\ runs = 0
  /\ now = 1
  /\ snaps = [s \in Sources |-> {}]
  /\ bm = [s \in Sources |-> 0]
  /\ dest = [j \in Jobs |-> Absent]
  /\ reached = [j \in Jobs |-> {}]
  /\ pipe = [o \in OpIds |-> NoPipe]
  /\ OpsInit

Source(w) == SourceOf[worker[w].job]
Goto(w, pc) == worker' = [worker EXCEPT ![w].pc = pc]
May(event) == event \in Events

-----------------------------------------------------------------------------
(* RunNow's Get, or check's List: the goroutine now holds a copy.          *)
Read(w, j) ==
  /\ worker[w].pc = "idle"
  /\ job[j].exists
  /\ runs < MaxRuns
  /\ runs' = runs + 1
  /\ worker' = [worker EXCEPT ![w] =
       [pc |-> "read", job |-> j, bookmark |-> job[j].bookmark, force |-> job[j].force,
        snap |-> 0, op |-> 0]]
  /\ UNCHANGED <<job, inFlight, zfsVars, pipe, opVars>>

(* TryAcquire; on FALSE the request answers 409 and the tick moves on.     *)
AcquireUnchecked(w) ==
  /\ worker[w].pc = "read"
  /\ inFlight' = inFlight \cup {worker[w].job}
  /\ Goto(w, "snapshot")
  /\ UNCHANGED <<job, runs, zfsVars, pipe, opVars>>

AcquireDefersFirst(w) ==
  /\ worker[w].pc = "read"
  /\ IF worker[w].job \in inFlight
       THEN /\ worker' = [worker EXCEPT ![w] = Idle]
            /\ inFlight' = inFlight \ {worker[w].job}
       ELSE /\ inFlight' = inFlight \cup {worker[w].job}
            /\ Goto(w, "snapshot")
  /\ UNCHANGED <<job, runs, zfsVars, pipe, opVars>>

TryAcquire(w) ==
  /\ worker[w].pc = "read"
  /\ IF worker[w].job \in inFlight
       THEN /\ worker' = [worker EXCEPT ![w] = Idle]
            /\ UNCHANGED inFlight
       ELSE /\ inFlight' = inFlight \cup {worker[w].job}
            /\ Goto(w, "snapshot")
  /\ UNCHANGED <<job, runs, zfsVars, pipe, opVars>>

(* 'zfs snapshot': refused when a snapshot of this second already exists.  *)
(* Here and below, a command that exceeds its timeout is reported as an    *)
(* error although it may have done its work.                               *)
SnapshotRoundsUp(w) ==
  /\ worker[w].pc = "snapshot"
  /\ snaps' = [snaps EXCEPT ![Source(w)] = @ \cup {now}]
  /\ worker' = [worker EXCEPT ![w].pc = "send", ![w].snap = now + 1]
  /\ UNCHANGED <<job, inFlight, runs, now, bm, dest, reached, pipe, opVars>>

TakeSnapshot(w) ==
  /\ worker[w].pc = "snapshot"
  /\ \/ /\ now \notin snaps[Source(w)]
        /\ snaps' = [snaps EXCEPT ![Source(w)] = @ \cup {now}]
        /\ \/ worker' = [worker EXCEPT ![w].pc = "send", ![w].snap = now]
           \/ May("command") /\ Goto(w, "mark")
     \/ /\ now \in snaps[Source(w)] \/ May("command")
        /\ Goto(w, "mark")
        /\ UNCHANGED snaps
  /\ UNCHANGED <<job, inFlight, runs, now, bm, dest, reached, pipe, opVars>>

(* The pipeline starts: zfs send opens the snapshot and, for an increment, *)
(* the bookmark as it is at that moment.                                   *)
Launch(w, full, next) ==
  /\ Start(worker[w].job)
  /\ worker' = [worker EXCEPT ![w].pc = next, ![w].op = seq + 1]
  /\ LET s == Source(w) IN
     pipe' = [pipe EXCEPT ![seq + 1] =
       [job |-> worker[w].job, full |-> full, snap |-> worker[w].snap,
        from |-> IF full THEN 0 ELSE bm[s],
        sound |-> /\ worker[w].snap \in snaps[s]
                  /\ full \/ (bm[s] # 0 /\ bm[s] < worker[w].snap)]]

StartSend(w) ==
  /\ worker[w].pc = "send"
  /\ \/ Launch(w, worker[w].bookmark = 0, "wait")
     \/ May("command") /\ Goto(w, "mark") /\ UNCHANGED <<pipe, opVars>>
  /\ UNCHANGED <<job, inFlight, runs, zfsVars>>

StartFull(w) ==
  /\ worker[w].pc = "resend"
  /\ \/ Launch(w, TRUE, "rewait")
     \/ May("command") /\ Goto(w, "mark") /\ UNCHANGED <<pipe, opVars>>
  /\ UNCHANGED <<job, inFlight, runs, zfsVars>>

(* What run does with the operation's final status.                        *)
CanceledIsError(w) ==
  IF status[worker[w].op] = "done" THEN "unbookmark"
  ELSE IF worker[w].bookmark # 0 /\ worker[w].force THEN "destroy" ELSE "mark"

Verdict(w) ==
  LET retry == status[worker[w].op] = "error" /\ worker[w].bookmark # 0 /\ worker[w].force
  IN IF status[worker[w].op] = "done" THEN "unbookmark"
     ELSE IF retry THEN "destroy" ELSE "mark"

(* waitOp returns once a poll sees the operation ended.                    *)
WaitOneOp(w) ==
  /\ worker[w].pc = "wait"
  /\ Goto(w, IF status[worker[w].op] = "error" THEN "mark" ELSE "unbookmark")
  /\ UNCHANGED <<job, inFlight, runs, zfsVars, pipe, opVars>>

WaitOp(w) ==
  /\ worker[w].pc = "wait"
  /\ status[worker[w].op] \in Ended
  /\ Goto(w, Verdict(w))
  /\ UNCHANGED <<job, inFlight, runs, zfsVars, pipe, opVars>>

WaitFull(w) ==
  /\ worker[w].pc = "rewait"
  /\ status[worker[w].op] \in Ended
  /\ Goto(w, IF status[worker[w].op] = "done" THEN "unbookmark" ELSE "mark")
  /\ UNCHANGED <<job, inFlight, runs, zfsVars, pipe, opVars>>

Receiving(j) ==
  \E o \in OpIds : proc[o] = "alive" /\ pipe[o].job = j /\ pipe[o].sound

(* 'zfs destroy -r' of the destination: refused when there is none or when *)
(* a receive is using it.                                                  *)
DestroyDest(w) ==
  LET j == worker[w].job IN
  /\ worker[w].pc = "destroy"
  /\ \/ /\ dest[j].exists /\ ~Receiving(j)
        /\ dest' = [dest EXCEPT ![j] = Absent]
        /\ \/ Goto(w, "resend")
           \/ May("command") /\ Goto(w, "mark")
     \/ /\ ~dest[j].exists \/ Receiving(j) \/ May("command")
        /\ Goto(w, "mark")
        /\ UNCHANGED dest
  /\ UNCHANGED <<job, inFlight, runs, now, snaps, bm, reached, pipe, opVars>>

(* postSuccess: the old bookmark is destroyed, its error ignored ...       *)
DropBookmark(w) ==
  /\ worker[w].pc = "unbookmark"
  /\ \/ bm' = [bm EXCEPT ![Source(w)] = 0]
     \/ May("command") /\ UNCHANGED bm
  /\ Goto(w, "bookmark")
  /\ UNCHANGED <<job, inFlight, runs, now, snaps, dest, reached, pipe, opVars>>

(* ... and set again on the snapshot just sent.                            *)
MakeBookmark(w) ==
  LET s == Source(w)
      possible == bm[s] = 0 /\ worker[w].snap \in snaps[s]
  IN
  /\ worker[w].pc = "bookmark"
  /\ \/ /\ possible
        /\ bm' = [bm EXCEPT ![s] = worker[w].snap]
        /\ \/ worker' = [worker EXCEPT ![w].pc = "prune", ![w].bookmark = worker[w].snap]
           \/ May("command") /\ Goto(w, "mark")
     \/ /\ ~possible \/ May("command")
        /\ Goto(w, "mark")
        /\ UNCHANGED bm
  /\ UNCHANGED <<job, inFlight, runs, now, snaps, dest, reached, pipe, opVars>>

Newer(s, t) == {u \in snaps[s] : u > t}
BeingSent(s, t) ==
  \E o \in OpIds : /\ proc[o] = "alive" /\ pipe[o].sound
                      /\ SourceOf[pipe[o].job] = s /\ pipe[o].snap = t

(* prune: every snapshot but the two newest, one destroy each; a destroy   *)
(* that fails is logged, and ZFS refuses one that is being sent.           *)
Prune(w) ==
  LET s == Source(w)
      old == {t \in snaps[s] : Cardinality(Newer(s, t)) >= 2 /\ ~BeingSent(s, t)}
  IN
  /\ worker[w].pc = "prune"
  /\ \/ snaps' = [snaps EXCEPT ![s] = @ \ old]
     \/ May("command") /\ \E some \in SUBSET old : snaps' = [snaps EXCEPT ![s] = @ \ some]
  /\ Goto(w, "mark")
  /\ UNCHANGED <<job, inFlight, runs, now, bm, dest, reached, pipe, opVars>>

(* MarkRun writes back last_bookmark: the new snapshot, or what the copy   *)
(* said when the run began.  A row deleted meanwhile is not written, and a *)
(* database error is only logged.                                          *)
MarkRun(w) ==
  LET j == worker[w].job IN
  /\ worker[w].pc = "mark"
  /\ \/ job[j].exists /\ job' = [job EXCEPT ![j].bookmark = worker[w].bookmark]
     \/ (~job[j].exists \/ May("db")) /\ UNCHANGED job
  /\ Goto(w, "release")
  /\ UNCHANGED <<inFlight, runs, zfsVars, pipe, opVars>>

ReleaseForgotten(w) ==
  /\ worker[w].pc = "release"
  /\ worker' = [worker EXCEPT ![w] = Idle]
  /\ inFlight' = IF worker[w].op = 0 THEN inFlight ELSE inFlight \ {worker[w].job}
  /\ UNCHANGED <<job, runs, zfsVars, pipe, opVars>>

Release(w) ==
  /\ worker[w].pc = "release"
  /\ inFlight' = inFlight \ {worker[w].job}
  /\ worker' = [worker EXCEPT ![w] = Idle]
  /\ UNCHANGED <<job, runs, zfsVars, pipe, opVars>>

-----------------------------------------------------------------------------
(* What zfs recv -s accepts: a whole stream when there is no dataset, an   *)
(* increment when the newest snapshot there is the one it starts from and  *)
(* nothing was changed or half received since.                             *)
CanReceive(o) ==
  LET p == pipe[o]
      d == dest[p.job]
  IN /\ p.sound
     /\ IF p.full THEN ~d.exists ELSE d.exists /\ ~d.stuck /\ d.head = p.from

(* A receive that is cut short may leave its partial state behind.         *)
CutShort ==
  LET cut == {o \in OpIds : proc[o] = "alive" /\ proc'[o] = "fail"} IN
  /\ \E torn \in SUBSET {pipe[o].job : o \in {p \in cut : CanReceive(p)}} :
       dest' = [j \in Jobs |->
                 IF j \in torn THEN [dest[j] EXCEPT !.exists = TRUE, !.stuck = TRUE]
                               ELSE dest[j]]
  /\ pipe' = [o \in OpIds |-> IF o \in cut THEN NoPipe ELSE pipe[o]]

PipelineSucceeds(o) ==
  /\ CanReceive(o)
  /\ Exit(o, "ok")
  /\ dest' = [dest EXCEPT ![pipe[o].job] =
                [exists |-> TRUE, head |-> pipe[o].snap, stuck |-> FALSE]]
  /\ reached' = [reached EXCEPT ![pipe[o].job] = @ \cup {pipe[o].snap}]
  /\ pipe' = [pipe EXCEPT ![o] = NoPipe]
  /\ UNCHANGED <<job, inFlight, worker, runs, now, snaps, bm>>

PipelineFails(o) ==
  /\ ~CanReceive(o) \/ May("transfer")
  /\ Exit(o, "fail")
  /\ CutShort
  /\ UNCHANGED <<job, inFlight, worker, runs, now, snaps, bm, reached>>

(* A Cancel that finds the operation ended changes nothing: only those     *)
(* that find it running are followed.                                      *)
Registry(o) ==
  /\ \/ Watch(o)
     \/ May("cancel") /\ status[o] = "running" /\ CancelFind(o)
     \/ CancelRequest(o)
  /\ UNCHANGED <<job, inFlight, worker, runs, zfsVars, pipe>>

(* A poll comes every 300 ms and an ended operation is kept for an hour:   *)
(* what a goroutine waits for is not purged under it.                      *)
Purge(o) ==
  /\ May("purge")
  /\ \A w \in Workers : worker[w].pc \in {"wait", "rewait"} => worker[w].op # o
  /\ PurgeOp(o)
  /\ UNCHANGED <<job, inFlight, worker, runs, zfsVars, pipe>>

Kill(o) ==
  /\ CancelKill(o)
  /\ CutShort
  /\ UNCHANGED <<job, inFlight, worker, runs, now, snaps, bm, reached>>

-----------------------------------------------------------------------------
(* PATCH force_full and DELETE, at any moment of a run.                    *)
Patch(j) ==
  /\ May("patch")
  /\ job[j].exists
  /\ \E f \in BOOLEAN : job' = [job EXCEPT ![j].force = f]
  /\ UNCHANGED <<inFlight, worker, runs, zfsVars, pipe, opVars>>

Delete(j) ==
  /\ May("delete")
  /\ job[j].exists
  /\ job' = [job EXCEPT ![j].exists = FALSE]
  /\ UNCHANGED <<inFlight, worker, runs, zfsVars, pipe, opVars>>

(* Somebody changes the destination.                                       *)
Diverge(j) ==
  /\ May("diverge")
  /\ dest[j].exists
  /\ dest' = [dest EXCEPT ![j].stuck = TRUE]
  /\ UNCHANGED <<job, inFlight, worker, runs, now, snaps, bm, reached, pipe, opVars>>

Tick ==
  /\ now < MaxTime
  /\ now' = now + 1
  /\ UNCHANGED <<job, inFlight, worker, runs, snaps, bm, dest, reached, pipe, opVars>>

(* The daemon restarts: slots, goroutines and operations are forgotten.    *)
Restart ==
  /\ May("restart")
  /\ \E s \in SUBSET {o \in OpIds : proc[o] = "alive"} : RestartOps(s)
  /\ CutShort
  /\ inFlight' = {}
  /\ worker' = [w \in Workers |-> Idle]
  /\ UNCHANGED <<job, runs, now, snaps, bm, reached>>

Work(w) ==
  \/ TryAcquire(w) \/ TakeSnapshot(w) \/ StartSend(w) \/ WaitOp(w)
  \/ DestroyDest(w) \/ StartFull(w) \/ WaitFull(w)
  \/ DropBookmark(w) \/ MakeBookmark(w) \/ Prune(w)
  \/ MarkRun(w) \/ Release(w)

Next ==
  \/ \E w \in Workers, j \in Jobs : Read(w, j)
  \/ \E w \in Workers : Work(w)
  \/ \E o \in OpIds :
       PipelineSucceeds(o) \/ PipelineFails(o) \/ Registry(o) \/ Kill(o) \/ Purge(o)
  \/ \E j \in Jobs : Patch(j) \/ Delete(j) \/ Diverge(j)
  \/ Tick
  \/ Restart

Spec == Init /\ [][Next]_vars

(* Goroutines run, and every process ends.                                 *)
Fairness ==
  /\ \A w \in Workers : WF_vars(Work(w))
  /\ \A o \in OpIds :
       /\ WF_vars(PipelineSucceeds(o) \/ PipelineFails(o))
       /\ WF_vars(Watch(o) /\ UNCHANGED <<job, inFlight, worker, runs, zfsVars, pipe>>)

FairSpec == Spec /\ Fairness

-----------------------------------------------------------------------------
(* The slot: at most one goroutine executes a job, whoever started it, and *)
(* the slots taken are those of the goroutines that execute.               *)
SlotExclusive ==
  /\ \A v, w \in Workers :
       v # w /\ worker[v].pc \in Holding /\ worker[w].pc \in Holding
         => worker[v].job # worker[w].job
  /\ inFlight = {worker[w].job : w \in {v \in Workers : worker[v].pc \in Holding}}

(* README: the slot keeps a second 'zfs send | zfs recv' away from the     *)
(* same destination.  No two operations in the registry run for one job.   *)
OnePipelinePerJob ==
  \A o, p \in OpIds :
    o # p /\ status[o] = "running" /\ status[p] = "running" => target[o] # target[p]

(* last_bookmark and the bookmark itself never name a snapshot that no     *)
(* destination has received whole: not after a cancel, a failed transfer,  *)
(* a restart, or another job on the same source.                           *)
BookmarkReached ==
  /\ \A j \in Jobs : job[j].bookmark # 0 => job[j].bookmark \in reached[j]
  /\ \A s \in Sources :
       bm[s] # 0 => \E j \in Jobs : SourceOf[j] = s /\ bm[s] \in reached[j]

(* A destination is destroyed only for a run that was read with force_full *)
(* set and whose increment failed of itself: never because it was          *)
(* canceled, and not while a receive is writing to it.                     *)
DestroyedOnlyOnFailure ==
  [][\A j \in Jobs :
       dest[j].exists /\ ~dest'[j].exists =>
         /\ ~Receiving(j)
         /\ \E w \in Workers :
              LET v == worker[w] IN
              /\ v.pc = "destroy" /\ v.job = j /\ v.force
              /\ v.bookmark # 0 /\ proc[v.op] = "fail" /\ v.op \notin requested]_vars

(* waitOp polls until its operation has ended, for ever if the registry    *)
(* has forgotten it: whoever waits has his own operation there, ended or   *)
(* with a process that can still end; and an operation that runs has a     *)
(* goroutine waiting for it, which will record how it ended.               *)
NoLostWait ==
  /\ \A w \in Workers : worker[w].pc \in {"wait", "rewait"} =>
       \E o \in OpIds :
         /\ o = worker[w].op /\ target[o] = worker[w].job
         /\ status[o] \in Ended \/ (status[o] = "running" /\ proc[o] # "none")
  /\ \A o \in OpIds : status[o] = "running" =>
       \E w \in Workers : worker[w].pc \in {"wait", "rewait"} /\ worker[w].op = o

(* What runs, who waits for it and for which job agree, whoever fails, is  *)
(* canceled or dies: the pipelines of the registry are those of runs.      *)
RegistryMatchesRuns == OnePipelinePerJob /\ NoLostWait

(* Every slot taken is given back, whatever fails on the way.              *)
SlotFreed == \A j \in Jobs : j \in inFlight ~> j \notin inFlight

-----------------------------------------------------------------------------
(* replication.go:5 "Primera vez: send completo. Siguientes: 'zfs send -i  *)
(* <src>#ezrepl-last'": once a run of the job has succeeded, a later one   *)
(* starts from the bookmark.                                               *)
LaterRunsIncremental ==
  [][\A o \in OpIds :
       (status[o] = "none" /\ status'[o] = "running" /\ pipe'[o].full)
         => dest[pipe'[o].job] = Absent]_vars

(* replication.go:8 "con force_full se destruye el destino y se reintenta  *)
(* completo UNA vez": a force_full run whose increment failed retries with *)
(* a full send when there is no destination left in its way.               *)
ForceFullRetries ==
  [][\A w \in Workers :
       (/\ worker[w].pc = "destroy" /\ worker'[w].pc \notin {"destroy", "idle"}
        /\ ~dest[worker[w].job].exists)
         => worker'[w].pc = "resend"]_vars

(* replication.go:250 "bookmark = snapshot al que apunta 'ezrepl-last'     *)
(* tras el éxito": while no run is in progress, what a job recorded is     *)
(* what its bookmark points to.                                            *)
RecordedIsBookmark ==
  inFlight = {} =>
    \A j \in Jobs : job[j].bookmark # 0 => bm[SourceOf[j]] = job[j].bookmark
=============================================================================
