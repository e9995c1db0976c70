------------------------------ MODULE LongOps ------------------------------
(***************************************************************************)
(* The registry of long-running processes: internal/longops.  A client     *)
(* calls Start, which launches a detached process and registers an         *)
(* operation; a watch goroutine closes the operation once the process has  *)
(* been reaped; an HTTP handler may Cancel it; List drops operations that  *)
(* ended more than an hour ago.  The registry lives in memory only: a      *)
(* restart of the daemon forgets every operation, and the processes may    *)
(* survive it.                                                             *)
(*                                                                         *)
(* Abstracted: output lines, PIDs, timestamps, and the SSE event that each *)
(* change of status publishes.                                             *)
(***************************************************************************)
EXTENDS Naturals

CONSTANTS
  Targets,     \* what operations act on
  NoTarget,    \* the target of an operation not started yet
  MaxOps       \* bound: operations started in one behaviour

ASSUME LongOpsAssumption == MaxOps \in Nat /\ NoTarget \notin Targets

VARIABLES
  seq,         \* Manager.seq: operations started so far
  status,      \* status of each operation: "none" before Start, "gone" once
               \* it is no longer in Manager.ops
  target,      \* the Target it was started on
  requested,   \* operations with Op.canceledReq set
  canceller,   \* where a Cancel call on the operation is
  proc         \* the operating system's process behind the operation

opVars == <<seq, status, target, requested, canceller, proc>>

OpIds == 1 .. MaxOps
Ended == {"done", "error", "canceled"}
Statuses == {"none", "running", "gone"} \cup Ended
Exited == {"ok", "fail"}

OpsTypeOK ==
  /\ seq \in 0 .. MaxOps
  /\ status \in [OpIds -> Statuses]
  /\ target \in [OpIds -> Targets \cup {NoTarget}]
  /\ requested \in SUBSET OpIds
  /\ canceller \in [OpIds -> {"idle", "found", "kill"}]
  /\ proc \in [OpIds -> {"none", "alive"} \cup Exited]

OpsInit ==
  /\ seq = 0
  /\ status = [o \in OpIds |-> "none"]
  /\ target = [o \in OpIds |-> NoTarget]
  /\ requested = {}
  /\ canceller = [o \in OpIds |-> "idle"]
  /\ proc = [o \in OpIds |-> "none"]

-----------------------------------------------------------------------------
(* Start, when the process could be launched.  (When it could not, nothing *)
(* is registered: the caller sees the error.)                              *)
Start(t) ==
  /\ seq < MaxOps
  /\ seq' = seq + 1
  /\ status' = [status EXCEPT ![seq + 1] = "running"]
  /\ target' = [target EXCEPT ![seq + 1] = t]
  /\ proc' = [proc EXCEPT ![seq + 1] = "alive"]
  /\ UNCHANGED <<requested, canceller>>

(* The process ends by itself, well or badly.                              *)
Exit(o, result) ==
  /\ proc[o] = "alive"
  /\ proc' = [proc EXCEPT ![o] = result]
  /\ UNCHANGED <<seq, status, target, requested, canceller>>

(* What watch writes as the final status, under Manager.mu: the request to *)
(* cancel decides before the process's exit code does.                     *)
FinalStatus(o) ==
  IF o \in requested THEN "canceled" ELSE IF proc[o] = "fail" THEN "error" ELSE "done"

(* watch: the output reached EOF and Wait returned.                        *)
WatchWithoutWait(o) ==
  /\ status[o] = "running"
  /\ status' = [status EXCEPT ![o] = FinalStatus(o)]
  /\ UNCHANGED <<seq, target, requested, canceller, proc>>

Watch(o) ==
  /\ status[o] = "running"
  /\ proc[o] \in Exited
  /\ status' = [status EXCEPT ![o] = FinalStatus(o)]
  /\ UNCHANGED <<seq, target, requested, canceller, proc>>

-----------------------------------------------------------------------------
(* Cancel looks the operation up in one critical section ...               *)
CancelFind(o) ==
  /\ status[o] \notin {"none", "gone"}
  /\ canceller[o] = "idle"
  /\ canceller' = [canceller EXCEPT ![o] = "found"]
  /\ UNCHANGED <<seq, status, target, requested, proc>>

(* ... and marks it in a second one.  Op.cancel is set exactly while the   *)
(* operation is running; otherwise the answer is ErrNotRunning.            *)
CancelOverwrites(o) ==
  /\ canceller[o] = "found"
  /\ requested' = requested \cup {o}
  /\ canceller' = [canceller EXCEPT ![o] = "kill"]
  /\ status' = [status EXCEPT ![o] = "canceled"]
  /\ UNCHANGED <<seq, target, proc>>

CancelRequest(o) ==
  /\ canceller[o] = "found"
  /\ IF status[o] = "running"
       THEN /\ requested' = requested \cup {o}
            /\ canceller' = [canceller EXCEPT ![o] = "kill"]
       ELSE /\ canceller' = [canceller EXCEPT ![o] = "idle"]
            /\ UNCHANGED requested
  /\ UNCHANGED <<seq, status, target, proc>>

(* The SIGKILL to the process group.  Its error is ignored: the process    *)
(* may have exited already, and an unprivileged daemon may not signal what *)
(* it launched through sudo.                                               *)
CancelKill(o) ==
  /\ canceller[o] = "kill"
  /\ canceller' = [canceller EXCEPT ![o] = "idle"]
  /\ \/ /\ proc[o] = "alive"
        /\ proc' = [proc EXCEPT ![o] = "fail"]
     \/ UNCHANGED proc
  /\ UNCHANGED <<seq, status, target, requested>>

(* List drops what ended more than doneTTL ago.                            *)
PurgeOp(o) ==
  /\ status[o] \in Ended
  /\ status' = [status EXCEPT ![o] = "gone"]
  /\ UNCHANGED <<seq, target, requested, canceller, proc>>

(* The daemon dies and starts again: an empty registry.  Of the processes  *)
(* still alive, any may survive.                                           *)
RestartOps(survivors) ==
  /\ survivors \subseteq {o \in OpIds : proc[o] = "alive"}
  /\ status' = [o \in OpIds |-> IF status[o] = "none" THEN "none" ELSE "gone"]
  /\ proc' = [o \in OpIds |->
                IF proc[o] = "alive" /\ o \notin survivors THEN "fail" ELSE proc[o]]
  /\ canceller' = [o \in OpIds |-> "idle"]
  /\ UNCHANGED <<seq, target, requested>>

(* The most general client.                                                *)
OpsStep(o) ==
  \/ \E r \in Exited : Exit(o, r)
  \/ Watch(o)
  \/ CancelFind(o)
  \/ CancelRequest(o)
  \/ CancelKill(o)
  \/ PurgeOp(o)

OpsNext ==
  \/ \E t \in Targets : Start(t)
  \/ \E o \in OpIds : OpsStep(o)
  \/ \E s \in SUBSET OpIds : RestartOps(s)

OpsSpec == OpsInit /\ [][OpsNext]_opVars

-----------------------------------------------------------------------------
(* A final status tells the truth: "done" only for a process that          *)
(* succeeded and that nobody asked to cancel, "error" only for one that    *)
(* failed unasked, "canceled" only on request, and none of them before the *)
(* process is reaped.  The watch goroutine and Cancel race for the status. *)
TruthfulStatus ==
  \A o \in OpIds :
    /\ status[o] = "done" => proc[o] = "ok" /\ o \notin requested
    /\ status[o] = "error" => proc[o] = "fail" /\ o \notin requested
    /\ status[o] = "canceled" => proc[o] \in Exited /\ o \in requested

(* A status once final is what every later reader sees until the entry     *)
(* leaves the registry: a client that polls every 300 ms cannot be told    *)
(* two different ends.                                                     *)
FinalIsFinal ==
  [][\A o \in OpIds :
       status[o] \in Ended => status'[o] \in {status[o], "gone"}]_opVars
=============================================================================
