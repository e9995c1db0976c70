--------------------------- MODULE LongOpsProofs ---------------------------
(***************************************************************************)
(* Proofs about the registry of long operations, for any targets and any   *)
(* number of operations.  The inductive invariant adds to the types and to *)
(* TruthfulStatus that an operation not yet started is untouched, which is *)
(* what keeps Start from reopening one that ended, and that one that was   *)
(* started has a process.                                                  *)
(***************************************************************************)
EXTENDS LongOps, TLAPS

(* What Start has not reached yet is as Init left it.                      *)
Fresh == \A o \in OpIds : status[o] = "none" <=> seq < o

(* What was started has a process, if only one that ended.                 *)
Started == \A o \in OpIds : status[o] # "none" => proc[o] # "none"

OpsInv == OpsTypeOK /\ TruthfulStatus /\ Fresh /\ Started

LEMMA OpsInvInit == OpsInit => OpsInv
  BY LongOpsAssumption
  DEF OpsInit, OpsInv, OpsTypeOK, TruthfulStatus, Fresh, Started, OpIds, Statuses, Ended, Exited

(* One step of the registry keeps the types.                               *)
LEMMA OpsTypeStep == OpsTypeOK /\ [OpsNext]_opVars => OpsTypeOK'
<1> SUFFICES ASSUME OpsTypeOK, [OpsNext]_opVars PROVE OpsTypeOK'
  OBVIOUS
<1> USE LongOpsAssumption DEF OpsTypeOK, OpIds, Statuses, Ended, Exited
<1>1. ASSUME NEW t \in Targets, Start(t) PROVE OpsTypeOK'
  BY <1>1 DEF Start
<1>2. ASSUME NEW o \in OpIds, OpsStep(o) PROVE OpsTypeOK'
  <2>1. ASSUME NEW r \in Exited, Exit(o, r) PROVE OpsTypeOK'
    BY <2>1 DEF Exit
  <2>2. CASE Watch(o)
    BY <2>2 DEF Watch, FinalStatus
  <2>3. CASE CancelFind(o)
    BY <2>3 DEF CancelFind
  <2>4. CASE CancelRequest(o)
    BY <2>4 DEF CancelRequest
  <2>5. CASE CancelKill(o)
    BY <2>5 DEF CancelKill
  <2>6. CASE PurgeOp(o)
    BY <2>6 DEF PurgeOp
  <2> QED
    BY <1>2, <2>1, <2>2, <2>3, <2>4, <2>5, <2>6 DEF OpsStep
<1>3. ASSUME NEW s \in SUBSET OpIds, RestartOps(s) PROVE OpsTypeOK'
  BY <1>3 DEF RestartOps
<1>4. CASE UNCHANGED opVars
  BY <1>4 DEF opVars
<1> QED
  BY <1>1, <1>2, <1>3, <1>4 DEF OpsNext

(* One step of the registry keeps its statuses truthful.                   *)
LEMMA OpsTruthStep == OpsInv /\ [OpsNext]_opVars => TruthfulStatus' /\ Fresh' /\ Started'
<1> SUFFICES ASSUME OpsInv, [OpsNext]_opVars PROVE TruthfulStatus' /\ Fresh' /\ Started'
  OBVIOUS
<1> USE LongOpsAssumption
    DEF OpsInv, OpsTypeOK, TruthfulStatus, Fresh, Started, OpIds, Statuses, Ended, Exited
<1>1. ASSUME NEW t \in Targets, Start(t) PROVE TruthfulStatus' /\ Fresh' /\ Started'
  BY <1>1 DEF Start
<1>2. ASSUME NEW o \in OpIds, OpsStep(o) PROVE TruthfulStatus' /\ Fresh' /\ Started'
  <2>1. ASSUME NEW r \in Exited, Exit(o, r) PROVE TruthfulStatus' /\ Fresh' /\ Started'
    BY <2>1 DEF Exit
  <2>2. CASE Watch(o)
    BY <2>2 DEF Watch, FinalStatus
  <2>3. CASE CancelFind(o)
    BY <2>3 DEF CancelFind
  <2>4. CASE CancelRequest(o)
    BY <2>4 DEF CancelRequest
  <2>5. CASE CancelKill(o)
    BY <2>5 DEF CancelKill
  <2>6. CASE PurgeOp(o)
    BY <2>6 DEF PurgeOp
  <2> QED
    BY <1>2, <2>1, <2>2, <2>3, <2>4, <2>5, <2>6 DEF OpsStep
<1>3. ASSUME NEW s \in SUBSET OpIds, RestartOps(s) PROVE TruthfulStatus' /\ Fresh' /\ Started'
  BY <1>3 DEF RestartOps
<1>4. CASE UNCHANGED opVars
  BY <1>4 DEF opVars
<1> QED
  BY <1>1, <1>2, <1>3, <1>4 DEF OpsNext

LEMMA OpsInvStep == OpsInv /\ [OpsNext]_opVars => OpsInv'
  BY OpsTypeStep, OpsTruthStep DEF OpsInv

(* The invariant holds of every behaviour of the registry.                 *)
THEOREM OpsInvariant == OpsSpec => []OpsInv
  BY OpsInvInit, OpsInvStep, PTL DEF OpsSpec

(* A final status tells what became of the process and whether it was      *)
(* canceled, whatever the order in which the watch goroutine, Cancel and   *)
(* the process itself take their steps.                                    *)
THEOREM OpsTruthful == OpsSpec => []TruthfulStatus
  BY OpsInvariant, PTL DEF OpsInv

(* No step of the registry changes a final status, except to forget it.    *)
LEMMA OpsFinalStep ==
  ASSUME OpsInv, [OpsNext]_opVars, NEW o \in OpIds, status[o] \in Ended
  PROVE  status'[o] \in {status[o], "gone"}
<1> USE LongOpsAssumption DEF OpsInv, OpsTypeOK, Fresh, Started, OpIds, Statuses, Ended, Exited
<1>1. ASSUME NEW t \in Targets, Start(t) PROVE status'[o] = status[o]
  BY <1>1 DEF Start
<1>2. ASSUME NEW p \in OpIds, OpsStep(p) PROVE status'[o] \in {status[o], "gone"}
  BY <1>2 DEF OpsStep, Exit, Watch, CancelFind, CancelRequest, CancelKill, PurgeOp
<1>3. ASSUME NEW s \in SUBSET OpIds, RestartOps(s) PROVE status'[o] = "gone"
  BY <1>3 DEF RestartOps
<1>4. CASE UNCHANGED opVars
  BY <1>4 DEF opVars
<1> QED
  BY <1>1, <1>2, <1>3, <1>4 DEF OpsNext

(* A client that polls is never told two different ends of one operation.  *)
THEOREM OpsFinal == OpsSpec => FinalIsFinal
<1>1. OpsInv /\ [OpsNext]_opVars =>
        [\A o \in OpIds : status[o] \in Ended => status'[o] \in {status[o], "gone"}]_opVars
  BY OpsFinalStep
<1> QED
  BY <1>1, OpsInvariant, PTL DEF OpsSpec, FinalIsFinal

(* What any step leaves of an operation that was started: its target, the  *)
(* end of its process, and, once it is no longer running, whether it was   *)
(* canceled and that it failed.                                            *)
LEMMA OpsHistory ==
  ASSUME OpsInv, [OpsNext]_opVars, NEW o \in OpIds, status[o] # "none"
  PROVE  /\ status'[o] # "none"
         /\ target'[o] = target[o]
         /\ proc[o] \in Exited => proc'[o] = proc[o]
         /\ proc'[o] = "alive" => proc[o] = "alive"
         /\ status[o] # "running" => status'[o] # "running"
         /\ status[o] \in {"error", "gone"} =>
              status'[o] \in {"error", "gone"} /\ (o \in requested' <=> o \in requested)
<1> USE LongOpsAssumption DEF OpsInv, OpsTypeOK, Fresh, Started, OpIds, Statuses, Ended, Exited
<1> DEFINE Goal == /\ status'[o] # "none"
                   /\ target'[o] = target[o]
                   /\ proc[o] \in Exited => proc'[o] = proc[o]
                   /\ proc'[o] = "alive" => proc[o] = "alive"
                   /\ status[o] # "running" => status'[o] # "running"
                   /\ status[o] \in {"error", "gone"} =>
                        status'[o] \in {"error", "gone"} /\ (o \in requested' <=> o \in requested)
<1>1. ASSUME NEW t \in Targets, Start(t) PROVE Goal
  BY <1>1 DEF Start
<1>2. ASSUME NEW p \in OpIds, OpsStep(p) PROVE Goal
  <2>1. ASSUME NEW r \in Exited, Exit(p, r) PROVE Goal
    BY <2>1 DEF Exit
  <2>2. CASE Watch(p)
    BY <2>2 DEF Watch, FinalStatus
  <2>3. CASE CancelFind(p) \/ CancelRequest(p)
    BY <2>3 DEF CancelFind, CancelRequest
  <2>4. CASE CancelKill(p) \/ PurgeOp(p)
    BY <2>4 DEF CancelKill, PurgeOp
  <2> QED
    BY <1>2, <2>1, <2>2, <2>3, <2>4 DEF OpsStep
<1>3. ASSUME NEW s \in SUBSET OpIds, RestartOps(s) PROVE Goal
  BY <1>3 DEF RestartOps
<1>4. CASE UNCHANGED opVars
  BY <1>4 DEF opVars
<1> QED
  BY <1>1, <1>2, <1>3, <1>4 DEF OpsNext
=============================================================================
