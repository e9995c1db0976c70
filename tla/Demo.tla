-------------------------------- MODULE Demo --------------------------------
(***************************************************************************)
(* The server of the demo, web/src/data/mock.ts: it keeps everything in    *)
(* memory, waits a delay in each method before it looks at what it keeps,  *)
(* and moves its scrubs, expansions and long operations with intervals     *)
(* that dispose(), when the demo is left, clears.                          *)
(*                                                                         *)
(* JavaScript runs the body of a method, and the callback of an interval,  *)
(* in one step; what interleaves is what waits.  A method captures the     *)
(* objects it finds, so that a pool, an operation or a replication that is *)
(* not listed any more may still be changed by the interval it left.       *)
(*                                                                         *)
(* Abstracted: sizes, temperatures, texts and the activity; the methods    *)
(* that only read; users, keys, channels and tasks, whose methods touch    *)
(* one list each.                                                          *)
(***************************************************************************)
EXTENDS Naturals, SequencesExt

CONSTANTS
  Full,      \* the ticks of a scrub or an expansion
  MaxWaits,  \* bound on the calls that wait at once
  MaxCalls   \* bound on the calls of a session, by what it plays with

Parts == {"pools", "operations"}

ASSUME DemoAssumption ==
  /\ {Full, MaxWaits} \subseteq Nat /\ Full > 1
  /\ MaxCalls \in [Parts -> Nat]

VARIABLES
  part,      \* what the session plays with: its pools or its operations
  pools,     \* the pool objects, in the order they were created
  disks,     \* the disks: the pool each says it is in
  datasets,  \* the datasets, by <<pool, name>>
  snaps,     \* the datasets, and pools, that have a group of snapshots
  longops,   \* the operations, oldest first
  replJobs,  \* the replication jobs
  history,   \* how the replications ended, oldest first
  timers,    \* the intervals that tick
  calls,     \* the calls that wait, oldest first: their number, what they ask
  left,      \* the demo was left: dispose() ran
  stale,     \* history: what calls were carried out on, no longer as offered
  made       \* the calls made

store == <<pools, disks, datasets, snaps>>
runner == <<longops, replJobs, history>>
vars == <<part, store, runner, timers, calls, left, stale, made>>

Free == "-"
PoolNames == {"tank", "ssd", "nuevo"}
Devs == {"mmcblk0", "nvme3n1", "nvme0n1", "nvme1n1", "nvme2n1", "sda"}
Names == {"fotos", "boveda", "vm", "nuevo"}

Scrubs == [state : {"none", "running", "done"}, kind : {"scrub", "expand"}, pct : 0 .. Full]
Idle == [state |-> "none", kind |-> "scrub", pct |-> 0]

(* The stable path of a disk; the eMMC has none.                           *)
by_id == [nvme3n1 |-> "by-id/3n1", nvme0n1 |-> "by-id/0n1", nvme1n1 |-> "by-id/1n1",
          nvme2n1 |-> "by-id/2n1", sda |-> "by-id/usb"]

(* What a vdev calls its disk: by its name, by its path, or, when it is    *)
(* missing, by its GUID.                                                   *)
Missing == "guid"
Vdevs == Devs \cup {by_id[d] : d \in DOMAIN by_id} \cup {Missing}

(* What the class starts with: a raidz pool that is degraded, one of its   *)
(* disks missing, and a striped one that is being scrubbed; two free disks *)
(* and one with mounted partitions; a plain dataset, a locked one and a    *)
(* volume; a local replication that works and one over ssh that does not.  *)
InitialPools ==
  <<[name |-> "tank",
     vdevs |-> [d \in {"nvme0n1", "nvme1n1", Missing} |-> IF d = Missing THEN "FAULTED" ELSE "ONLINE"],
     raidz |-> TRUE,
     scrub |-> [Idle EXCEPT !.state = "done", !.pct = Full], listed |-> TRUE],
    [name |-> "ssd", vdevs |-> [d \in {"nvme3n1"} |-> "ONLINE"], raidz |-> FALSE,
     scrub |-> [Idle EXCEPT !.state = "running", !.pct = 1], listed |-> TRUE]>>

InitialDisks ==
  [mmcblk0 |-> Free, nvme3n1 |-> "ssd", nvme0n1 |-> "tank", nvme1n1 |-> "tank",
   nvme2n1 |-> Free, sda |-> Free]

in_use == {"sda"}

Plain == [fs |-> TRUE, encrypted |-> FALSE, unlocked |-> TRUE, mounted |-> TRUE]

InitialDatasets ==
  [k \in {<<"tank", "fotos">>, <<"tank", "boveda">>, <<"ssd", "vm">>} |->
     CASE k[2] = "fotos" -> Plain
       [] k[2] = "boveda" -> [Plain EXCEPT !.encrypted = TRUE, !.unlocked = FALSE, !.mounted = FALSE]
       [] k[2] = "vm" -> [Plain EXCEPT !.fs = FALSE, !.mounted = FALSE]]

(* A replication's target is the text "source -> destination".             *)
Local == <<"tank/fotos", "tank/backups/fotos">>
Remote == <<"tank/documentos", "bak/documentos">>
Routes == {Local, Remote}

InitialJobs ==
  <<[target |-> Local, ssh |-> FALSE, last |-> "done", listed |-> TRUE],
    [target |-> Remote, ssh |-> TRUE, last |-> "error", listed |-> TRUE]>>

Ops == [type : {"rewrite", "replication"}, target : Routes \cup (PoolNames \X Names),
        job : 0 .. Len(replJobs), status : {"running", "done", "error", "canceled"}]

TypeOK ==
  /\ part \in Parts
  /\ \A i \in DOMAIN pools :
       /\ pools[i].name \in PoolNames /\ pools[i].scrub \in Scrubs
       /\ DOMAIN pools[i].vdevs \subseteq Vdevs
  /\ disks \in [Devs -> PoolNames \cup {Free}]
  /\ DOMAIN datasets \subseteq PoolNames \X Names
  /\ \A k \in DOMAIN datasets : datasets[k].mounted => datasets[k].fs /\ datasets[k].unlocked
  /\ snaps \subseteq PoolNames \X (Names \cup {""})
  /\ longops \in Seq(Ops) /\ Len(calls) <= MaxWaits
  /\ \A t \in timers :
       CASE t.of = "scrub" -> t.object = 0
         [] t.of = "expand" -> t.object \in DOMAIN pools
         [] t.of = "op" -> t.object \in DOMAIN longops /\ t.step \in 0 .. 2
  /\ left \in BOOLEAN /\ stale.disks \subseteq Devs

-----------------------------------------------------------------------------
(* find: the first pool of that name, 0 when there is none.                *)
Find(name) ==
  LET found == {i \in DOMAIN pools : pools[i].listed /\ pools[i].name = name}
  IN  IF found = {} THEN 0 ELSE Min(found)

In(devs, name) == [d \in Devs |-> IF d \in devs THEN name ELSE disks[d]]

(* setInterval, its handle kept for dispose().  Nothing keeps a method that *)
(* waited while the demo was left from starting one.                       *)
SetInterval(of, object, by) ==
  timers' = timers \cup {[of |-> of, object |-> object, by |-> by, step |-> 0, late |-> left]}

-----------------------------------------------------------------------------
(* Pools and disks.                                                        *)

(* Whatever the disks are: the dialog has offered the free ones.           *)
CreatePool(c) ==
  /\ pools' = Append(pools, [name |-> c.pool, vdevs |-> [d \in {c.dev} |-> "ONLINE"],
                             raidz |-> FALSE, scrub |-> Idle, listed |-> TRUE])
  /\ disks' = In({c.dev}, c.pool)
  /\ UNCHANGED <<datasets, snaps, timers>>

(* Only destroying a pool takes it off the list, with all it holds.        *)
ExportPool(c) ==
  IF ~c.destroy THEN UNCHANGED <<store, timers>>
  ELSE /\ pools' = [i \in DOMAIN pools |->
                      [pools[i] EXCEPT !.listed = pools[i].listed /\ pools[i].name # c.pool]]
       /\ disks' = In({d \in Devs : disks[d] = c.pool}, Free)
       /\ datasets' = [k \in {k \in DOMAIN datasets : k[1] # c.pool} |-> datasets[k]]
       /\ snaps' = {k \in snaps : k[1] # c.pool}
       /\ UNCHANGED timers

(* What the methods that change one pool share: not_found, or the change.  *)
OnPool(c, vdevs(_), diskMap) ==
  LET i == Find(c.pool)
  IN  IF i = 0 THEN UNCHANGED <<store, timers>>
      ELSE /\ pools' = [pools EXCEPT ![i].vdevs = vdevs(@)]
           /\ disks' = diskMap
           /\ UNCHANGED <<datasets, snaps, timers>>

With(vdevs, dev, status) == [d \in DOMAIN vdevs \cup {dev} |-> IF d = dev THEN status ELSE vdevs[d]]
Without(vdevs, dev) == [d \in DOMAIN vdevs \ {dev} |-> vdevs[d]]

AddVdev(c) == OnPool(c, LAMBDA v : With(v, c.dev, "ONLINE"), In({c.dev}, c.pool))

(* The new disk is the pool's even when the old one was not there; one     *)
(* that is called by its path is not found among the disks.                *)
ReplaceDisk(c) ==
  OnPool(c,
         LAMBDA v : IF c.old \in DOMAIN v THEN With(Without(v, c.old), c.dev, "ONLINE") ELSE v,
         [d \in Devs |-> IF d = c.dev THEN c.pool ELSE IF d = c.old THEN Free ELSE disks[d]])

(* A detached disk still says it is in the pool.                           *)
VdevAction(c) ==
  OnPool(c,
         LAMBDA v : IF c.dev \notin DOMAIN v THEN v
                    ELSE CASE c.action = "detach" -> Without(v, c.dev)
                           [] c.action = "offline" -> With(v, c.dev, "OFFLINE")
                           [] c.action = "online" -> With(v, c.dev, "ONLINE"),
         disks)

Scrubbed(s, action) ==
  CASE action = "start" -> [state |-> "running", kind |-> "scrub", pct |-> 0]
    [] action = "pause" -> [s EXCEPT !.state = "none"]
    [] action = "stop" -> [s EXCEPT !.state = "done", !.kind = "scrub"]

ScrubAction(c) ==
  LET i == Find(c.pool)
  IN  /\ IF i = 0 THEN UNCHANGED pools
         ELSE pools' = [pools EXCEPT ![i].scrub = Scrubbed(@, c.action)]
      /\ UNCHANGED <<disks, datasets, snaps, timers>>

ExpandUnasked(c, n) ==
  LET i == Find(c.pool)
  IN  IF i = 0 \/ ~pools[i].raidz THEN UNCHANGED <<store, timers>>
      ELSE /\ pools' = [pools EXCEPT
                          ![i].vdevs = With(@, c.dev, "ONLINE"),
                          ![i].scrub = [state |-> "running", kind |-> "expand", pct |-> 0]]
           /\ disks' = In({c.dev}, c.pool)
           /\ SetInterval("expand", i, n)
           /\ UNCHANGED <<datasets, snaps>>

(* The one method that asks whether the disk is free: after its delay.     *)
ExpandPool(c, n) ==
  LET i == Find(c.pool)
  IN  IF i = 0 \/ ~pools[i].raidz \/ disks[c.dev] # Free \/ c.dev \in in_use
      THEN UNCHANGED <<store, timers>>
      ELSE /\ pools' = [pools EXCEPT
                          ![i].vdevs = With(@, c.dev, "ONLINE"),
                          ![i].scrub = [state |-> "running", kind |-> "expand", pct |-> 0]]
           /\ disks' = In({c.dev}, c.pool)
           /\ SetInterval("expand", i, n)
           /\ UNCHANGED <<datasets, snaps>>

Ticked(s) ==
  IF s.pct + 1 >= Full THEN [s EXCEPT !.state = "done", !.pct = Full] ELSE [s EXCEPT !.pct = @ + 1]

(* The interval of the constructor looks for the pool at every tick.       *)
ScrubTick(t) ==
  LET i == Find("ssd")
  IN  /\ t.of = "scrub" /\ i # 0 /\ pools[i].scrub.state = "running"
      /\ pools' = [pools EXCEPT ![i].scrub = [Ticked(@) EXCEPT !.kind = "scrub"]]
      /\ UNCHANGED <<disks, datasets, snaps, runner, timers>>

(* The interval of an expansion holds its pool, listed or not, and ends    *)
(* with the expansion or with what took its place.                         *)
ExpandTick(t) ==
  /\ t.of = "expand"
  /\ LET s == pools[t.object].scrub
         goes == s.state = "running" /\ s.kind = "expand"
     IN  /\ pools' = IF goes THEN [pools EXCEPT ![t.object].scrub = Ticked(s)] ELSE pools
         /\ timers' = IF goes /\ Ticked(s).state = "running" THEN timers ELSE timers \ {t}
  /\ UNCHANGED <<disks, datasets, snaps, runner>>

-----------------------------------------------------------------------------
(* Datasets and snapshots.                                                 *)

(* A volume is not mounted.                                                *)
CreateDataset(c) ==
  /\ datasets' = [k \in DOMAIN datasets \cup {c.dataset} |->
                    IF k \in DOMAIN datasets THEN datasets[k]
                    ELSE [Plain EXCEPT !.encrypted = c.encrypted, !.fs = c.fs, !.mounted = c.fs]]
  /\ UNCHANGED <<pools, disks, snaps, timers>>

DeleteDataset(c) ==
  /\ datasets' = [k \in DOMAIN datasets \ {c.dataset} |-> datasets[k]]
  /\ snaps' = snaps \ {c.dataset}
  /\ UNCHANGED <<pools, disks, timers>>

Encrypted(c) == c.dataset \in DOMAIN datasets /\ datasets[c.dataset].encrypted

UnlockDataset(c) ==
  /\ datasets' = IF ~Encrypted(c) THEN datasets
                 ELSE [datasets EXCEPT ![c.dataset].unlocked = TRUE,
                                       ![c.dataset].mounted = @ \/ datasets[c.dataset].fs]
  /\ UNCHANGED <<pools, disks, snaps, timers>>

LockMounted(c) ==
  /\ datasets' = IF ~Encrypted(c) THEN datasets
                 ELSE [datasets EXCEPT ![c.dataset].unlocked = FALSE]
  /\ UNCHANGED <<pools, disks, snaps, timers>>

LockDataset(c) ==
  /\ datasets' = IF ~Encrypted(c) THEN datasets
                 ELSE [datasets EXCEPT ![c.dataset].unlocked = FALSE,
                                       ![c.dataset].mounted = FALSE]
  /\ UNCHANGED <<pools, disks, snaps, timers>>

(* A recursive one of a pool is of every dataset it has, and of none of    *)
(* its own; whether the dataset is still there is not asked.               *)
CreateSnapshot(c) ==
  /\ snaps' = snaps \cup (IF c.recursive
                          THEN {k \in DOMAIN datasets : k = c.dataset \/ c.dataset = <<k[1], "">>}
                          ELSE {c.dataset})
  /\ UNCHANGED <<pools, disks, datasets, timers>>

-----------------------------------------------------------------------------
(* Long operations and replications.                                       *)
Running(target) ==
  \E i \in DOMAIN longops : longops[i].status = "running" /\ longops[i].target = target

Start(type, target, job, by) ==
  /\ longops' = Append(longops, [type |-> type, target |-> target, job |-> job,
                                 status |-> "running"])
  /\ SetInterval("op", Len(longops) + 1, by)
  /\ UNCHANGED <<replJobs, history>>

(* Both ask, after their delay, whether one of that target runs.           *)
RewriteDataset(c, n) ==
  IF \/ c.dataset \notin DOMAIN datasets \/ ~datasets[c.dataset].mounted
     \/ Running(c.dataset)
  THEN UNCHANGED <<runner, timers>>
  ELSE Start("rewrite", c.dataset, 0, n)

RunReplicationJob(c, n) ==
  IF ~replJobs[c.job].listed \/ Running(replJobs[c.job].target)
  THEN UNCHANGED <<runner, timers>>
  ELSE Start("replication", replJobs[c.job].target, c.job, n)

CancelLongOp(c) ==
  /\ longops' = IF longops[c.op].status # "running" THEN longops
                ELSE [longops EXCEPT ![c.op].status = "canceled"]
  /\ UNCHANGED <<replJobs, history, timers>>

(* A replication ends well unless it is over ssh; its job, listed or not,  *)
(* and the history are told.                                               *)
Ends(i) ==
  LET op == longops[i]
      how == IF op.type = "replication" /\ replJobs[op.job].ssh THEN "error" ELSE "done"
  IN  /\ longops' = [longops EXCEPT ![i].status = how]
      /\ IF op.type = "replication"
         THEN /\ replJobs' = [replJobs EXCEPT ![op.job].last = how]
              /\ history' = Append(history, [op |-> i, how |-> how])
         ELSE UNCHANGED <<replJobs, history>>

OpTickBlind(t) ==
  /\ t.of = "op"
  /\ IF t.step = 2 THEN Ends(t.object) /\ timers' = timers \ {t}
     ELSE timers' = (timers \ {t}) \cup {[t EXCEPT !.step = @ + 1]} /\ UNCHANGED runner
  /\ UNCHANGED store

(* The third tick ends the operation; one that was canceled is let be.     *)
OpTick(t) ==
  /\ t.of = "op"
  /\ CASE longops[t.object].status # "running" -> timers' = timers \ {t} /\ UNCHANGED runner
       [] longops[t.object].status = "running" /\ t.step = 2 ->
            Ends(t.object) /\ timers' = timers \ {t}
       [] OTHER -> timers' = (timers \ {t}) \cup {[t EXCEPT !.step = @ + 1]} /\ UNCHANGED runner
  /\ UNCHANGED store

CreateReplicationJob(c) ==
  /\ replJobs' = Append(replJobs, [target |-> c.target, ssh |-> c.target = Remote,
                                   last |-> "never", listed |-> TRUE])
  /\ UNCHANGED <<longops, history, timers>>

DeleteReplicationJob(c) ==
  /\ replJobs' = [replJobs EXCEPT ![c.job].listed = FALSE]
  /\ UNCHANGED <<longops, history, timers>>

-----------------------------------------------------------------------------
(* Calls: what the views and dialogs offer, the delay, the body.           *)
Listed == {pools[i].name : i \in {i \in DOMAIN pools : pools[i].listed}}
FreeDevs == {d \in Devs : disks[d] = Free}
Members(name) == IF Find(name) = 0 THEN {} ELSE DOMAIN pools[Find(name)].vdevs

(* What the dialog of a replacement sends: the stable path, if it has one. *)
Sent(d) == IF d \in DOMAIN by_id THEN by_id[d] ELSE d

(* Detaching is offered for mirrors; here for every pool, since what a     *)
(* pool is made of is not kept.                                            *)
VdevCalls ==
  {c \in UNION {[m : {"vdevAction"}, pool : {p}, dev : Members(p),
                 action : {"detach", "offline", "online"}] : p \in Listed} :
     LET status == pools[Find(c.pool)].vdevs[c.dev]
     IN  /\ c.action = "offline" => status = "ONLINE"
         /\ c.action = "online" => status = "OFFLINE"}

PoolCalls ==
  [m : {"createPool"}, pool : {"nuevo"}, dev : FreeDevs]
  \cup [m : {"exportPool"}, pool : Listed, destroy : BOOLEAN]
  \cup [m : {"addVdev"}, pool : Listed, dev : FreeDevs \ in_use]
  \cup (UNION {[m : {"replaceDisk"}, pool : {p}, old : Members(p),
                dev : {Sent(d) : d \in FreeDevs \ in_use}] : p \in Listed})
  \cup VdevCalls
  \cup [m : {"scrubAction"}, pool : Listed, action : {"start", "pause", "stop"}]
  \cup [m : {"expandPool"}, pool : Listed, dev : FreeDevs \ in_use]
  \cup [m : {"createDataset"}, dataset : Listed \X {"nuevo"}, encrypted : BOOLEAN,
        fs : BOOLEAN]
  \cup [m : {"deleteDataset"}, dataset : DOMAIN datasets]
  \cup [m : {"createSnapshot"}, dataset : DOMAIN datasets \cup (Listed \X {""}),
        recursive : BOOLEAN]

OperationCalls ==
  [m : {"rewriteDataset"}, dataset : {k \in DOMAIN datasets : datasets[k].mounted}]
  \cup [m : {"lockDataset", "unlockDataset"},
        dataset : {k \in DOMAIN datasets : datasets[k].encrypted}]
  \cup [m : {"deleteDataset"}, dataset : DOMAIN datasets]
  \cup [m : {"cancelLongOp"},
        op : {i \in DOMAIN longops : longops[i].status = "running"}]
  \cup [m : {"runReplicationJob", "deleteReplicationJob"},
        job : {j \in DOMAIN replJobs : replJobs[j].listed}]
  \cup [m : {"createReplicationJob"}, target : Routes]

(* delay(), in milliseconds.                                               *)
Delay(m) ==
  CASE m \in {"createPool", "exportPool", "expandPool", "unlockDataset"} -> 400
    [] m \in {"addVdev", "replaceDisk", "vdevAction", "lockDataset", "deleteDataset",
              "rewriteDataset"} -> 300
    [] m = "createDataset" -> 250
    [] m \in {"createSnapshot", "runReplicationJob"} -> 200
    [] m = "cancelLongOp" -> 150
    [] OTHER -> 160

Ask ==
  /\ ~left /\ Len(calls) < MaxWaits /\ made < MaxCalls[part]
  /\ \E c \in (IF part = "pools" THEN PoolCalls ELSE OperationCalls) :
       calls' = Append(calls, [n |-> made + 1, asks |-> c])
  /\ made' = made + 1
  /\ UNCHANGED <<part, store, runner, timers, left, stale>>

OnStore(c, n) ==
  \/ c.m = "createPool" /\ CreatePool(c)
  \/ c.m = "exportPool" /\ ExportPool(c)
  \/ c.m = "addVdev" /\ AddVdev(c)
  \/ c.m = "replaceDisk" /\ ReplaceDisk(c)
  \/ c.m = "vdevAction" /\ VdevAction(c)
  \/ c.m = "scrubAction" /\ ScrubAction(c)
  \/ c.m = "expandPool" /\ ExpandPool(c, n)
  \/ c.m = "createDataset" /\ CreateDataset(c)
  \/ c.m = "deleteDataset" /\ DeleteDataset(c)
  \/ c.m = "unlockDataset" /\ UnlockDataset(c)
  \/ c.m = "lockDataset" /\ LockDataset(c)
  \/ c.m = "createSnapshot" /\ CreateSnapshot(c)

OnRunner(c, n) ==
  \/ c.m = "rewriteDataset" /\ RewriteDataset(c, n)
  \/ c.m = "runReplicationJob" /\ RunReplicationJob(c, n)
  \/ c.m = "cancelLongOp" /\ CancelLongOp(c)
  \/ c.m = "createReplicationJob" /\ CreateReplicationJob(c)
  \/ c.m = "deleteReplicationJob" /\ DeleteReplicationJob(c)

(* What a call is carried out on although it is not, after the delay, what *)
(* was offered: a disk that is not free, or not of the pool, any more, a   *)
(* dataset or a group of snapshots of what is gone.                        *)
StaleDisks(c) ==
  LET onPool == c.m \in {"addVdev", "replaceDisk"} /\ c.pool \in Listed
  IN  {d \in Devs : \/ (c.m = "createPool" \/ onPool) /\ d = c.dev /\ d \notin FreeDevs
                    \/ c.m = "replaceDisk" /\ onPool /\ d = c.old /\ d \notin Members(c.pool)}

StaleDatasets(c) == IF c.m = "createDataset" /\ c.dataset[1] \notin Listed THEN {c.dataset} ELSE {}

StaleSnaps(c) ==
  IF /\ c.m = "createSnapshot" /\ ~c.recursive /\ c.dataset \notin DOMAIN datasets
     /\ c.dataset[2] = "" => c.dataset[1] \notin Listed
  THEN {c.dataset} ELSE {}

Mark(c) ==
  stale' = [disks |-> stale.disks \cup StaleDisks(c),
            datasets |-> stale.datasets \cup StaleDatasets(c),
            snaps |-> stale.snaps \cup StaleSnaps(c)]

(* The delay of a call is over: not before that of an older one as short.  *)
Resume ==
  /\ \E i \in DOMAIN calls :
       /\ \A j \in 1 .. i - 1 : Delay(calls[j].asks.m) > Delay(calls[i].asks.m)
       /\ calls' = RemoveAt(calls, i)
       /\ Mark(calls[i].asks)
       /\ \/ OnStore(calls[i].asks, calls[i].n) /\ UNCHANGED runner
          \/ OnRunner(calls[i].asks, calls[i].n) /\ UNCHANGED store
  /\ UNCHANGED <<part, left, made>>

Tick ==
  /\ \E t \in timers : ScrubTick(t) \/ ExpandTick(t) \/ OpTick(t)
  /\ UNCHANGED <<part, calls, left, stale, made>>

(* Leaving the demo; the calls that wait go on.                            *)
Dispose ==
  /\ ~left
  /\ left' = TRUE
  /\ timers' = {}
  /\ UNCHANGED <<part, store, runner, calls, stale, made>>

-----------------------------------------------------------------------------
Init ==
  /\ part \in Parts
  /\ pools = InitialPools /\ disks = InitialDisks
  /\ datasets = InitialDatasets /\ snaps = {<<"tank", "fotos">>, <<"ssd", "vm">>}
  /\ longops = <<>> /\ replJobs = InitialJobs /\ history = <<>>
  /\ timers = {[of |-> "scrub", object |-> 0, by |-> 0, step |-> 0, late |-> FALSE]}
  /\ calls = <<>> /\ left = FALSE /\ made = 0
  /\ stale = [disks |-> {}, datasets |-> {}, snaps |-> {}]

Next == Ask \/ Resume \/ Tick \/ Dispose

Spec == Init /\ [][Next]_vars

-----------------------------------------------------------------------------
(* Properties.                                                             *)

(* A vdev that is called as a disk is a disk that says it is in that pool, *)
(* and in no other.                                                        *)
VdevsOwned ==
  \A i \in DOMAIN pools : pools[i].listed =>
    \A d \in (DOMAIN pools[i].vdevs \cap Devs) \ stale.disks : disks[d] = pools[i].name

DisksOwned == \A d \in Devs : disks[d] \in Listed \cup {Free}
DatasetsOwned == \A k \in DOMAIN datasets \ stale.datasets : k[1] \in Listed
SnapsOwned ==
  \A k \in snaps \ stale.snaps : k \in DOMAIN datasets \/ (k[2] = "" /\ k[1] \in Listed)

(* Pools, disks, datasets and snapshots, which the class keeps in four     *)
(* lists, agree however calls overlap: no disk says it is in a pool that   *)
(* is gone; no disk, dataset or group of snapshots of a pool outlives it,  *)
(* and no disk is in two, unless a method that does not look again, as     *)
(* expandPool does, was carried out on that very disk, dataset or group    *)
(* when it was no longer what the dialog had offered.                      *)
Coherent == VdevsOwned /\ DisksOwned /\ DatasetsOwned /\ SnapsOwned

(* An expansion adds a disk that no pool has, by whatever name: the method *)
(* has a gate, the free disk.  It asks the list of disks, which does not   *)
(* know of a disk that replaced another by its stable path.                *)
Taken ==
  {d \in Devs : \E i \in DOMAIN pools :
     pools[i].listed /\ {d, Sent(d)} \cap DOMAIN pools[i].vdevs # {}}

ExpandsFree ==
  [][\A t \in timers' \ timers : t.of = "expand" =>
       (DOMAIN pools'[t.object].vdevs \ DOMAIN pools[t.object].vdevs) \cap Taken = {}]_vars

(* Two calls that wait together start one operation of a target.           *)
OneRunning ==
  \A i, j \in DOMAIN longops :
    longops[i].status = "running" /\ longops[j].status = "running"
      /\ longops[i].target = longops[j].target => i = j

(* Until the demo is left, what runs has the interval that will end it.    *)
RunningTicks ==
  ~left => \A i \in DOMAIN longops :
    longops[i].status = "running" => \E t \in timers : t.of = "op" /\ t.object = i

(* The end of a replication is recorded once, as it ended; a canceled one  *)
(* leaves no record.                                                       *)
EndRecorded ==
  \A i \in DOMAIN longops :
    LET rows == {r \in DOMAIN history : history[r].op = i}
    IN  IF longops[i].type = "replication" /\ longops[i].status \in {"done", "error"}
        THEN \E r \in rows : rows = {r} /\ history[r].how = longops[i].status
        ELSE rows = {}

(* A job shows how the last of its replications to end went.               *)
LastShown ==
  \A r \in DOMAIN history :
    LET job == longops[history[r].op].job
    IN  (\A q \in r + 1 .. Len(history) : longops[history[q].op].job # job)
          => replJobs[job].last = history[r].how

(* Nothing of the demo ticks once it was left, but what a call that waited *)
(* then has started since.                                                 *)
TimersFreed == left => \A t \in timers : t.late

(* What ended stays as it ended.                                           *)
EndsOnce ==
  \A i \in DOMAIN longops : longops[i].status # "running" => longops'[i] = longops[i]

(* However calls, cancels, intervals and leaving interleave, no target has *)
(* two operations running, what runs will end, and once; the three places  *)
(* that say how a replication ended agree; dispose() frees the intervals.  *)
Operations ==
  [](OneRunning /\ RunningTicks /\ EndRecorded /\ LastShown /\ TimersFreed) /\ [][EndsOnce]_vars
=============================================================================
