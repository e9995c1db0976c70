----------------------------- MODULE DemoProofs -----------------------------
(***************************************************************************)
(* What holds of the demo's lists and operations for any number of calls,  *)
(* however many wait at once, and of ticks a scrub may have.               *)
(***************************************************************************)
EXTENDS Demo, TLAPS, FiniteSetTheorems, WellFoundedInduction, SequenceTheorems

-----------------------------------------------------------------------------
(* The invariant: types.                                                   *)
Statuses == {"ONLINE", "OFFLINE", "FAULTED"}
VdevMaps == UNION {[D -> Statuses] : D \in SUBSET Vdevs}
Pools == [name : PoolNames, vdevs : VdevMaps, raidz : BOOLEAN, scrub : Scrubs, listed : BOOLEAN]
Datasets == [fs : BOOLEAN, encrypted : BOOLEAN, unlocked : BOOLEAN, mounted : BOOLEAN]
Operation(jobs) ==
  [type : {"rewrite", "replication"}, target : Routes \cup (PoolNames \X Names),
   job : 0 .. jobs, status : {"running", "done", "error", "canceled"}]
Jobs == [target : Routes, ssh : BOOLEAN, last : {"never", "done", "error"}, listed : BOOLEAN]
Ended == [op : Nat, how : {"done", "error"}]
Timers ==
  [of : {"scrub", "expand", "op"}, object : Nat, by : Nat, step : 0 .. 2, late : BOOLEAN]

(* What may be asked, with arguments of the right kind.                    *)
Calls ==
  [m : {"createPool", "addVdev", "expandPool"}, pool : PoolNames, dev : Devs]
  \cup [m : {"exportPool"}, pool : PoolNames, destroy : BOOLEAN]
  \cup [m : {"replaceDisk"}, pool : PoolNames, old : Vdevs, dev : Vdevs]
  \cup [m : {"vdevAction"}, pool : PoolNames, dev : Vdevs,
        action : {"detach", "offline", "online"}]
  \cup [m : {"scrubAction"}, pool : PoolNames, action : {"start", "pause", "stop"}]
  \cup [m : {"createDataset"}, dataset : PoolNames \X Names, encrypted : BOOLEAN,
        fs : BOOLEAN]
  \cup [m : {"deleteDataset", "unlockDataset", "lockDataset", "rewriteDataset"},
        dataset : PoolNames \X Names]
  \cup [m : {"createSnapshot"}, dataset : PoolNames \X (Names \cup {""}), recursive : BOOLEAN]
  \cup [m : {"cancelLongOp"}, op : Nat]
  \cup [m : {"runReplicationJob", "deleteReplicationJob"}, job : Nat]
  \cup [m : {"createReplicationJob"}, target : Routes]

StoreOK ==
  /\ pools \in Seq(Pools) /\ disks \in [Devs -> PoolNames \cup {Free}]
  /\ DOMAIN datasets \subseteq PoolNames \X Names
  /\ datasets \in [DOMAIN datasets -> Datasets]
  /\ \A k \in DOMAIN datasets : datasets[k].mounted => datasets[k].fs /\ datasets[k].unlocked
  /\ snaps \subseteq PoolNames \X (Names \cup {""})

RunnerOK ==
  /\ longops \in Seq(Operation(Len(replJobs)))
  /\ \A i \in DOMAIN longops : longops[i].type = "replication" => longops[i].job # 0
  /\ replJobs \in Seq(Jobs) /\ history \in Seq(Ended)
  /\ \A r \in DOMAIN history :
       history[r].op \in DOMAIN longops /\ longops[history[r].op].type = "replication"

TimersOK ==
  /\ timers \subseteq Timers
  /\ \A t \in timers :
       /\ t.of = "scrub" => t.object = 0
       /\ t.of = "expand" => t.object \in DOMAIN pools
       /\ t.of = "op" => t.object \in DOMAIN longops

CallsOK ==
  /\ calls \in Seq([n : Nat, asks : Calls]) /\ Len(calls) <= MaxWaits
  /\ \A i \in DOMAIN calls :
       LET c == calls[i].asks
       IN  /\ c.m = "cancelLongOp" => c.op \in DOMAIN longops
           /\ c.m \in {"runReplicationJob", "deleteReplicationJob"} => c.job \in DOMAIN replJobs
  /\ made \in Nat /\ left \in BOOLEAN /\ stale.disks \subseteq Devs /\ part \in Parts

Types == StoreOK /\ RunnerOK /\ TimersOK /\ CallsOK

-----------------------------------------------------------------------------
(* The invariant: what the lists say of one another.  A disk that no stale *)
(* call touched is in one pool at most, two of one name included, which    *)
(* "nuevo" allows: without that, replacing a disk of one would free a disk *)
(* of the other.                                                           *)
Disjoint ==
  \A i, j \in DOMAIN pools :
    pools[i].listed /\ pools[j].listed /\ i # j =>
      DOMAIN pools[i].vdevs \cap DOMAIN pools[j].vdevs \cap Devs \subseteq stale.disks

Together == VdevsOwned /\ DisksOwned /\ DatasetsOwned /\ SnapsOwned /\ Disjoint

OpsOK == OneRunning /\ RunningTicks /\ EndRecorded /\ LastShown /\ TimersFreed

IInv == Types /\ Together /\ OpsOK

-----------------------------------------------------------------------------
(* Operators.                                                              *)

(* A set of numbers that is not empty has a smallest one: the numbers up   *)
(* to each of its members are finite sets, of which one is the least.      *)
LEMMA MinIn == ASSUME NEW S \in SUBSET Nat, S # {} PROVE Min(S) \in S
<1> DEFINE upto(i) == {j \in S : j <= i}
           T == {upto(i) : i \in S}
<1>1. T \subseteq FiniteSubsetsOf(S)
  <2> SUFFICES ASSUME NEW i \in S PROVE IsFiniteSet(upto(i))
    BY DEF FiniteSubsetsOf
  <2>1. IsFiniteSet(0 .. i)
    BY FS_Interval
  <2>2. upto(i) \subseteq 0 .. i
    <3> SUFFICES ASSUME NEW j \in S, j <= i PROVE j \in 0 .. i
      OBVIOUS
    <3> QED
      OBVIOUS
  <2> QED
    BY <2>1, <2>2, FS_Subset
<1>2. IsWellFoundedOn(StrictSubsetOrdering(S), FiniteSubsetsOf(S))
  BY FS_StrictSubsetOrderingWellFounded
<1>3. T # {}
  OBVIOUS
<1>4. \E x \in T : \A y \in T : <<y, x>> \notin StrictSubsetOrdering(S)
  <2> HIDE DEF T
  <2> QED
    BY <1>1, <1>2, <1>3, WFMin
<1>5. PICK i \in S : \A k \in S : <<upto(k), upto(i)>> \notin StrictSubsetOrdering(S)
  BY <1>4
<1>6. ASSUME NEW k \in S, k < i PROVE FALSE
  <2>0. i \in Nat /\ k \in Nat /\ \A j \in S : j \in Nat
    OBVIOUS
  <2>1. upto(k) \subseteq upto(i) /\ i \in upto(i) /\ i \notin upto(k)
    <3>1. ASSUME NEW j \in S, j <= k PROVE j <= i
      BY <1>6, <2>0, <3>1
    <3>2. i <= i /\ ~(i <= k)
      BY <1>6, <2>0
    <3> QED
      BY <3>1, <3>2
  <2>2. <<upto(k), upto(i)>> \in StrictSubsetOrdering(S)
    BY <2>1 DEF StrictSubsetOrdering
  <2> QED
    BY <1>5, <2>2
<1>7. \A k \in S : i =< k
  BY <1>6
<1> QED
  BY <1>5, <1>7 DEF Min

(* find answers with a listed pool of the name, or there is none.          *)
LEMMA FindFacts ==
  ASSUME pools \in Seq(Pools), NEW name
  PROVE  \/ Find(name) = 0 /\ \A i \in DOMAIN pools : ~(pools[i].listed /\ pools[i].name = name)
         \/ /\ Find(name) \in DOMAIN pools /\ Find(name) # 0
            /\ pools[Find(name)].listed /\ pools[Find(name)].name = name
<1> DEFINE found == {i \in DOMAIN pools : pools[i].listed /\ pools[i].name = name}
<1>1. Find(name) = IF found = {} THEN 0 ELSE Min(found)
  BY DEF Find
<1>2. found \subseteq Nat \ {0}
  OBVIOUS
<1>3. CASE found = {}
  BY <1>1, <1>3
<1>4. CASE found # {}
  <2>1. Min(found) \in found
    BY <1>2, <1>4, MinIn
  <2> QED
    BY <1>1, <1>2, <1>4, <2>1
<1> QED
  BY <1>3, <1>4

(* A step that keeps names and list keeps what find answers.               *)
LEMMA FindSame ==
  ASSUME DOMAIN pools' = DOMAIN pools,
         \A i \in DOMAIN pools :
           pools'[i].listed = pools[i].listed /\ pools'[i].name = pools[i].name
  PROVE  Listed' = Listed /\ \A name : Find(name)' = Find(name)
<1>1. Listed' = Listed
  BY DEF Listed
<1>2. ASSUME NEW name PROVE Find(name)' = Find(name)
  <2>1. {i \in DOMAIN pools : pools[i].listed /\ pools[i].name = name}
          = {i \in DOMAIN pools' : pools'[i].listed /\ pools'[i].name = name}
    OBVIOUS
  <2> QED
    BY <2>1 DEF Find
<1> QED
  BY <1>1, <1>2

(* A call that resumes leaves the queue of those that wait.                *)
LEMMA RemoveAtFacts ==
  ASSUME NEW S, NEW s \in Seq(S), NEW i \in DOMAIN s
  PROVE  /\ RemoveAt(s, i) \in Seq(S) /\ Len(RemoveAt(s, i)) = Len(s) - 1
         /\ \A k \in DOMAIN RemoveAt(s, i) : \E j \in DOMAIN s : RemoveAt(s, i)[k] = s[j]
<1>0. Len(s) \in Nat /\ i \in 1 .. Len(s)
  OBVIOUS
<1> DEFINE a == SubSeq(s, 1, i - 1)
           b == SubSeq(s, i + 1, Len(s))
<1>1. /\ a \in Seq(S) /\ Len(a) = i - 1 /\ \A k \in 1 .. i - 1 : a[k] = s[k]
      /\ b \in Seq(S) /\ Len(b) = Len(s) - i /\ \A k \in 1 .. Len(s) - i : b[k] = s[i + k]
  OBVIOUS
<1>2. RemoveAt(s, i) = a \o b
  BY DEF RemoveAt
<1> HIDE DEF a, b
<1>3. a \o b \in Seq(S) /\ Len(a \o b) = Len(s) - 1
  BY <1>0, <1>1
<1>4. ASSUME NEW k \in 1 .. Len(s) - 1 PROVE \E j \in DOMAIN s : (a \o b)[k] = s[j]
  <2>1. /\ k \in Nat /\ i \in Nat /\ Len(s) \in Nat
        /\ 1 <= k /\ k <= Len(s) - 1 /\ 1 <= i /\ i <= Len(s)
    BY <1>0
  <2>2. k \in 1 .. Len(a) + Len(b)
    BY <1>1, <2>1
  <2>3. (a \o b)[k] = IF k <= Len(a) THEN a[k] ELSE b[k - Len(a)]
    <3>1. a \in Seq(S) /\ b \in Seq(S)
      BY <1>1
    <3> QED
      BY <2>2, <3>1, ConcatProperties
  <2>4. Len(a) = i - 1
    BY <1>1
  <2>5. CASE k <= i - 1
    <3>1. k \in 1 .. i - 1 /\ k \in DOMAIN s /\ k <= Len(a)
      BY <2>1, <2>4, <2>5
    <3> QED
      BY <1>1, <2>3, <3>1
  <2>6. CASE ~(k <= i - 1)
    <3>1. k - (i - 1) \in 1 .. Len(s) - i /\ k + 1 \in 1 .. Len(s) /\ i + (k - (i - 1)) = k + 1
      BY <2>1, <2>6
    <3>2. (a \o b)[k] = b[k - (i - 1)]
      BY <2>3, <2>4, <2>6
    <3>3. b[k - (i - 1)] = s[i + (k - (i - 1))]
      BY <1>1, <3>1
    <3>4. k + 1 \in DOMAIN s /\ (a \o b)[k] = s[k + 1]
      BY <3>1, <3>2, <3>3
    <3> QED
      BY <3>4
  <2> QED
    BY <2>5, <2>6
<1>5. \A k \in DOMAIN (a \o b) : k \in 1 .. Len(s) - 1
  BY <1>3
<1> QED
  BY <1>2, <1>3, <1>4, <1>5

(* The arguments a call has.                                               *)
LEMMA CallFields ==
  ASSUME NEW c \in Calls
  PROVE  /\ c.m \in {"createPool", "addVdev", "replaceDisk", "vdevAction", "expandPool"} =>
              c.pool \in PoolNames
         /\ c.m \in {"createPool", "addVdev", "expandPool"} => c.dev \in Devs
         /\ c.m \in {"replaceDisk", "vdevAction"} => c.dev \in Vdevs
         /\ c.m \in {"exportPool", "scrubAction"} => c.pool \in PoolNames
         /\ c.m = "replaceDisk" => c.old \in Vdevs
         /\ c.m = "vdevAction" => c.action \in {"detach", "offline", "online"}
         /\ c.m = "scrubAction" => c.action \in {"start", "pause", "stop"}
         /\ c.m = "createDataset" => c.dataset \in PoolNames \X Names /\ c.encrypted \in BOOLEAN
                                       /\ c.fs \in BOOLEAN
         /\ c.m \in {"deleteDataset", "unlockDataset", "lockDataset", "rewriteDataset"} =>
              c.dataset \in PoolNames \X Names
         /\ c.m = "createSnapshot" => c.dataset \in PoolNames \X (Names \cup {""})
         /\ c.m = "createReplicationJob" => c.target \in Routes
  BY DEF Calls

-----------------------------------------------------------------------------
(* Pools and disks.                                                        *)
LEMMA VdevFacts ==
  ASSUME NEW v \in VdevMaps, NEW d \in Vdevs, NEW status \in Statuses
  PROVE  /\ With(v, d, status) \in VdevMaps /\ DOMAIN With(v, d, status) = DOMAIN v \cup {d}
         /\ Without(v, d) \in VdevMaps /\ DOMAIN Without(v, d) = DOMAIN v \ {d}
<1>1. DOMAIN v \in SUBSET Vdevs /\ v \in [DOMAIN v -> Statuses]
  BY DEF VdevMaps
<1>2. DOMAIN v \cup {d} \in SUBSET Vdevs /\ DOMAIN v \ {d} \in SUBSET Vdevs
  BY <1>1
<1>3. With(v, d, status) \in [DOMAIN v \cup {d} -> Statuses]
  BY <1>1 DEF With
<1>4. Without(v, d) \in [DOMAIN v \ {d} -> Statuses]
  BY <1>1 DEF Without
<1>5. ASSUME NEW D \in SUBSET Vdevs, NEW f \in [D -> Statuses] PROVE f \in VdevMaps
  BY DEF VdevMaps
<1> QED
  BY <1>2, <1>3, <1>4, <1>5 DEF With, Without

LEMMA PoolIn == ASSUME StoreOK, NEW i \in DOMAIN pools PROVE pools[i] \in Pools
<1>1. pools \in Seq(Pools)
  BY DEF StoreOK
<1> QED
  BY <1>1, ElementOfSeq

(* One pool changed, and of what the lists say of it only its vdevs.       *)
Reshaped(i, v) ==
  /\ pools' \in Seq(Pools) /\ DOMAIN pools' = DOMAIN pools
  /\ \A j \in DOMAIN pools :
       /\ pools'[j].name = pools[j].name /\ pools'[j].listed = pools[j].listed
       /\ j # i => pools'[j].vdevs = pools[j].vdevs
  /\ pools'[i].vdevs = v

LEMMA SetPool ==
  ASSUME StoreOK, NEW i \in DOMAIN pools, NEW v \in VdevMaps, NEW s \in Scrubs,
         \/ pools' = [pools EXCEPT ![i].vdevs = v, ![i].scrub = s]
         \/ pools' = [pools EXCEPT ![i].vdevs = v]
         \/ pools' = [pools EXCEPT ![i].scrub = s] /\ v = pools[i].vdevs
  PROVE  Reshaped(i, v)
<1>1. pools \in Seq(Pools) /\ pools[i] \in Pools
  BY PoolIn DEF StoreOK
<1> DEFINE p == pools'[i]
<1>2. p \in Pools /\ p.name = pools[i].name /\ p.listed = pools[i].listed /\ p.vdevs = v
  <2>1. CASE pools' = [pools EXCEPT ![i].vdevs = v, ![i].scrub = s]
    <3>1. p = [name |-> pools[i].name, vdevs |-> v, raidz |-> pools[i].raidz, scrub |-> s,
               listed |-> pools[i].listed]
      BY <1>1, <2>1 DEF Pools
    <3> QED
      BY <1>1, <3>1 DEF Pools
  <2>2. CASE pools' = [pools EXCEPT ![i].vdevs = v]
    <3>1. p = [name |-> pools[i].name, vdevs |-> v, raidz |-> pools[i].raidz,
               scrub |-> pools[i].scrub, listed |-> pools[i].listed]
      BY <1>1, <2>2 DEF Pools
    <3> QED
      BY <1>1, <3>1 DEF Pools
  <2>3. CASE pools' = [pools EXCEPT ![i].scrub = s] /\ v = pools[i].vdevs
    <3>1. p = [name |-> pools[i].name, vdevs |-> v, raidz |-> pools[i].raidz, scrub |-> s,
               listed |-> pools[i].listed]
      BY <1>1, <2>3 DEF Pools
    <3> QED
      BY <1>1, <3>1 DEF Pools
  <2> QED
    BY <2>1, <2>2, <2>3
<1>3. /\ pools' = [pools EXCEPT ![i] = p]
      /\ DOMAIN pools' = DOMAIN pools /\ \A j \in DOMAIN pools : j # i => pools'[j] = pools[j]
  BY <1>1
<1> HIDE DEF p
<1>4. pools' \in Seq(Pools)
  BY <1>1, <1>2, <1>3
<1>5. p = pools'[i]
  BY <1>1, <1>3
<1> QED
  BY <1>2, <1>3, <1>4, <1>5 DEF Reshaped

(* What was stale stays so, and what a call is carried out on may become.  *)
Grows ==
  /\ stale.disks \subseteq stale'.disks /\ stale.datasets \subseteq stale'.datasets
  /\ stale.snaps \subseteq stale'.snaps

LEMMA MarkFacts ==
  ASSUME NEW c, Mark(c)
  PROVE  /\ Grows /\ stale'.disks = stale.disks \cup StaleDisks(c)
         /\ StaleDatasets(c) \subseteq stale'.datasets /\ StaleSnaps(c) \subseteq stale'.snaps
<1> DEFINE new == [disks |-> stale.disks \cup StaleDisks(c),
                   datasets |-> stale.datasets \cup StaleDatasets(c),
                   snaps |-> stale.snaps \cup StaleSnaps(c)]
<1>1. stale' = new
  BY DEF Mark
<1>2. /\ new.disks = stale.disks \cup StaleDisks(c)
      /\ new.datasets = stale.datasets \cup StaleDatasets(c)
      /\ new.snaps = stale.snaps \cup StaleSnaps(c)
  OBVIOUS
<1> HIDE DEF new
<1> QED
  BY <1>1, <1>2 DEF Grows

(* New vdevs come from free disks, and the disks follow, those that are    *)
(* not stale; none says it is in another pool than before or this one.     *)
Follows(i, v) ==
  /\ \A d \in Devs \ stale'.disks :
       /\ d \in DOMAIN v => d \in DOMAIN pools[i].vdevs \/ disks[d] = Free
       /\ d \in DOMAIN v => disks'[d] = pools[i].name
       /\ disks'[d] = disks[d] \/ disks[d] = Free \/ d \in DOMAIN pools[i].vdevs
  /\ \A d \in Devs : disks'[d] \in {disks[d], Free, pools[i].name}

LEMMA ReshapedFacts ==
  ASSUME StoreOK, NEW i \in DOMAIN pools, pools[i].listed, NEW v \in VdevMaps, Reshaped(i, v),
         disks' \in [Devs -> PoolNames \cup {Free}], UNCHANGED <<datasets, snaps>>
  PROVE  /\ StoreOK' /\ Listed' = Listed
         /\ Together /\ Grows /\ Follows(i, v) => Together'
<1>1. StoreOK'
  BY DEF StoreOK, Reshaped
<1>2. Listed' = Listed
  BY FindSame DEF Reshaped
<1>3. ASSUME Together, Grows, Follows(i, v) PROVE Together'
  <2>0. /\ \A j \in DOMAIN pools : pools[j].name # Free
        /\ pools[i].name \in Listed
    <3>1. \A j \in DOMAIN pools : pools[j] \in Pools
      BY PoolIn
    <3>2. \A n \in PoolNames : n # Free
      BY DEF PoolNames, Free
    <3> QED
      BY <3>1, <3>2 DEF Pools, Listed
  <2>1. VdevsOwned'
    <3> SUFFICES ASSUME NEW j \in DOMAIN pools, pools[j].listed,
                        NEW d \in (DOMAIN pools'[j].vdevs \cap Devs) \ stale'.disks
                 PROVE  disks'[d] = pools[j].name
      BY DEF VdevsOwned, Reshaped
    <3>1. CASE j = i
      BY <1>3, <3>1 DEF Follows, Reshaped
    <3>2. CASE j # i
      <4>1. d \in DOMAIN pools[j].vdevs /\ d \notin DOMAIN pools[i].vdevs /\ d \notin stale.disks
        BY <1>3, <2>0, <3>2 DEF Reshaped, Together, Disjoint, Grows
      <4>2. disks[d] = pools[j].name /\ disks[d] # Free
        BY <1>3, <2>0, <4>1 DEF Together, VdevsOwned
      <4> QED
        BY <1>3, <4>1, <4>2 DEF Follows
    <3> QED
      BY <3>1, <3>2
  <2>2. DisksOwned'
    <3>1. \A d \in Devs : disks'[d] \in Listed \cup {Free}
      BY <1>3, <2>0 DEF Follows, Together, DisksOwned
    <3> QED
      BY <1>2, <3>1 DEF DisksOwned
  <2>3. DatasetsOwned' /\ SnapsOwned'
    BY <1>2, <1>3 DEF Together, DatasetsOwned, SnapsOwned, Grows
  <2>4. Disjoint'
    <3>1. ASSUME NEW j \in DOMAIN pools, pools[j].listed, j # i,
                 NEW d \in Devs \ stale'.disks, d \in DOMAIN v, d \in DOMAIN pools[j].vdevs
          PROVE  FALSE
      BY <1>3, <2>0, <3>1 DEF Follows, Together, Disjoint, VdevsOwned, Grows
    <3>2. ASSUME NEW j \in DOMAIN pools, NEW k \in DOMAIN pools, pools[j].listed, pools[k].listed,
                 j # k
          PROVE  DOMAIN pools'[j].vdevs \cap DOMAIN pools'[k].vdevs \cap Devs \subseteq stale'.disks
      <4>1. CASE j = i
        BY <3>1, <3>2, <4>1 DEF Reshaped
      <4>2. CASE k = i
        BY <3>1, <3>2, <4>2 DEF Reshaped
      <4>3. CASE j # i /\ k # i
        BY <1>3, <3>2, <4>3 DEF Reshaped, Together, Disjoint, Grows
      <4> QED
        BY <4>1, <4>2, <4>3
    <3> QED
      BY <3>2 DEF Disjoint, Reshaped
  <2> QED
    BY <2>1, <2>2, <2>3, <2>4 DEF Together
<1> QED
  BY <1>1, <1>2, <1>3

(* What a method does to the lists.                                        *)
StoreMoves(c) ==
  /\ StoreOK' /\ DOMAIN pools \subseteq DOMAIN pools'
  /\ Together /\ Mark(c) => Together'

LEMMA NothingMoves == ASSUME StoreOK, NEW c, UNCHANGED store PROVE StoreMoves(c)
<1>1. UNCHANGED <<pools, disks, datasets, snaps>>
  BY DEF store
<1>2. StoreOK'
  BY <1>1 DEF StoreOK
<1>3. Listed' = Listed
  BY <1>1 DEF Listed
<1>4. Together /\ Grows => Together'
  BY <1>1, <1>3
     DEF Together, VdevsOwned, DisksOwned, DatasetsOwned, SnapsOwned, Disjoint, Grows
<1> QED
  BY <1>1, <1>2, <1>4, MarkFacts DEF StoreMoves

LEMMA ScrubTypes ==
  /\ Full \in Nat /\ Full > 1 /\ Idle \in Scrubs
  /\ \A k \in {"scrub", "expand"} : [state |-> "running", kind |-> k, pct |-> 0] \in Scrubs
  /\ \A s \in Scrubs : /\ \A a \in {"start", "pause", "stop"} : Scrubbed(s, a) \in Scrubs
                       /\ Ticked(s) \in Scrubs /\ [Ticked(s) EXCEPT !.kind = "scrub"] \in Scrubs
<1>1. Full \in Nat /\ Full > 1
  BY DemoAssumption DEF DemoAssumption
<1>2. Idle \in Scrubs
  BY <1>1 DEF Scrubs, Idle
<1>3. \A k \in {"scrub", "expand"} : [state |-> "running", kind |-> k, pct |-> 0] \in Scrubs
  BY <1>1 DEF Scrubs
<1>4. ASSUME NEW s \in Scrubs, NEW a \in {"start", "pause", "stop"} PROVE Scrubbed(s, a) \in Scrubs
  <2>1. /\ Scrubbed(s, "start") = [state |-> "running", kind |-> "scrub", pct |-> 0]
        /\ Scrubbed(s, "pause") = [s EXCEPT !.state = "none"]
        /\ Scrubbed(s, "stop") = [s EXCEPT !.state = "done", !.kind = "scrub"]
    BY DEF Scrubbed
  <2>2. [s EXCEPT !.state = "none"] \in Scrubs
    BY DEF Scrubs
  <2>3. [s EXCEPT !.state = "done", !.kind = "scrub"] \in Scrubs
    BY DEF Scrubs
  <2> QED
    BY <1>3, <2>1, <2>2, <2>3
<1>5. ASSUME NEW s \in Scrubs
      PROVE  Ticked(s) \in Scrubs /\ [Ticked(s) EXCEPT !.kind = "scrub"] \in Scrubs
  <2>1. s.pct \in 0 .. Full /\ s.pct \in Nat
    BY <1>1, <1>5 DEF Scrubs
  <2>2. CASE s.pct + 1 >= Full
    <3>1. Ticked(s) = [s EXCEPT !.state = "done", !.pct = Full]
      BY <2>2 DEF Ticked
    <3>2. Full \in 0 .. Full
      BY <1>1
    <3>3. [s EXCEPT !.state = "done", !.pct = Full] \in Scrubs
      BY <1>5, <3>2 DEF Scrubs
    <3>4. \A r \in Scrubs : [r EXCEPT !.kind = "scrub"] \in Scrubs
      BY DEF Scrubs
    <3> QED
      BY <3>1, <3>3, <3>4
  <2>3. CASE ~(s.pct + 1 >= Full)
    <3>1. Ticked(s) = [s EXCEPT !.pct = s.pct + 1] /\ s.pct + 1 \in 0 .. Full
      BY <1>1, <2>1, <2>3 DEF Ticked
    <3> QED
      BY <1>5, <3>1 DEF Scrubs
  <2> QED
    BY <2>2, <2>3
<1> QED
  BY <1>1, <1>2, <1>3, <1>4, <1>5

LEMMA InType ==
  ASSUME StoreOK, NEW D \in SUBSET Devs, NEW name \in PoolNames \cup {Free}
  PROVE  In(D, name) \in [Devs -> PoolNames \cup {Free}]
  BY DEF StoreOK, In

LEMMA CreatePoolStep ==
  ASSUME StoreOK, NEW c \in Calls, c.m = "createPool", CreatePool(c)
  PROVE  StoreMoves(c) /\ timers' = timers
<1> DEFINE new == [name |-> c.pool, vdevs |-> [d \in {c.dev} |-> "ONLINE"],
                   raidz |-> FALSE, scrub |-> Idle, listed |-> TRUE]
           n == Len(pools) + 1
<1>1. c.pool \in PoolNames /\ c.dev \in Devs
  BY CallFields
<1>2. /\ pools' = Append(pools, new) /\ disks' = In({c.dev}, c.pool)
      /\ UNCHANGED <<datasets, snaps, timers>>
  BY DEF CreatePool
<1>3. [d \in {c.dev} |-> "ONLINE"] \in [{c.dev} -> Statuses] /\ c.dev \in Vdevs
  BY <1>1 DEF Statuses, Vdevs
<1>4. [d \in {c.dev} |-> "ONLINE"] \in VdevMaps
  BY <1>1, <1>3 DEF VdevMaps
<1>5. new \in Pools
  BY <1>1, <1>4, ScrubTypes DEF Pools
<1>6. new.name = c.pool /\ new.listed /\ DOMAIN new.vdevs = {c.dev}
  OBVIOUS
<1> HIDE DEF new
<1>7. pools \in Seq(Pools)
  BY DEF StoreOK
<1>8. /\ pools' \in Seq(Pools) /\ DOMAIN pools' = DOMAIN pools \cup {n} /\ n \notin DOMAIN pools
      /\ pools'[n] = new /\ \A i \in DOMAIN pools : pools'[i] = pools[i]
  BY <1>2, <1>5, <1>7
<1> HIDE DEF n
<1>9. StoreOK'
  BY <1>1, <1>2, <1>8, InType DEF StoreOK
<1>10. Listed' = Listed \cup {c.pool}
  BY <1>6, <1>8 DEF Listed
<1>11. ASSUME Together, Mark(c) PROVE Together'
  <2>0. /\ Grows /\ stale'.disks = stale.disks \cup StaleDisks(c)
        /\ disks[c.dev] = Free \/ c.dev \in stale'.disks
    BY <1>1, <1>11, MarkFacts DEF StaleDisks, FreeDevs
  <2>1. \A i \in DOMAIN pools :
          pools[i].listed /\ c.dev \notin stale'.disks => c.dev \notin DOMAIN pools[i].vdevs
    <3>1. \A i \in DOMAIN pools : pools[i].name # Free
      BY PoolIn DEF Pools, PoolNames, Free
    <3> QED
      BY <1>1, <1>11, <2>0, <3>1 DEF Together, VdevsOwned, Grows
  <2>2. \A d \in Devs : disks'[d] = IF d = c.dev THEN c.pool ELSE disks[d]
    BY <1>2 DEF In
  <2>4. VdevsOwned'
    BY <1>1, <1>6, <1>8, <1>11, <2>0, <2>1, <2>2 DEF Together, VdevsOwned, Grows
  <2>5. DisksOwned'
    BY <1>10, <1>11, <2>2 DEF Together, DisksOwned
  <2>6. DatasetsOwned' /\ SnapsOwned'
    BY <1>2, <1>10, <1>11, <2>0 DEF Together, DatasetsOwned, SnapsOwned, Grows
  <2>7. Disjoint'
    BY <1>6, <1>8, <1>11, <2>0, <2>1 DEF Together, Disjoint, Grows
  <2> QED
    BY <2>4, <2>5, <2>6, <2>7 DEF Together
<1> QED
  BY <1>2, <1>8, <1>9, <1>11 DEF StoreMoves

LEMMA ExportPoolStep ==
  ASSUME StoreOK, NEW c \in Calls, c.m = "exportPool", ExportPool(c)
  PROVE  StoreMoves(c) /\ timers' = timers
<1>1. CASE ~c.destroy
  BY <1>1, NothingMoves DEF ExportPool
<1>2. CASE c.destroy
  <2>1. /\ pools' = [i \in DOMAIN pools |->
                      [pools[i] EXCEPT !.listed = pools[i].listed /\ pools[i].name # c.pool]]
        /\ disks' = In({d \in Devs : disks[d] = c.pool}, Free)
        /\ datasets' = [k \in {k \in DOMAIN datasets : k[1] # c.pool} |-> datasets[k]]
        /\ snaps' = {k \in snaps : k[1] # c.pool} /\ timers' = timers
    BY <1>2 DEF ExportPool
  <2>2. ASSUME NEW i \in DOMAIN pools
        PROVE  /\ pools'[i] \in Pools /\ pools'[i].name = pools[i].name
               /\ pools'[i].vdevs = pools[i].vdevs
               /\ pools'[i].listed = (pools[i].listed /\ pools[i].name # c.pool)
    BY <2>1, PoolIn DEF Pools
  <2>3. DOMAIN pools' = DOMAIN pools /\ pools' \in Seq(Pools)
    <3>1. DOMAIN pools' = DOMAIN pools
      BY <2>1
    <3>2. DOMAIN pools = 1 .. Len(pools) /\ Len(pools) \in Nat
      BY LenProperties DEF StoreOK
    <3>3. pools' \in [1 .. Len(pools) -> Pools]
      BY <2>1, <2>2, <3>2
    <3> QED
      BY <3>1, <3>2, <3>3
  <2>4. disks' \in [Devs -> PoolNames \cup {Free}]
    BY <2>1, InType
  <2>5. StoreOK'
    BY <2>1, <2>3, <2>4 DEF StoreOK
  <2>6. Listed' = Listed \ {c.pool}
    BY <2>2, <2>3 DEF Listed
  <2>7. ASSUME Together, Grows PROVE Together'
    <3>1. \A d \in Devs : disks'[d] = IF disks[d] = c.pool THEN Free ELSE disks[d]
      BY <2>1 DEF In
    <3>2. VdevsOwned'
      <4>2. ASSUME NEW i \in DOMAIN pools, pools[i].listed, pools[i].name # c.pool,
                   
                   NEW d \in (DOMAIN pools[i].vdevs \cap Devs) \ stale'.disks
            PROVE  disks'[d] = pools[i].name
        BY <2>7, <3>1, <4>2 DEF Together, VdevsOwned, Grows
      <4> QED
        BY <2>2, <2>3, <4>2 DEF VdevsOwned
    <3>3. DisksOwned'
      BY <2>6, <2>7, <3>1 DEF Together, DisksOwned
    <3>4. DatasetsOwned'
      BY <2>1, <2>6, <2>7 DEF Together, DatasetsOwned, Grows
    <3>5. SnapsOwned'
      BY <2>1, <2>6, <2>7 DEF Together, SnapsOwned, Grows
    <3>6. Disjoint'
      BY <2>2, <2>3, <2>7 DEF Together, Disjoint, Grows
    <3> QED
      BY <3>2, <3>3, <3>4, <3>5, <3>6 DEF Together
  <2> QED
    BY <2>1, <2>3, <2>5, <2>7, MarkFacts DEF StoreMoves
<1> QED
  BY <1>1, <1>2

LEMMA AddVdevStep ==
  ASSUME StoreOK, NEW c \in Calls, c.m = "addVdev", AddVdev(c)
  PROVE  StoreMoves(c) /\ timers' = timers
<1> DEFINE i == Find(c.pool)
           v == With(pools[i].vdevs, c.dev, "ONLINE")
<1>1. CASE i = 0
  BY <1>1, NothingMoves DEF AddVdev, OnPool
<1>2. CASE i # 0
  <2>1. /\ pools' = [pools EXCEPT ![i].vdevs = v] /\ disks' = In({c.dev}, c.pool)
        /\ UNCHANGED <<datasets, snaps, timers>>
    BY <1>2 DEF AddVdev, OnPool
  <2>2. c.pool \in PoolNames /\ c.dev \in Devs
    BY CallFields
  <2>a. c.dev \in Vdevs
    BY <2>2 DEF Vdevs
  <2>3. i \in DOMAIN pools /\ pools[i].listed /\ pools[i].name = c.pool
    BY <1>2, FindFacts DEF StoreOK
  <2>4. pools[i].vdevs \in VdevMaps /\ pools[i].scrub \in Scrubs
    BY <2>3, PoolIn DEF Pools
  <2> HIDE DEF i
  <2>5. v \in VdevMaps /\ DOMAIN v = DOMAIN pools[i].vdevs \cup {c.dev}
    BY <2>a, <2>4, VdevFacts DEF Statuses
  <2> HIDE DEF v
  <2>6. Reshaped(i, v) /\ disks' \in [Devs -> PoolNames \cup {Free}]
    BY <2>1, <2>2, <2>3, <2>4, <2>5, SetPool, InType
  <2>7. ASSUME Together, Mark(c) PROVE Grows /\ Follows(i, v)
    <3>0. /\ Grows /\ stale'.disks = stale.disks \cup StaleDisks(c)
          /\ disks[c.dev] = Free \/ c.dev \in stale'.disks
      BY <2>2, <2>3, <2>7, MarkFacts DEF StaleDisks, FreeDevs, Listed
    <3>1. \A d \in Devs : disks'[d] = IF d = c.dev THEN c.pool ELSE disks[d]
      BY <2>1 DEF In
    <3>2. \A d \in (DOMAIN pools[i].vdevs \cap Devs) \ stale.disks : disks[d] = pools[i].name
      BY <2>3, <2>7 DEF Together, VdevsOwned
    <3> QED
      BY <2>2, <2>3, <2>5, <3>0, <3>1, <3>2 DEF Follows, Grows
  <2> QED
    BY <2>1, <2>3, <2>5, <2>6, <2>7, ReshapedFacts DEF StoreMoves, Reshaped
<1> QED
  BY <1>1, <1>2

LEMMA ReplaceDiskStep ==
  ASSUME StoreOK, NEW c \in Calls, c.m = "replaceDisk", ReplaceDisk(c)
  PROVE  StoreMoves(c) /\ timers' = timers
<1> DEFINE i == Find(c.pool)
           v == IF c.old \in DOMAIN pools[i].vdevs
                THEN With(Without(pools[i].vdevs, c.old), c.dev, "ONLINE") ELSE pools[i].vdevs
<1>1. CASE i = 0
  BY <1>1, NothingMoves DEF ReplaceDisk, OnPool
<1>2. CASE i # 0
  <2>1. /\ pools' = [pools EXCEPT ![i].vdevs = v]
        /\ disks' = [d \in Devs |-> IF d = c.dev THEN c.pool
                                   ELSE IF d = c.old THEN Free ELSE disks[d]]
        /\ UNCHANGED <<datasets, snaps, timers>>
    BY <1>2 DEF ReplaceDisk, OnPool
  <2>2. c.pool \in PoolNames /\ c.dev \in Vdevs /\ c.old \in Vdevs
    BY CallFields
  <2>3. i \in DOMAIN pools /\ pools[i].listed /\ pools[i].name = c.pool
    BY <1>2, FindFacts DEF StoreOK
  <2>4. pools[i].vdevs \in VdevMaps /\ pools[i].scrub \in Scrubs
    BY <2>3, PoolIn DEF Pools
  <2>5. c.old \in Members(c.pool) <=> c.old \in DOMAIN pools[i].vdevs
    BY <1>2 DEF Members
  <2> HIDE DEF i
  <2>6. /\ v \in VdevMaps
        /\ c.old \in DOMAIN pools[i].vdevs =>
             DOMAIN v = (DOMAIN pools[i].vdevs \ {c.old}) \cup {c.dev}
        /\ c.old \notin DOMAIN pools[i].vdevs => v = pools[i].vdevs
    <3>1. CASE c.old \in DOMAIN pools[i].vdevs
      <4>1. /\ Without(pools[i].vdevs, c.old) \in VdevMaps
            /\ DOMAIN Without(pools[i].vdevs, c.old) = DOMAIN pools[i].vdevs \ {c.old}
        BY <2>2, <2>4, VdevFacts DEF Statuses
      <4> QED
        BY <2>2, <3>1, <4>1, VdevFacts DEF Statuses
    <3>2. CASE c.old \notin DOMAIN pools[i].vdevs
      BY <2>4, <3>2
    <3> QED
      BY <3>1, <3>2
  <2> HIDE DEF v
  <2>7. disks' \in [Devs -> PoolNames \cup {Free}]
    BY <2>1, <2>2 DEF StoreOK
  <2>8. Reshaped(i, v)
    BY <2>1, <2>3, <2>4, <2>6, SetPool
  <2>9. ASSUME Together, Mark(c) PROVE Grows /\ Follows(i, v)
    <3>0. /\ Grows /\ stale'.disks = stale.disks \cup StaleDisks(c)
          /\ c.dev \in Devs \ stale'.disks => disks[c.dev] = Free
          /\ c.old \in Devs \ stale'.disks => c.old \in DOMAIN pools[i].vdevs
      BY <2>3, <2>5, <2>9, MarkFacts DEF StaleDisks, FreeDevs, Listed
    <3>1. \A d \in Devs : disks'[d] = IF d = c.dev THEN c.pool
                                      ELSE IF d = c.old THEN Free ELSE disks[d]
      BY <2>1
    <3>2. \A d \in (DOMAIN pools[i].vdevs \cap Devs) \ stale.disks : disks[d] = pools[i].name
      BY <2>3, <2>9 DEF Together, VdevsOwned
    <3>3. DOMAIN v \subseteq DOMAIN pools[i].vdevs \cup {c.dev}
      BY <2>6
    <3>4. c.old \in Devs \ stale'.disks => c.old = c.dev \/ c.old \notin DOMAIN v
      BY <2>6, <3>0
    <3>5. ASSUME NEW d \in Devs \ stale'.disks
          PROVE  /\ d \in DOMAIN v => d \in DOMAIN pools[i].vdevs \/ disks[d] = Free
                 /\ d \in DOMAIN v => disks'[d] = pools[i].name
                 /\ disks'[d] = disks[d] \/ disks[d] = Free \/ d \in DOMAIN pools[i].vdevs
      BY <2>3, <3>0, <3>1, <3>2, <3>3, <3>4 DEF Grows
    <3>6. \A d \in Devs : disks'[d] \in {disks[d], Free, pools[i].name}
      BY <2>3, <3>1
    <3> QED
      BY <3>0, <3>5, <3>6 DEF Follows
  <2> QED
    BY <2>1, <2>3, <2>5, <2>6, <2>7, <2>8, <2>9, ReshapedFacts DEF StoreMoves, Reshaped
<1> QED
  BY <1>1, <1>2

LEMMA VdevActionStep ==
  ASSUME StoreOK, NEW c \in Calls, c.m = "vdevAction", VdevAction(c)
  PROVE  StoreMoves(c) /\ timers' = timers
<1> DEFINE i == Find(c.pool)
           w == pools[i].vdevs
           v == IF c.dev \notin DOMAIN w THEN w
                ELSE CASE c.action = "detach" -> Without(w, c.dev)
                       [] c.action = "offline" -> With(w, c.dev, "OFFLINE")
                       [] c.action = "online" -> With(w, c.dev, "ONLINE")
<1>1. CASE i = 0
  BY <1>1, NothingMoves DEF VdevAction, OnPool
<1>2. CASE i # 0
  <2>1. pools' = [pools EXCEPT ![i].vdevs = v] /\ UNCHANGED <<disks, datasets, snaps, timers>>
    BY <1>2 DEF VdevAction, OnPool
  <2>2. c.dev \in Vdevs /\ c.action \in {"detach", "offline", "online"}
    BY CallFields
  <2>3. i \in DOMAIN pools /\ pools[i].listed
    BY <1>2, FindFacts DEF StoreOK
  <2>4. w \in VdevMaps /\ pools[i].scrub \in Scrubs
    BY <2>3, PoolIn DEF Pools
  <2> HIDE DEF i
  <2>5. v \in VdevMaps /\ DOMAIN v \subseteq DOMAIN w
    <3> HIDE DEF w
    <3>1. CASE c.dev \notin DOMAIN w
      BY <2>4, <3>1
    <3>2. CASE c.dev \in DOMAIN w
      <4>1. v \in {Without(w, c.dev), With(w, c.dev, "OFFLINE"), With(w, c.dev, "ONLINE")}
        BY <2>2, <3>2
      <4> HIDE DEF v
      <4>2. /\ Without(w, c.dev) \in VdevMaps /\ DOMAIN Without(w, c.dev) = DOMAIN w \ {c.dev}
            /\ \A u \in Statuses : /\ With(w, c.dev, u) \in VdevMaps
                                  /\ DOMAIN With(w, c.dev, u) = DOMAIN w \cup {c.dev}
        BY <2>2, <2>4, VdevFacts DEF Statuses
      <4>3. "OFFLINE" \in Statuses /\ "ONLINE" \in Statuses
        BY DEF Statuses
      <4> QED
        BY <3>2, <4>1, <4>2, <4>3
    <3> QED
      BY <3>1, <3>2
  <2> HIDE DEF v
  <2>6. Reshaped(i, v)
    BY <2>1, <2>3, <2>4, <2>5, SetPool
  <2>7. disks' \in [Devs -> PoolNames \cup {Free}]
    BY <2>1 DEF StoreOK
  <2>8. ASSUME Together, Grows PROVE Follows(i, v)
    BY <2>1, <2>3, <2>5, <2>8 DEF Follows, Together, VdevsOwned, Grows
  <2> QED
    BY <2>1, <2>3, <2>5, <2>6, <2>7, <2>8, ReshapedFacts, MarkFacts DEF StoreMoves, Reshaped
<1> QED
  BY <1>1, <1>2

(* A scrub changes nothing that the lists say of one another.              *)
ScrubMoves ==
  /\ StoreOK' /\ DOMAIN pools' = DOMAIN pools /\ Listed' = Listed
  /\ Together /\ Grows => Together'
  /\ UNCHANGED <<disks, datasets, snaps>>

LEMMA ScrubMove ==
  ASSUME StoreOK, NEW i \in DOMAIN pools, NEW s \in Scrubs,
         pools' = [pools EXCEPT ![i].scrub = s], UNCHANGED <<disks, datasets, snaps>>
  PROVE  ScrubMoves
<1> DEFINE v == pools[i].vdevs
<1>1. v \in VdevMaps
  BY PoolIn DEF Pools
<1>2. Reshaped(i, v)
  <2> HIDE DEF v
  <2>1. v = pools[i].vdevs
    BY DEF v
  <2> QED
    BY <1>1, <2>1, SetPool
<1>3. StoreOK'
  BY <1>2 DEF StoreOK, Reshaped
<1>4. Listed' = Listed
  BY <1>2, FindSame DEF Reshaped
<1>5. /\ DOMAIN pools' = DOMAIN pools
      /\ \A j \in DOMAIN pools :
           /\ pools'[j].vdevs = pools[j].vdevs /\ pools'[j].name = pools[j].name
           /\ pools'[j].listed = pools[j].listed
  BY <1>2 DEF Reshaped
<1>6. ASSUME Together, Grows PROVE Together'
  <2>1. VdevsOwned'
    BY <1>5, <1>6 DEF Together, VdevsOwned, Grows
  <2>2. Disjoint'
    BY <1>5, <1>6 DEF Together, Disjoint, Grows
  <2>3. DisksOwned' /\ DatasetsOwned' /\ SnapsOwned'
    BY <1>4, <1>6 DEF Together, DisksOwned, DatasetsOwned, SnapsOwned, Grows
  <2> QED
    BY <2>1, <2>2, <2>3 DEF Together
<1> QED
  BY <1>3, <1>4, <1>5, <1>6 DEF ScrubMoves

LEMMA ScrubActionStep ==
  ASSUME StoreOK, NEW c \in Calls, c.m = "scrubAction", ScrubAction(c)
  PROVE  StoreMoves(c) /\ timers' = timers
<1> DEFINE i == Find(c.pool)
<1>1. CASE i = 0
  <2>1. UNCHANGED store /\ timers' = timers
    BY <1>1 DEF ScrubAction, store
  <2> QED
    BY <2>1, NothingMoves
<1>2. CASE i # 0
  <2>1. /\ pools' = [pools EXCEPT ![i].scrub = Scrubbed(pools[i].scrub, c.action)]
        /\ UNCHANGED <<disks, datasets, snaps, timers>>
    BY <1>2 DEF ScrubAction
  <2>2. i \in DOMAIN pools /\ c.action \in {"start", "pause", "stop"}
    BY <1>2, FindFacts, CallFields DEF StoreOK
  <2>3. Scrubbed(pools[i].scrub, c.action) \in Scrubs
    BY <2>2, PoolIn, ScrubTypes DEF Pools
  <2> QED
    BY <2>1, <2>2, <2>3, ScrubMove, MarkFacts DEF ScrubMoves, StoreMoves
<1> QED
  BY <1>1, <1>2

LEMMA ExpandPoolStep ==
  ASSUME StoreOK, NEW c \in Calls, c.m = "expandPool", NEW n, ExpandPool(c, n)
  PROVE  /\ StoreMoves(c)
         /\ timers' = timers \/ \E i \in DOMAIN pools : SetInterval("expand", i, n)
<1> DEFINE i == Find(c.pool)
           v == With(pools[i].vdevs, c.dev, "ONLINE")
           s == [state |-> "running", kind |-> "expand", pct |-> 0]
<1>1. CASE i = 0 \/ ~pools[i].raidz \/ disks[c.dev] # Free \/ c.dev \in in_use
  BY <1>1, NothingMoves DEF ExpandPool
<1>2. CASE i # 0 /\ disks[c.dev] = Free /\ pools[i].raidz /\ c.dev \notin in_use
  <2>1. /\ pools' = [pools EXCEPT ![i].vdevs = v, ![i].scrub = s]
        /\ disks' = In({c.dev}, c.pool) /\ SetInterval("expand", i, n)
        /\ UNCHANGED <<datasets, snaps>>
    BY <1>2 DEF ExpandPool
  <2>2. c.pool \in PoolNames /\ c.dev \in Devs
    BY CallFields
  <2>a. c.dev \in Vdevs
    BY <2>2 DEF Vdevs
  <2>3. i \in DOMAIN pools /\ pools[i].listed /\ pools[i].name = c.pool
    BY <1>2, FindFacts DEF StoreOK
  <2>4. pools[i].vdevs \in VdevMaps /\ s \in Scrubs
    BY <2>3, PoolIn, ScrubTypes DEF Pools
  <2> HIDE DEF i, s
  <2>5. v \in VdevMaps /\ DOMAIN v = DOMAIN pools[i].vdevs \cup {c.dev}
    BY <2>a, <2>4, VdevFacts DEF Statuses
  <2> HIDE DEF v
  <2>6. Reshaped(i, v) /\ disks' \in [Devs -> PoolNames \cup {Free}]
    BY <2>1, <2>2, <2>3, <2>4, <2>5, SetPool, InType
  <2>7. ASSUME Together, Grows PROVE Follows(i, v)
    <3>1. \A d \in Devs : disks'[d] = IF d = c.dev THEN c.pool ELSE disks[d]
      BY <2>1 DEF In
    <3>2. \A d \in (DOMAIN pools[i].vdevs \cap Devs) \ stale.disks : disks[d] = pools[i].name
      BY <2>3, <2>7 DEF Together, VdevsOwned
    <3> QED
      BY <1>2, <2>2, <2>3, <2>5, <2>7, <3>1, <3>2 DEF Follows, Grows
  <2> QED
    BY <2>1, <2>3, <2>5, <2>6, <2>7, ReshapedFacts, MarkFacts DEF StoreMoves, Reshaped
<1> QED
  BY <1>1, <1>2

-----------------------------------------------------------------------------
(* Datasets and snapshots.                                                 *)
Whole(d) == d \in Datasets /\ (d.mounted => d.fs /\ d.unlocked)

LEMMA DatasetsStep ==
  ASSUME StoreOK, UNCHANGED <<pools, disks>>,
         DOMAIN datasets' \subseteq PoolNames \X Names,
         datasets' \in [DOMAIN datasets' -> Datasets],
         \A k \in DOMAIN datasets' : Whole(datasets'[k]),
         snaps' \subseteq PoolNames \X (Names \cup {""})
  PROVE  /\ StoreOK' /\ Listed' = Listed /\ DOMAIN pools' = DOMAIN pools
         /\ Together /\ Grows => VdevsOwned' /\ DisksOwned' /\ Disjoint'
<1>1. StoreOK'
  BY DEF StoreOK, Whole
<1>2. Listed' = Listed
  BY DEF Listed
<1> QED
  BY <1>1, <1>2 DEF Together, VdevsOwned, DisksOwned, Disjoint, Grows

LEMMA WholeOnes == StoreOK => \A k \in DOMAIN datasets : Whole(datasets[k])
  BY DEF StoreOK, Whole

LEMMA CreateDatasetStep ==
  ASSUME StoreOK, NEW c \in Calls, c.m = "createDataset", CreateDataset(c)
  PROVE  StoreMoves(c) /\ timers' = timers
<1> DEFINE new == [Plain EXCEPT !.encrypted = c.encrypted, !.fs = c.fs, !.mounted = c.fs]
<1>1. c.dataset \in PoolNames \X Names /\ c.encrypted \in BOOLEAN /\ c.fs \in BOOLEAN
  BY CallFields
<1>2. /\ datasets' = [k \in DOMAIN datasets \cup {c.dataset} |->
                        IF k \in DOMAIN datasets THEN datasets[k] ELSE new]
      /\ UNCHANGED <<pools, disks, snaps, timers>>
  BY DEF CreateDataset
<1>3. Whole(new)
  BY <1>1 DEF Plain, Datasets, Whole
<1> HIDE DEF new
<1>4. DOMAIN datasets' = DOMAIN datasets \cup {c.dataset}
  BY <1>2
<1>5. \A k \in DOMAIN datasets' : Whole(datasets'[k])
  BY <1>2, <1>3, <1>4, WholeOnes
<1>6. datasets' \in [DOMAIN datasets' -> Datasets]
  BY <1>2, <1>5 DEF Whole
<1>7. /\ snaps' \subseteq PoolNames \X (Names \cup {""})
      /\ DOMAIN datasets \subseteq PoolNames \X Names
  BY <1>2 DEF StoreOK
<1>8. /\ StoreOK' /\ Listed' = Listed /\ DOMAIN pools' = DOMAIN pools
      /\ Together /\ Grows => VdevsOwned' /\ DisksOwned' /\ Disjoint'
  BY <1>1, <1>2, <1>4, <1>5, <1>6, <1>7, DatasetsStep
<1>9. Together /\ Mark(c) => DatasetsOwned' /\ SnapsOwned'
  BY <1>2, <1>4, <1>8, MarkFacts
     DEF Together, StaleDatasets, DatasetsOwned, SnapsOwned, Grows
<1> QED
  BY <1>2, <1>8, <1>9, MarkFacts DEF StoreMoves, Together

LEMMA DeleteDatasetStep ==
  ASSUME StoreOK, NEW c \in Calls, c.m = "deleteDataset", DeleteDataset(c)
  PROVE  StoreMoves(c) /\ timers' = timers
<1>1. /\ datasets' = [k \in DOMAIN datasets \ {c.dataset} |-> datasets[k]]
      /\ snaps' = snaps \ {c.dataset} /\ UNCHANGED <<pools, disks, timers>>
  BY DEF DeleteDataset
<1>2. DOMAIN datasets' = DOMAIN datasets \ {c.dataset}
  BY <1>1
<1>3. \A k \in DOMAIN datasets' : Whole(datasets'[k])
  BY <1>1, <1>2, WholeOnes
<1>4. datasets' \in [DOMAIN datasets' -> Datasets]
  BY <1>1, <1>3 DEF Whole
<1>5. /\ snaps' \subseteq PoolNames \X (Names \cup {""})
      /\ DOMAIN datasets' \subseteq PoolNames \X Names
  BY <1>1, <1>2 DEF StoreOK
<1>6. /\ StoreOK' /\ Listed' = Listed /\ DOMAIN pools' = DOMAIN pools
      /\ Together /\ Grows => VdevsOwned' /\ DisksOwned' /\ Disjoint'
  BY <1>1, <1>3, <1>4, <1>5, DatasetsStep
<1>7. Together /\ Grows => DatasetsOwned' /\ SnapsOwned'
  BY <1>1, <1>2, <1>6 DEF Together, DatasetsOwned, SnapsOwned, Grows
<1> QED
  BY <1>1, <1>6, <1>7, MarkFacts DEF StoreMoves, Together

(* Locking and unlocking change one dataset that is there.                 *)
LEMMA KeyStep ==
  ASSUME StoreOK, NEW c \in Calls, NEW d, Whole(d),
         \/ datasets' = datasets
         \/ c.dataset \in DOMAIN datasets /\ datasets' = [datasets EXCEPT ![c.dataset] = d],
         UNCHANGED <<pools, disks, snaps>>
  PROVE  StoreMoves(c)
<1>1. DOMAIN datasets' = DOMAIN datasets
  OBVIOUS
<1>2. \A k \in DOMAIN datasets : datasets'[k] = datasets[k] \/ datasets'[k] = d
  OBVIOUS
<1>3. \A k \in DOMAIN datasets' : Whole(datasets'[k])
  BY <1>1, <1>2, WholeOnes
<1>4. datasets' \in [DOMAIN datasets' -> Datasets]
  <2>1. datasets' = [k \in DOMAIN datasets' |-> datasets'[k]]
    BY DEF StoreOK
  <2> QED
    BY <1>3, <2>1 DEF Whole
<1>5. /\ snaps' \subseteq PoolNames \X (Names \cup {""})
      /\ DOMAIN datasets' \subseteq PoolNames \X Names
  BY <1>1 DEF StoreOK
<1>6. /\ StoreOK' /\ Listed' = Listed /\ DOMAIN pools' = DOMAIN pools
      /\ Together /\ Grows => VdevsOwned' /\ DisksOwned' /\ Disjoint'
  BY <1>3, <1>4, <1>5, DatasetsStep
<1>7. Together /\ Grows => DatasetsOwned' /\ SnapsOwned'
  BY <1>1, <1>6 DEF Together, DatasetsOwned, SnapsOwned, Grows
<1> QED
  BY <1>6, <1>7, MarkFacts DEF StoreMoves, Together

LEMMA UnlockDatasetStep ==
  ASSUME StoreOK, NEW c \in Calls, c.m = "unlockDataset", UnlockDataset(c)
  PROVE  StoreMoves(c) /\ timers' = timers
<1> DEFINE o == datasets[c.dataset]
           d == [o EXCEPT !.unlocked = TRUE, !.mounted = o.mounted \/ o.fs]
<1>1. UNCHANGED <<pools, disks, snaps, timers>>
  BY DEF UnlockDataset
<1>2. CASE ~Encrypted(c)
  BY <1>1, <1>2, NothingMoves DEF UnlockDataset, store
<1>3. CASE Encrypted(c)
  <2>1. c.dataset \in DOMAIN datasets /\ Whole(o)
    BY <1>3, WholeOnes DEF Encrypted
  <2>2. datasets' = [datasets EXCEPT ![c.dataset] = d]
    BY <1>3, <2>1 DEF UnlockDataset
  <2>3. Whole(d)
    <3> HIDE DEF o
    <3> QED
      BY <2>1 DEF Whole, Datasets
  <2> HIDE DEF d
  <2> QED
    BY <1>1, <2>1, <2>2, <2>3, KeyStep
<1> QED
  BY <1>2, <1>3

LEMMA LockDatasetStep ==
  ASSUME StoreOK, NEW c \in Calls, c.m = "lockDataset", LockDataset(c)
  PROVE  StoreMoves(c) /\ timers' = timers
<1> DEFINE o == datasets[c.dataset]
           d == [o EXCEPT !.unlocked = FALSE, !.mounted = FALSE]
<1>1. UNCHANGED <<pools, disks, snaps, timers>>
  BY DEF LockDataset
<1>2. CASE ~Encrypted(c)
  BY <1>1, <1>2, NothingMoves DEF LockDataset, store
<1>3. CASE Encrypted(c)
  <2>1. c.dataset \in DOMAIN datasets /\ Whole(o)
    BY <1>3, WholeOnes DEF Encrypted
  <2>2. datasets' = [datasets EXCEPT ![c.dataset] = d]
    BY <1>3, <2>1 DEF LockDataset
  <2>3. Whole(d)
    <3> HIDE DEF o
    <3> QED
      BY <2>1 DEF Whole, Datasets
  <2> HIDE DEF d
  <2> QED
    BY <1>1, <2>1, <2>2, <2>3, KeyStep
<1> QED
  BY <1>2, <1>3

LEMMA CreateSnapshotStep ==
  ASSUME StoreOK, NEW c \in Calls, c.m = "createSnapshot", CreateSnapshot(c)
  PROVE  StoreMoves(c) /\ timers' = timers
<1>1. c.dataset \in PoolNames \X (Names \cup {""})
  BY CallFields
<1>2. UNCHANGED <<pools, disks, datasets, timers>>
  BY DEF CreateSnapshot
<1>3. \A k \in snaps' : k \in snaps \/ k \in DOMAIN datasets \/ (~c.recursive /\ k = c.dataset)
  BY DEF CreateSnapshot
<1>4. snaps' \subseteq PoolNames \X (Names \cup {""})
  <2>1. DOMAIN datasets \subseteq PoolNames \X (Names \cup {""})
    BY DEF StoreOK
  <2> QED
    BY <1>1, <1>3, <2>1 DEF StoreOK
<1>5. /\ StoreOK' /\ Listed' = Listed /\ DOMAIN pools' = DOMAIN pools
      /\ Together /\ Grows => VdevsOwned' /\ DisksOwned' /\ Disjoint'
  BY <1>2, <1>4, WholeOnes, DatasetsStep DEF StoreOK
<1>6. Together /\ Mark(c) => DatasetsOwned' /\ SnapsOwned'
  BY <1>2, <1>3, <1>5, MarkFacts
     DEF Together, StaleSnaps, DatasetsOwned, SnapsOwned, Grows
<1> QED
  BY <1>2, <1>5, <1>6, MarkFacts DEF StoreMoves, Together

(* Every method that changes the lists keeps their types and what they say *)
(* of one another, of all but what it was carried out on too late.         *)
LEMMA OnStoreStep ==
  ASSUME StoreOK, NEW c \in Calls, NEW n, OnStore(c, n)
  PROVE  /\ StoreMoves(c)
         /\ timers' = timers \/ \E i \in DOMAIN pools : SetInterval("expand", i, n)
  BY CreatePoolStep, ExportPoolStep, AddVdevStep, ReplaceDiskStep, VdevActionStep, ScrubActionStep,
     ExpandPoolStep, CreateDatasetStep, DeleteDatasetStep, UnlockDatasetStep, LockDatasetStep,
     CreateSnapshotStep DEF OnStore

-----------------------------------------------------------------------------
(* Intervals.                                                              *)
LEMMA SetIntervalFacts ==
  ASSUME TimersOK, left \in BOOLEAN, NEW of \in {"expand", "op"}, NEW object \in Nat, NEW n \in Nat,
         SetInterval(of, object, n)
  PROVE  \E t \in Timers : /\ timers' = timers \cup {t} /\ t.of = of /\ t.object = object
                           /\ t.late = left
<1> DEFINE t == [of |-> of, object |-> object, by |-> n, step |-> 0, late |-> left]
<1>1. t \in Timers /\ timers' = timers \cup {t}
  BY DEF Timers, SetInterval
<1>2. t.of = of /\ t.object = object /\ t.late = left
  OBVIOUS
<1> QED
  BY <1>1, <1>2

(* An interval for an expansion, or the end of one, is nothing to the      *)
(* operations.                                                             *)
LEMMA OpsTimers ==
  ASSUME OpsOK, UNCHANGED <<longops, replJobs, history, left>>,
         \A t \in timers : t.of = "op" => \E u \in timers' : u.of = "op" /\ u.object = t.object,
         left => \A t \in timers' : t.late
  PROVE  OpsOK' /\ EndsOnce
<1>1. OneRunning' /\ EndRecorded' /\ LastShown'
  BY DEF OpsOK, OneRunning, EndRecorded, LastShown
<1>2. RunningTicks'
  BY DEF OpsOK, RunningTicks
<1>3. TimersFreed'
  BY DEF TimersFreed
<1>4. EndsOnce
  BY DEF EndsOnce
<1> QED
  BY <1>1, <1>2, <1>3, <1>4 DEF OpsOK

-----------------------------------------------------------------------------
(* Long operations and replications.                                       *)
LEMMA OpIn ==
  ASSUME RunnerOK, NEW i \in DOMAIN longops
  PROVE  /\ longops[i] \in Operation(Len(replJobs)) /\ Len(replJobs) \in Nat /\ i \in Nat
         /\ longops[i].type = "replication" => longops[i].job \in DOMAIN replJobs
<1>1. longops \in Seq(Operation(Len(replJobs))) /\ replJobs \in Seq(Jobs)
  BY DEF RunnerOK
<1>2. longops[i] \in Operation(Len(replJobs)) /\ Len(replJobs) \in Nat
  BY <1>1, ElementOfSeq, LenProperties
<1>3. DOMAIN replJobs = 1 .. Len(replJobs) /\ DOMAIN longops = 1 .. Len(longops)
  BY <1>1, LenProperties
<1> QED
  BY <1>2, <1>3 DEF RunnerOK, Operation

LEMMA RowIn ==
  ASSUME RunnerOK, NEW r \in DOMAIN history
  PROVE  /\ history[r] \in Ended /\ history[r].op \in DOMAIN longops
         /\ longops[history[r].op].job \in DOMAIN replJobs
<1>1. history \in Seq(Ended)
  BY DEF RunnerOK
<1>2. history[r] \in Ended
  BY <1>1, ElementOfSeq
<1> QED
  BY <1>2, OpIn DEF RunnerOK

LEMMA JobIn == ASSUME RunnerOK, NEW j \in DOMAIN replJobs PROVE replJobs[j] \in Jobs
<1>1. replJobs \in Seq(Jobs)
  BY DEF RunnerOK
<1> QED
  BY <1>1, ElementOfSeq

RunnerMoves ==
  /\ RunnerOK' /\ OpsOK' /\ EndsOnce
  /\ DOMAIN longops \subseteq DOMAIN longops' /\ DOMAIN replJobs \subseteq DOMAIN replJobs'

(* Nothing happens to the operations.                                      *)
LEMMA NoRunner ==
  ASSUME RunnerOK, TimersOK, OpsOK, left' = left, pools' = pools, UNCHANGED <<runner, timers>>
  PROVE  RunnerMoves /\ TimersOK'
<1>1. UNCHANGED <<longops, replJobs, history, timers>>
  BY DEF runner
<1>2. RunnerOK'
  BY <1>1 DEF RunnerOK
<1>3. TimersOK'
  BY <1>1 DEF TimersOK
<1>4. OpsOK' /\ EndsOnce
  BY <1>1, OpsTimers DEF OpsOK, TimersFreed
<1> QED
  BY <1>1, <1>2, <1>3, <1>4 DEF RunnerMoves

(* What a job shows depends on which jobs the operations have, and on no   *)
(* more of them.                                                           *)
LEMMA SameJobs ==
  ASSUME RunnerOK, LastShown, history' = history,
         \A j \in DOMAIN longops : longops'[j].job = longops[j].job,
         \A j \in DOMAIN replJobs : replJobs'[j].last = replJobs[j].last
  PROVE  LastShown'
<1>1. \A r \in DOMAIN history : longops'[history[r].op].job = longops[history[r].op].job
  BY RowIn
<1>2. \A r \in DOMAIN history : \A q \in r + 1 .. Len(history) : q \in DOMAIN history
  BY LenProperties DEF RunnerOK
<1> SUFFICES ASSUME NEW r \in DOMAIN history,
                    \A q \in r + 1 .. Len(history) :
                      longops'[history[q].op].job # longops'[history[r].op].job
             PROVE  replJobs'[longops'[history[r].op].job].last = history[r].how
  BY DEF LastShown
<1>3. \A q \in r + 1 .. Len(history) : longops[history[q].op].job # longops[history[r].op].job
  BY <1>1, <1>2
<1>4. replJobs[longops[history[r].op].job].last = history[r].how
  BY <1>3 DEF LastShown
<1> QED
  BY <1>1, <1>4, RowIn

LEMMA StartStep ==
  ASSUME RunnerOK, TimersOK, OpsOK, left \in BOOLEAN, left' = left,
         NEW type \in {"rewrite", "replication"},
         NEW target \in Routes \cup (PoolNames \X Names), NEW job \in 0 .. Len(replJobs),
         type = "replication" => job # 0, ~Running(target), NEW n \in Nat,
         Start(type, target, job, n), pools' = pools
  PROVE  RunnerMoves /\ TimersOK'
<1> DEFINE new == [type |-> type, target |-> target, job |-> job, status |-> "running"]
           k == Len(longops) + 1
<1>1. /\ longops' = Append(longops, new) /\ SetInterval("op", k, n)
      /\ UNCHANGED <<replJobs, history>>
  BY DEF Start
<1>2. longops \in Seq(Operation(Len(replJobs)))
  BY DEF RunnerOK
<1>3. new \in Operation(Len(replJobs))
  BY DEF Operation
<1>4. new.type = type /\ new.target = target /\ new.job = job /\ new.status = "running"
  OBVIOUS
<1> HIDE DEF new
<1>5. /\ longops' \in Seq(Operation(Len(replJobs))) /\ DOMAIN longops' = DOMAIN longops \cup {k}
      /\ k \notin DOMAIN longops /\ longops'[k] = new /\ k \in Nat
      /\ \A i \in DOMAIN longops : longops'[i] = longops[i]
  BY <1>1, <1>2, <1>3
<1> HIDE DEF k
<1>6. PICK t \in Timers : /\ timers' = timers \cup {t} /\ t.of = "op" /\ t.object = k
                          /\ t.late = left
  BY <1>1, <1>5, SetIntervalFacts
<1>7. RunnerOK'
  BY <1>1, <1>4, <1>5 DEF RunnerOK
<1>8. OneRunning'
  <2>1. \A i \in DOMAIN longops : longops[i].status = "running" => longops[i].target # target
    BY DEF Running
  <2> QED
    BY <1>4, <1>5, <2>1 DEF OpsOK, OneRunning
<1>9. RunningTicks'
  BY <1>5, <1>6 DEF OpsOK, RunningTicks
<1>10. EndRecorded'
  <2>1. \A r \in DOMAIN history : history[r].op # k
    BY <1>5, RowIn
  <2>2. ASSUME NEW i \in DOMAIN longops
        PROVE  LET rows == {r \in DOMAIN history : history[r].op = i}
               IN  IF longops'[i].type = "replication" /\ longops'[i].status \in {"done", "error"}
                   THEN \E r \in rows : rows = {r} /\ history[r].how = longops'[i].status
                   ELSE rows = {}
    BY <1>5 DEF OpsOK, EndRecorded
  <2> QED
    BY <1>1, <1>4, <1>5, <2>1, <2>2 DEF EndRecorded
<1>11. LastShown'
  BY <1>1, <1>5, SameJobs DEF OpsOK
<1>12. TimersFreed'
  BY <1>6 DEF OpsOK, TimersFreed
<1>13. EndsOnce
  BY <1>5 DEF EndsOnce
<1>14. TimersOK'
  BY <1>5, <1>6 DEF TimersOK
<1> QED
  BY <1>1, <1>5, <1>7, <1>8, <1>9, <1>10, <1>11, <1>12, <1>13, <1>14 DEF OpsOK, RunnerMoves

LEMMA RewriteDatasetStep ==
  ASSUME StoreOK, RunnerOK, TimersOK, OpsOK, left \in BOOLEAN, left' = left, pools' = pools,
         NEW c \in Calls, c.m = "rewriteDataset", NEW n \in Nat, RewriteDataset(c, n)
  PROVE  RunnerMoves /\ TimersOK'
<1>1. CASE UNCHANGED <<runner, timers>>
  BY <1>1, NoRunner
<1>2. CASE ~Running(c.dataset) /\ Start("rewrite", c.dataset, 0, n)
  <2>1. c.dataset \in Routes \cup (PoolNames \X Names)
    BY CallFields
  <2>2. 0 \in 0 .. Len(replJobs)
    BY LenProperties DEF RunnerOK
  <2> QED
    BY <1>2, <2>1, <2>2, StartStep
<1> QED
  BY <1>1, <1>2 DEF RewriteDataset

LEMMA RunReplicationJobStep ==
  ASSUME StoreOK, RunnerOK, TimersOK, OpsOK, left \in BOOLEAN, left' = left, pools' = pools,
         NEW c \in Calls, c.job \in DOMAIN replJobs, NEW n \in Nat, RunReplicationJob(c, n)
  PROVE  RunnerMoves /\ TimersOK'
<1>1. CASE UNCHANGED <<runner, timers>>
  BY <1>1, NoRunner
<1>2. CASE /\ ~Running(replJobs[c.job].target)
           /\ Start("replication", replJobs[c.job].target, c.job, n)
  <2>1. replJobs[c.job].target \in Routes \cup (PoolNames \X Names)
    BY JobIn DEF Jobs
  <2>2. c.job \in 0 .. Len(replJobs) /\ c.job # 0
    <3>1. DOMAIN replJobs = 1 .. Len(replJobs) /\ Len(replJobs) \in Nat
      BY LenProperties DEF RunnerOK
    <3> QED
      BY <3>1
  <2> QED
    BY <1>2, <2>1, <2>2, StartStep
<1> QED
  BY <1>1, <1>2 DEF RunReplicationJob

(* A status changes: the end of an operation, or its cancel.               *)
Restatus(i, status) ==
  /\ longops' \in Seq(Operation(Len(replJobs))) /\ DOMAIN longops' = DOMAIN longops
  /\ \A j \in DOMAIN longops :
       /\ j # i => longops'[j] = longops[j]
       /\ longops'[j].type = longops[j].type /\ longops'[j].target = longops[j].target
       /\ longops'[j].job = longops[j].job
  /\ longops'[i].status = status

LEMMA SetStatus ==
  ASSUME RunnerOK, NEW i \in DOMAIN longops, NEW status \in {"done", "error", "canceled"},
         longops' = [longops EXCEPT ![i].status = status]
  PROVE  Restatus(i, status)
<1> DEFINE op == longops'[i]
<1>1. longops \in Seq(Operation(Len(replJobs))) /\ longops[i] \in Operation(Len(replJobs))
  BY OpIn DEF RunnerOK
<1>2. /\ op \in Operation(Len(replJobs)) /\ op.status = status
      /\ op.type = longops[i].type /\ op.target = longops[i].target /\ op.job = longops[i].job
  BY <1>1 DEF Operation
<1>3. /\ longops' = [longops EXCEPT ![i] = op]
      /\ DOMAIN longops' = DOMAIN longops
      /\ \A j \in DOMAIN longops : j # i => longops'[j] = longops[j]
  BY <1>1
<1>4. op = longops'[i]
  OBVIOUS
<1> HIDE DEF op
<1>5. longops' \in Seq(Operation(Len(replJobs)))
  BY <1>1, <1>2, <1>3
<1> QED
  BY <1>2, <1>3, <1>4, <1>5 DEF Restatus

(* What ends, however it does, leaves the others as they were.             *)
LEMMA RestatusOps ==
  ASSUME RunnerOK, OpsOK, NEW i \in DOMAIN longops, longops[i].status = "running",
         NEW status \in {"done", "error", "canceled"}, Restatus(i, status), left' = left,
         \A t \in timers : t \in timers' \/ (t.of = "op" /\ t.object = i),
         \A t \in timers' : t \in timers
  PROVE  OneRunning' /\ RunningTicks' /\ TimersFreed' /\ EndsOnce
<1>1. OneRunning'
  BY DEF OpsOK, OneRunning, Restatus
<1>2. RunningTicks'
  BY DEF OpsOK, RunningTicks, Restatus
<1>3. TimersFreed'
  BY DEF OpsOK, TimersFreed
<1>4. EndsOnce
  BY DEF EndsOnce, Restatus
<1> QED
  BY <1>1, <1>2, <1>3, <1>4

LEMMA CancelLongOpStep ==
  ASSUME RunnerOK, TimersOK, OpsOK, left' = left, pools' = pools,
         NEW c \in Calls, c.op \in DOMAIN longops, CancelLongOp(c)
  PROVE  RunnerMoves /\ TimersOK'
<1> DEFINE i == c.op
<1>1. UNCHANGED <<replJobs, history, timers>>
  BY DEF CancelLongOp
<1>2. CASE longops[i].status # "running"
  <2>1. UNCHANGED <<runner, timers>>
    BY <1>1, <1>2 DEF CancelLongOp, runner
  <2> QED
    BY <2>1, NoRunner
<1>3. CASE longops[i].status = "running"
  <2>1. Restatus(i, "canceled")
    BY <1>3, SetStatus DEF CancelLongOp
  <2>2. OneRunning' /\ RunningTicks' /\ TimersFreed' /\ EndsOnce
    BY <1>1, <1>3, <2>1, RestatusOps
  <2>3. RunnerOK'
    BY <1>1, <2>1 DEF RunnerOK, Restatus
  <2>4. EndRecorded'
    <3>1. ASSUME NEW j \in DOMAIN longops
          PROVE  LET rows == {r \in DOMAIN history : history[r].op = j}
                 IN  IF longops'[j].type = "replication" /\ longops'[j].status \in {"done", "error"}
                     THEN \E r \in rows : rows = {r} /\ history[r].how = longops'[j].status
                     ELSE rows = {}
      BY <1>3, <2>1 DEF OpsOK, EndRecorded, Restatus
    <3> QED
      BY <1>1, <2>1, <3>1 DEF EndRecorded, Restatus
  <2>5. LastShown'
    BY <1>1, <2>1, SameJobs DEF OpsOK, Restatus
  <2>6. TimersOK'
    BY <1>1, <2>1 DEF TimersOK, Restatus
  <2> QED
    BY <1>1, <2>1, <2>2, <2>3, <2>4, <2>5, <2>6 DEF RunnerMoves, OpsOK, Restatus
<1> QED
  BY <1>2, <1>3

(* The end of an operation: its record, and what its job shows of it.      *)
LEMMA EndsStep ==
  ASSUME RunnerOK, TimersOK, OpsOK, left' = left, pools' = pools,
         NEW t \in timers, t.of = "op", longops[t.object].status = "running",
         Ends(t.object), timers' = timers \ {t}
  PROVE  RunnerMoves /\ TimersOK'
<1> DEFINE i == t.object
           op == longops[i]
           how == IF op.type = "replication" /\ replJobs[op.job].ssh THEN "error" ELSE "done"
           row == [op |-> i, how |-> how]
<1>1. i \in DOMAIN longops /\ i \in Nat
  BY OpIn DEF TimersOK
<1>2. /\ longops' = [longops EXCEPT ![i].status = how]
      /\ IF op.type = "replication"
         THEN /\ replJobs' = [replJobs EXCEPT ![op.job].last = how]
              /\ history' = Append(history, row)
         ELSE UNCHANGED <<replJobs, history>>
  BY DEF Ends
<1>3. how \in {"done", "error"}
  OBVIOUS
<1> HIDE DEF how
<1>4. Restatus(i, how)
  BY <1>1, <1>2, <1>3, SetStatus
<1>5. OneRunning' /\ RunningTicks' /\ TimersFreed' /\ EndsOnce
  BY <1>1, <1>3, <1>4, RestatusOps
<1>6. {r \in DOMAIN history : history[r].op = i} = {}
  BY <1>1 DEF OpsOK, EndRecorded
<1>7. TimersOK'
  BY <1>4 DEF TimersOK, Restatus
<1>8. CASE op.type # "replication"
  <2>1. UNCHANGED <<replJobs, history>>
    BY <1>2, <1>8
  <2>2. RunnerOK'
    BY <1>4, <2>1 DEF RunnerOK, Restatus
  <2>3. LastShown'
    BY <1>4, <2>1, SameJobs DEF OpsOK, Restatus
  <2>4. EndRecorded'
    <3>1. ASSUME NEW j \in DOMAIN longops
          PROVE  LET rows == {r \in DOMAIN history : history[r].op = j}
                 IN  IF longops'[j].type = "replication" /\ longops'[j].status \in {"done", "error"}
                     THEN \E r \in rows : rows = {r} /\ history[r].how = longops'[j].status
                     ELSE rows = {}
      BY <1>4, <1>6, <1>8 DEF OpsOK, EndRecorded, Restatus
    <3> QED
      BY <1>4, <2>1, <3>1 DEF EndRecorded, Restatus
  <2> QED
    BY <1>4, <1>5, <1>7, <2>1, <2>2, <2>3, <2>4 DEF RunnerMoves, OpsOK, Restatus
<1>9. CASE op.type = "replication"
  <2> DEFINE k == Len(history) + 1
  <2>1. /\ replJobs' = [replJobs EXCEPT ![op.job].last = how] /\ history' = Append(history, row)
        /\ op.job \in DOMAIN replJobs
    BY <1>1, <1>2, <1>9, OpIn
  <2>2. row \in Ended /\ row.op = i /\ row.how = how
    BY <1>1, <1>3 DEF Ended
  <2> HIDE DEF row
  <2>3. history \in Seq(Ended) /\ replJobs \in Seq(Jobs)
    BY DEF RunnerOK
  <2>4. /\ history' \in Seq(Ended) /\ DOMAIN history' = DOMAIN history \cup {k}
        /\ Len(history') = k /\ DOMAIN history = 1 .. Len(history) /\ Len(history) \in Nat
        /\ k \notin DOMAIN history /\ history'[k] = row
        /\ \A r \in DOMAIN history : history'[r] = history[r]
    BY <2>1, <2>2, <2>3
  <2>5. [replJobs[op.job] EXCEPT !.last = how] \in Jobs
    BY <1>3, <2>1, JobIn DEF Jobs
  <2>6. /\ replJobs' \in Seq(Jobs) /\ Len(replJobs') = Len(replJobs)
        /\ DOMAIN replJobs' = DOMAIN replJobs
    BY <2>1, <2>3, <2>5
  <2>7. \A j \in DOMAIN replJobs : replJobs'[j].last = IF j = op.job THEN how ELSE replJobs[j].last
    <3>1. replJobs[op.job] \in Jobs
      BY <2>1, JobIn
    <3> QED
      BY <2>1, <2>3, <3>1 DEF Jobs
  <2> HIDE DEF k, op, i
  <2>8. RunnerOK'
    <3>1. \A r \in DOMAIN history' :
            history'[r].op \in DOMAIN longops' /\ longops'[history'[r].op].type = "replication"
      BY <1>1, <1>4, <1>9, <2>2, <2>4, RowIn DEF RunnerOK, Restatus, i, op
    <3> QED
      BY <1>4, <2>4, <2>6, <3>1 DEF RunnerOK, Restatus
  <2>9. EndRecorded'
    <3>1. {r \in DOMAIN history' : history'[r].op = i} = {k}
      BY <1>6, <2>2, <2>4 DEF i
    <3>2. ASSUME NEW j \in DOMAIN longops, j # i
          PROVE  {r \in DOMAIN history' : history'[r].op = j}
                   = {r \in DOMAIN history : history[r].op = j}
      BY <2>2, <2>4, <3>2
    <3>3. ASSUME NEW j \in DOMAIN longops
          PROVE  LET rows == {r \in DOMAIN history' : history'[r].op = j}
                 IN  IF longops'[j].type = "replication" /\ longops'[j].status \in {"done", "error"}
                     THEN \E r \in rows : rows = {r} /\ history'[r].how = longops'[j].status
                     ELSE rows = {}
      <4>1. CASE j = i
        BY <1>3, <1>4, <1>9, <2>2, <2>4, <3>1, <4>1 DEF Restatus, i, op
      <4>2. CASE j # i
        <5>1. longops'[j] = longops[j]
          BY <1>4, <4>2 DEF Restatus, i
        <5>2. \A r \in {r \in DOMAIN history : history[r].op = j} : history'[r] = history[r]
          BY <2>4
        <5> QED
          BY <3>2, <4>2, <5>1, <5>2 DEF OpsOK, EndRecorded
      <4> QED
        BY <4>1, <4>2
    <3> QED
      BY <1>4, <3>3 DEF EndRecorded, Restatus
  <2>10. LastShown'
    <3>1. \A r \in DOMAIN history : longops'[history[r].op].job = longops[history[r].op].job
      BY <1>4, RowIn DEF Restatus
    <3>2. longops'[row.op].job = op.job
      BY <1>1, <1>4, <2>2 DEF Restatus, i, op
    <3> SUFFICES ASSUME NEW r \in DOMAIN history',
                        \A q \in r + 1 .. Len(history') :
                          longops'[history'[q].op].job # longops'[history'[r].op].job
                 PROVE  replJobs'[longops'[history'[r].op].job].last = history'[r].how
      BY DEF LastShown
    <3>3. CASE r = k
      BY <2>1, <2>2, <2>4, <2>7, <3>2, <3>3
    <3>4. CASE r \in DOMAIN history
      <4>1. k \in r + 1 .. Len(history')
        BY <2>4, <3>4 DEF k
      <4>2. longops[history[r].op].job # op.job
        BY <2>4, <3>1, <3>2, <3>4, <4>1
      <4>3. \A q \in r + 1 .. Len(history) :
              q \in DOMAIN history /\ q \in r + 1 .. Len(history')
        BY <2>4, <3>4 DEF k
      <4>4. \A q \in r + 1 .. Len(history) :
              longops[history[q].op].job # longops[history[r].op].job
        BY <2>4, <3>1, <3>4, <4>3
      <4>5. replJobs[longops[history[r].op].job].last = history[r].how
        BY <3>4, <4>4 DEF OpsOK, LastShown
      <4> QED
        BY <2>4, <2>7, <3>1, <3>4, <4>2, <4>5, RowIn
    <3> QED
      BY <2>4, <3>3, <3>4
  <2> QED
    BY <1>4, <1>5, <1>7, <2>6, <2>8, <2>9, <2>10 DEF RunnerMoves, OpsOK, Restatus
<1> QED
  BY <1>8, <1>9

LEMMA OpTickStep ==
  ASSUME RunnerOK, TimersOK, OpsOK, left' = left, pools' = pools, NEW t \in timers, OpTick(t)
  PROVE  RunnerMoves /\ TimersOK'
<1>1. t.of = "op" /\ t \in Timers /\ t.object \in DOMAIN longops
  BY DEF OpTick, TimersOK
<1>2. CASE longops[t.object].status # "running"
  <2>1. timers' = timers \ {t} /\ UNCHANGED <<longops, replJobs, history>>
    BY <1>2 DEF OpTick, runner
  <2>2. OneRunning' /\ EndRecorded' /\ LastShown' /\ EndsOnce
    BY <2>1 DEF OpsOK, OneRunning, EndRecorded, LastShown, EndsOnce
  <2>3. RunningTicks' /\ TimersFreed'
    BY <1>2, <2>1 DEF OpsOK, RunningTicks, TimersFreed
  <2>4. RunnerOK' /\ TimersOK'
    BY <2>1 DEF RunnerOK, TimersOK
  <2> QED
    BY <2>1, <2>2, <2>3, <2>4 DEF RunnerMoves, OpsOK
<1>3. CASE longops[t.object].status = "running" /\ t.step = 2
  BY <1>1, <1>3, EndsStep DEF OpTick
<1>4. CASE longops[t.object].status = "running" /\ t.step # 2
  <2> DEFINE u == [t EXCEPT !.step = t.step + 1]
  <2>1. timers' = (timers \ {t}) \cup {u} /\ UNCHANGED <<longops, replJobs, history>>
    BY <1>4 DEF OpTick, runner
  <2>2. u \in Timers /\ u.of = t.of /\ u.object = t.object /\ u.late = t.late
    BY <1>1, <1>4 DEF Timers
  <2> HIDE DEF u
  <2>3. left => \A w \in timers' : w.late
    BY <2>1, <2>2 DEF OpsOK, TimersFreed
  <2>4. OpsOK' /\ EndsOnce
    BY <2>1, <2>2, <2>3, OpsTimers
  <2>5. RunnerOK' /\ TimersOK'
    BY <2>1, <2>2 DEF RunnerOK, TimersOK
  <2> QED
    BY <2>1, <2>4, <2>5 DEF RunnerMoves
<1> QED
  BY <1>2, <1>3, <1>4

LEMMA CreateReplicationJobStep ==
  ASSUME RunnerOK, TimersOK, OpsOK, left' = left, pools' = pools,
         NEW c \in Calls, c.m = "createReplicationJob", CreateReplicationJob(c)
  PROVE  RunnerMoves /\ TimersOK'
<1> DEFINE new == [target |-> c.target, ssh |-> c.target = Remote, last |-> "never",
                   listed |-> TRUE]
<1>1. replJobs' = Append(replJobs, new) /\ UNCHANGED <<longops, history, timers>>
  BY DEF CreateReplicationJob
<1>2. new \in Jobs
  BY CallFields DEF Jobs
<1> HIDE DEF new
<1>3. replJobs \in Seq(Jobs) /\ longops \in Seq(Operation(Len(replJobs)))
  BY DEF RunnerOK
<1>4. /\ replJobs' \in Seq(Jobs) /\ Len(replJobs') = Len(replJobs) + 1 /\ Len(replJobs) \in Nat
      /\ DOMAIN replJobs \subseteq DOMAIN replJobs'
      /\ \A j \in DOMAIN replJobs : replJobs'[j] = replJobs[j]
  BY <1>1, <1>2, <1>3
<1>5. Operation(Len(replJobs)) \subseteq Operation(Len(replJobs'))
  BY <1>4 DEF Operation
<1>6. longops' \in Seq(Operation(Len(replJobs')))
  BY <1>1, <1>3, <1>5, SeqMonotonic
<1>7. RunnerOK' /\ TimersOK'
  BY <1>1, <1>4, <1>6 DEF RunnerOK, TimersOK
<1>8. LastShown'
  BY <1>1, <1>4, SameJobs DEF OpsOK
<1>9. OneRunning' /\ RunningTicks' /\ EndRecorded' /\ TimersFreed' /\ EndsOnce
  BY <1>1 DEF OpsOK, OneRunning, RunningTicks, EndRecorded, TimersFreed, EndsOnce
<1> QED
  BY <1>1, <1>4, <1>7, <1>8, <1>9 DEF RunnerMoves, OpsOK

LEMMA DeleteReplicationJobStep ==
  ASSUME RunnerOK, TimersOK, OpsOK, left' = left, pools' = pools,
         NEW c \in Calls, c.job \in DOMAIN replJobs, DeleteReplicationJob(c)
  PROVE  RunnerMoves /\ TimersOK'
<1>1. /\ replJobs' = [replJobs EXCEPT ![c.job].listed = FALSE]
      /\ UNCHANGED <<longops, history, timers>>
  BY DEF DeleteReplicationJob
<1>2. replJobs \in Seq(Jobs) /\ replJobs[c.job] \in Jobs
  BY JobIn DEF RunnerOK
<1>3. [replJobs[c.job] EXCEPT !.listed = FALSE] \in Jobs
  BY <1>2 DEF Jobs
<1>4. /\ replJobs' \in Seq(Jobs) /\ Len(replJobs') = Len(replJobs)
      /\ DOMAIN replJobs' = DOMAIN replJobs
  BY <1>1, <1>2, <1>3
<1>5. \A j \in DOMAIN replJobs : replJobs'[j].last = replJobs[j].last
  BY <1>1, <1>2 DEF Jobs
<1>6. RunnerOK' /\ TimersOK'
  BY <1>1, <1>4 DEF RunnerOK, TimersOK
<1>7. LastShown'
  BY <1>1, <1>5, SameJobs DEF OpsOK
<1>8. OneRunning' /\ RunningTicks' /\ EndRecorded' /\ TimersFreed' /\ EndsOnce
  BY <1>1 DEF OpsOK, OneRunning, RunningTicks, EndRecorded, TimersFreed, EndsOnce
<1> QED
  BY <1>1, <1>4, <1>6, <1>7, <1>8 DEF RunnerMoves, OpsOK

(* Every method of the operations keeps what is said of them.              *)
LEMMA OnRunnerStep ==
  ASSUME StoreOK, RunnerOK, TimersOK, OpsOK, left \in BOOLEAN, left' = left, pools' = pools,
         NEW c \in Calls, NEW n \in Nat, OnRunner(c, n),
         c.m = "cancelLongOp" => c.op \in DOMAIN longops,
         c.m \in {"runReplicationJob", "deleteReplicationJob"} => c.job \in DOMAIN replJobs
  PROVE  RunnerMoves /\ TimersOK'
  BY RewriteDatasetStep, RunReplicationJobStep, CancelLongOpStep, CreateReplicationJobStep,
     DeleteReplicationJobStep DEF OnRunner

-----------------------------------------------------------------------------
(* The steps.                                                              *)

(* What is offered is of the right kind.                                   *)
LEMMA AskedCalls ==
  ASSUME StoreOK, RunnerOK,
         NEW c \in IF part = "pools" THEN PoolCalls ELSE OperationCalls
  PROVE  /\ c \in Calls
         /\ c.m = "cancelLongOp" => c.op \in DOMAIN longops
         /\ c.m \in {"runReplicationJob", "deleteReplicationJob"} => c.job \in DOMAIN replJobs
<1>1. Listed \subseteq PoolNames /\ FreeDevs \subseteq Devs
  BY PoolIn DEF Listed, FreeDevs, Pools
<1>a. {Sent(d) : d \in FreeDevs \ in_use} \subseteq Vdevs
  BY <1>1 DEF Sent, Vdevs
<1>2. \A p : Members(p) \subseteq Vdevs
  <2> SUFFICES ASSUME NEW p, Find(p) # 0 PROVE DOMAIN pools[Find(p)].vdevs \subseteq Vdevs
    BY DEF Members
  <2>1. pools \in Seq(Pools)
    BY DEF StoreOK
  <2>2. Find(p) \in DOMAIN pools
    BY <2>1, FindFacts
  <2>3. pools[Find(p)].vdevs \in VdevMaps
    BY <2>2, PoolIn DEF Pools
  <2> QED
    BY <2>3 DEF VdevMaps
<1>3. DOMAIN datasets \subseteq PoolNames \X Names
  BY DEF StoreOK
<1>4. DOMAIN longops \subseteq Nat /\ DOMAIN replJobs \subseteq Nat
  BY DEF RunnerOK
<1>5. "nuevo" \in PoolNames /\ "nuevo" \in Names /\ "" \in Names \cup {""}
  BY DEF PoolNames, Names
<1>6. CASE c \in PoolCalls
  <2> DEFINE
    Creates == [m : {"createPool"}, pool : {"nuevo"}, dev : FreeDevs]
    Exports == [m : {"exportPool"}, pool : Listed, destroy : BOOLEAN]
    Adds == [m : {"addVdev"}, pool : Listed, dev : FreeDevs \ in_use]
    Replaces(p) == [m : {"replaceDisk"}, pool : {p}, old : Members(p),
                    dev : {Sent(d) : d \in FreeDevs \ in_use}]
    Acts(p) == [m : {"vdevAction"}, pool : {p}, dev : Members(p),
                action : {"detach", "offline", "online"}]
    Scrubbings == [m : {"scrubAction"}, pool : Listed, action : {"start", "pause", "stop"}]
    Expands == [m : {"expandPool"}, pool : Listed, dev : FreeDevs \ in_use]
    Makes == [m : {"createDataset"}, dataset : Listed \X {"nuevo"}, encrypted : BOOLEAN,
              fs : BOOLEAN]
    Deletes == [m : {"deleteDataset"}, dataset : DOMAIN datasets]
    Snaps == [m : {"createSnapshot"}, dataset : DOMAIN datasets \cup (Listed \X {""}),
              recursive : BOOLEAN]
  <2>1. \/ c \in Creates \/ c \in Exports \/ c \in Adds \/ c \in Scrubbings \/ c \in Expands
        \/ c \in Makes \/ c \in Deletes \/ c \in Snaps
        \/ \E p \in Listed : c \in Replaces(p)
        \/ \E p \in Listed : c \in Acts(p)
    <3> DEFINE Replacing == UNION {Replaces(p) : p \in Listed}
               Acting == UNION {Acts(p) : p \in Listed}
    <3>0. VdevCalls \subseteq Acting
      BY DEF VdevCalls
    <3>1. c \in Creates \cup Exports \cup Adds \cup Replacing \cup Acting \cup Scrubbings
               \cup Expands \cup Makes \cup Deletes \cup Snaps
      BY <1>6, <3>0, Zenon DEF PoolCalls
    <3> HIDE DEF Creates, Exports, Adds, Replaces, Acts, Scrubbings, Expands, Makes, Deletes, Snaps
    <3> QED
      BY <3>1
  <2>2. CASE c \in Creates
    BY <1>1, <1>5, <2>2 DEF Calls
  <2>3. CASE c \in Exports \/ c \in Scrubbings
    BY <1>1, <2>3 DEF Calls
  <2>4. CASE c \in Adds \/ c \in Expands
    BY <1>1, <2>4 DEF Calls
  <2>5. ASSUME NEW p \in Listed, c \in Replaces(p)
        PROVE  c \in Calls /\ c.m = "replaceDisk"
    <3>1. c \in [m : {"replaceDisk"}, pool : PoolNames, old : Vdevs, dev : Vdevs]
      BY <1>1, <1>a, <1>2, <2>5
    <3>2. c \in Calls
      BY <3>1 DEF Calls
    <3> QED
      BY <2>5, <3>2
  <2>6. ASSUME NEW p \in Listed, c \in Acts(p)
        PROVE  c \in Calls /\ c.m = "vdevAction"
    <3>1. c \in [m : {"vdevAction"}, pool : PoolNames, dev : Vdevs,
                 action : {"detach", "offline", "online"}]
      BY <1>1, <1>2, <2>6
    <3>2. c \in Calls
      BY <3>1 DEF Calls
    <3> QED
      BY <2>6, <3>2
  <2>7. CASE c \in Makes
    BY <1>1, <1>5, <2>7 DEF Calls
  <2>8. CASE c \in Deletes
    BY <1>3, <2>8 DEF Calls
  <2>9. CASE c \in Snaps
    BY <1>1, <1>3, <2>9 DEF Calls
  <2>10. CASE \E p \in Listed : c \in Replaces(p)
    BY <2>5, <2>10
  <2>11. CASE \E p \in Listed : c \in Acts(p)
    BY <2>6, <2>11
  <2> QED
    BY <2>1, <2>2, <2>3, <2>4, <2>7, <2>8, <2>9, <2>10, <2>11
<1>7. CASE c \in OperationCalls
  <2>1. CASE c \in [m : {"rewriteDataset"}, dataset : {k \in DOMAIN datasets : datasets[k].mounted}]
    BY <1>3, <2>1 DEF Calls
  <2>2. CASE c \in [m : {"lockDataset", "unlockDataset"},
                    dataset : {k \in DOMAIN datasets : datasets[k].encrypted}]
    BY <1>3, <2>2 DEF Calls
  <2>3. CASE c \in [m : {"deleteDataset"}, dataset : DOMAIN datasets]
    BY <1>3, <2>3 DEF Calls
  <2>4. CASE c \in [m : {"cancelLongOp"},
                    op : {i \in DOMAIN longops : longops[i].status = "running"}]
    BY <1>4, <2>4 DEF Calls
  <2>5. CASE c \in [m : {"runReplicationJob", "deleteReplicationJob"},
                    job : {j \in DOMAIN replJobs : replJobs[j].listed}]
    BY <1>4, <2>5 DEF Calls
  <2>6. CASE c \in [m : {"createReplicationJob"}, target : Routes]
    BY <2>6 DEF Calls
  <2> QED
    BY <1>7, <2>1, <2>2, <2>3, <2>4, <2>5, <2>6 DEF OperationCalls
<1> QED
  BY <1>6, <1>7

LEMMA CallIn ==
  ASSUME CallsOK, NEW i \in DOMAIN calls
  PROVE  calls[i].asks \in Calls /\ calls[i].n \in Nat
<1> DEFINE S == [n : Nat, asks : Calls]
<1>1. calls \in Seq(S)
  BY DEF CallsOK
<1>2. ASSUME NEW e \in S PROVE e.asks \in Calls /\ e.n \in Nat
  OBVIOUS
<1>3. calls[i] \in S
  <2> HIDE DEF S
  <2> QED
    BY <1>1, ElementOfSeq, LenProperties
<1> QED
  BY <1>2, <1>3

(* A step that leaves the lists alone.                                     *)
LEMMA TogetherStays ==
  ASSUME Together, UNCHANGED <<pools, disks, datasets, snaps, stale>>
  PROVE  Together'
<1>1. Listed' = Listed
  BY DEF Listed
<1> QED
  BY <1>1 DEF Together, VdevsOwned, DisksOwned, DatasetsOwned, SnapsOwned, Disjoint

LEMMA AskStep == IInv /\ Ask => IInv' /\ EndsOnce
<1> SUFFICES ASSUME IInv, Ask PROVE IInv' /\ EndsOnce
  OBVIOUS
<1> DEFINE k == Len(calls) + 1
<1>1. PICK c \in (IF part = "pools" THEN PoolCalls ELSE OperationCalls) :
        calls' = Append(calls, [n |-> made + 1, asks |-> c])
  BY DEF Ask
<1>2. /\ StoreOK /\ RunnerOK /\ TimersOK /\ CallsOK /\ OpsOK /\ Together
  BY DEF IInv, Types
<1>3. /\ c \in Calls
      /\ c.m = "cancelLongOp" => c.op \in DOMAIN longops
      /\ c.m \in {"runReplicationJob", "deleteReplicationJob"} => c.job \in DOMAIN replJobs
  BY <1>2, AskedCalls
<1>4. /\ UNCHANGED <<part, pools, disks, datasets, snaps, longops, replJobs, history, timers, left,
                     stale>>
      /\ made' = made + 1 /\ Len(calls) < MaxWaits
  BY DEF Ask, store, runner
<1>5. made \in Nat /\ calls \in Seq([n : Nat, asks : Calls]) /\ MaxWaits \in Nat
  BY <1>2, DemoAssumption DEF CallsOK, DemoAssumption
<1> DEFINE new == [n |-> made + 1, asks |-> c]
<1>6. new \in [n : Nat, asks : Calls] /\ new.asks = c
  BY <1>3, <1>5
<1>7. calls' = Append(calls, new)
  BY <1>1
<1> HIDE DEF new
<1>8. /\ calls' \in Seq([n : Nat, asks : Calls]) /\ Len(calls') = k /\ Len(calls) \in Nat
      /\ DOMAIN calls' = DOMAIN calls \cup {k} /\ calls'[k] = new
      /\ \A i \in DOMAIN calls : calls'[i] = calls[i]
  BY <1>5, <1>6, <1>7
<1>9. CallsOK'
  <2>1. Len(calls') <= MaxWaits
    BY <1>4, <1>5, <1>8
  <2>2. ASSUME NEW i \in DOMAIN calls'
        PROVE  LET d == calls'[i].asks
               IN  /\ d.m = "cancelLongOp" => d.op \in DOMAIN longops
                   /\ d.m \in {"runReplicationJob", "deleteReplicationJob"} =>
                        d.job \in DOMAIN replJobs
    BY <1>2, <1>3, <1>6, <1>8 DEF CallsOK
  <2> QED
    BY <1>2, <1>4, <1>5, <1>8, <2>1, <2>2 DEF CallsOK
<1>10. StoreOK' /\ RunnerOK' /\ TimersOK'
  BY <1>2, <1>4 DEF StoreOK, RunnerOK, TimersOK
<1>11. OpsOK' /\ EndsOnce
  <2>1. left => \A t \in timers' : t.late
    BY <1>2, <1>4 DEF OpsOK, TimersFreed
  <2> QED
    BY <1>2, <1>4, <2>1, OpsTimers
<1>12. Together'
  BY <1>2, <1>4, TogetherStays
<1> QED
  BY <1>9, <1>10, <1>11, <1>12 DEF IInv, Types

(* What the lists do to the operations is nothing, and to the intervals    *)
(* at most one more, of an expansion.                                      *)
LEMMA StoreResumes ==
  ASSUME StoreOK, RunnerOK, TimersOK, OpsOK, left \in BOOLEAN, left' = left, UNCHANGED runner,
         NEW c \in Calls, NEW n \in Nat, OnStore(c, n)
  PROVE  StoreMoves(c) /\ RunnerOK' /\ TimersOK' /\ OpsOK' /\ EndsOnce
<1>1. /\ StoreMoves(c)
      /\ timers' = timers \/ \E i \in DOMAIN pools : SetInterval("expand", i, n)
  BY OnStoreStep
<1>2. UNCHANGED <<longops, replJobs, history>>
  BY DEF runner
<1>3. RunnerOK'
  BY <1>2 DEF RunnerOK
<1>4. left => \A t \in timers : t.late
  BY DEF OpsOK, TimersFreed
<1>5. CASE timers' = timers
  <2>1. TimersOK'
    BY <1>1, <1>2, <1>5 DEF TimersOK, StoreMoves
  <2> QED
    BY <1>1, <1>2, <1>3, <1>4, <1>5, <2>1, OpsTimers
<1>6. CASE \E i \in DOMAIN pools : SetInterval("expand", i, n)
  <2>1. PICK i \in DOMAIN pools : SetInterval("expand", i, n)
    BY <1>6
  <2>2. i \in Nat
    <3>1. pools \in Seq(Pools)
      BY DEF StoreOK
    <3> QED
      BY <3>1, LenProperties
  <2>3. PICK t \in Timers : timers' = timers \cup {t} /\ t.of = "expand" /\ t.object = i
                            /\ t.late = left
    BY <2>1, <2>2, SetIntervalFacts
  <2>4. TimersOK'
    BY <1>1, <1>2, <2>3 DEF TimersOK, StoreMoves
  <2> QED
    BY <1>1, <1>2, <1>3, <1>4, <2>3, <2>4, OpsTimers
<1> QED
  BY <1>1, <1>5, <1>6

(* The calls that wait on are asked as they were.                          *)
LEMMA CallsLeft ==
  ASSUME CallsOK, NEW i \in DOMAIN calls, calls' = RemoveAt(calls, i),
         DOMAIN longops \subseteq DOMAIN longops', DOMAIN replJobs \subseteq DOMAIN replJobs',
         stale'.disks \subseteq Devs, UNCHANGED <<part, left, made>>
  PROVE  CallsOK' /\ Len(calls) \in Nat /\ calls' \in Seq([n : Nat, asks : Calls])
         /\ Len(calls') = Len(calls) - 1
<1>1. calls \in Seq([n : Nat, asks : Calls])
  BY DEF CallsOK
<1> DEFINE S == [n : Nat, asks : Calls]
<1>2. /\ calls' \in Seq(S) /\ Len(calls') = Len(calls) - 1
      /\ \A k \in DOMAIN calls' : \E j \in DOMAIN calls : calls'[k] = calls[j]
  <2>1. calls \in Seq(S)
    BY <1>1
  <2> HIDE DEF S
  <2> QED
    BY <2>1, RemoveAtFacts
<1>3. Len(calls) \in Nat /\ MaxWaits \in Nat /\ Len(calls) <= MaxWaits
  BY <1>1, DemoAssumption DEF CallsOK, DemoAssumption
<1>4. ASSUME NEW k \in DOMAIN calls'
      PROVE  LET d == calls'[k].asks
             IN  /\ d.m = "cancelLongOp" => d.op \in DOMAIN longops'
                 /\ d.m \in {"runReplicationJob", "deleteReplicationJob"} =>
                      d.job \in DOMAIN replJobs'
  <2>1. PICK j \in DOMAIN calls : calls'[k] = calls[j]
    BY <1>2
  <2> QED
    BY <2>1 DEF CallsOK
<1>5. CallsOK'
  BY <1>2, <1>3, <1>4 DEF CallsOK
<1> QED
  BY <1>2, <1>3, <1>5

LEMMA ResumeStep == IInv /\ Resume => IInv' /\ EndsOnce
<1> SUFFICES ASSUME IInv, Resume PROVE IInv' /\ EndsOnce
  OBVIOUS
<1>1. PICK i \in DOMAIN calls :
        /\ calls' = RemoveAt(calls, i) /\ Mark(calls[i].asks)
        /\ \/ OnStore(calls[i].asks, calls[i].n) /\ UNCHANGED runner
           \/ OnRunner(calls[i].asks, calls[i].n) /\ UNCHANGED store
  BY DEF Resume
<1>2. UNCHANGED <<part, left, made>>
  BY DEF Resume
<1>3. /\ StoreOK /\ RunnerOK /\ TimersOK /\ CallsOK /\ OpsOK /\ Together
      /\ left \in BOOLEAN
  BY DEF IInv, Types, CallsOK
<1> DEFINE c == calls[i].asks
           n == calls[i].n
<1>4. c \in Calls /\ n \in Nat
  BY <1>3, CallIn
<1>5. /\ c.m = "cancelLongOp" => c.op \in DOMAIN longops
      /\ c.m \in {"runReplicationJob", "deleteReplicationJob"} => c.job \in DOMAIN replJobs
  BY <1>3 DEF CallsOK
<1>6. Mark(c) /\ stale'.disks \subseteq Devs
  <2>1. Mark(c)
    BY <1>1
  <2> HIDE DEF c
  <2>2. stale'.disks = stale.disks \cup StaleDisks(c)
    BY <2>1, MarkFacts
  <2> QED
    BY <1>3, <2>1, <2>2 DEF CallsOK, StaleDisks
<1> HIDE DEF c, n
<1>7. /\ StoreMoves(c) /\ RunnerOK' /\ TimersOK' /\ OpsOK' /\ EndsOnce
      /\ DOMAIN longops \subseteq DOMAIN longops' /\ DOMAIN replJobs \subseteq DOMAIN replJobs'
  <2>1. CASE OnStore(c, n) /\ UNCHANGED runner
    <3>1. StoreMoves(c) /\ RunnerOK' /\ TimersOK' /\ OpsOK' /\ EndsOnce
      BY <1>2, <1>3, <1>4, <2>1, StoreResumes
    <3>2. UNCHANGED <<longops, replJobs>>
      BY <2>1 DEF runner
    <3> QED
      BY <3>1, <3>2
  <2>2. CASE OnRunner(c, n) /\ UNCHANGED store
    <3>1. pools' = pools
      BY <2>2 DEF store
    <3>2. RunnerMoves /\ TimersOK'
      BY <1>2, <1>3, <1>4, <1>5, <2>2, <3>1, OnRunnerStep
    <3>3. StoreMoves(c)
      BY <1>3, <2>2, NothingMoves
    <3> QED
      BY <3>2, <3>3 DEF RunnerMoves
  <2> QED
    BY <1>1, <2>1, <2>2 DEF c, n
<1>8. /\ CallsOK' /\ Len(calls) \in Nat /\ calls' \in Seq([n : Nat, asks : Calls])
      /\ Len(calls') = Len(calls) - 1
  BY <1>1, <1>2, <1>3, <1>6, <1>7, CallsLeft
<1>9. Together'
  BY <1>3, <1>6, <1>7 DEF StoreMoves
<1> QED
  BY <1>7, <1>8, <1>9 DEF IInv, Types, StoreMoves

(* A tick of a scrub or an expansion is nothing to the operations.         *)
LEMMA ScrubTicks ==
  ASSUME StoreOK, TimersOK, RunnerOK, OpsOK, left' = left, UNCHANGED runner, ScrubMoves,
         NEW t, t.of = "expand", timers' = timers \/ timers' = timers \ {t}
  PROVE  RunnerMoves /\ TimersOK'
<1>1. UNCHANGED <<longops, replJobs, history>>
  BY DEF runner
<1>2. DOMAIN pools' = DOMAIN pools
  BY DEF ScrubMoves
<1>3. RunnerOK' /\ TimersOK'
  BY <1>1, <1>2 DEF RunnerOK, TimersOK
<1>4. OpsOK' /\ EndsOnce
  <2>1. left => \A u \in timers' : u.late
    BY DEF OpsOK, TimersFreed
  <2> QED
    BY <1>1, <2>1, OpsTimers
<1> QED
  BY <1>1, <1>3, <1>4 DEF RunnerMoves

LEMMA ScrubTickStep ==
  ASSUME StoreOK, NEW t \in timers, ScrubTick(t)
  PROVE  ScrubMoves
<1> DEFINE i == Find("ssd")
           s == [Ticked(pools[i].scrub) EXCEPT !.kind = "scrub"]
<1>1. pools \in Seq(Pools)
  BY DEF StoreOK
<1>2. i \in DOMAIN pools
  BY <1>1, FindFacts DEF ScrubTick
<1>3. s \in Scrubs
  BY <1>2, PoolIn, ScrubTypes DEF Pools
<1>4. pools' = [pools EXCEPT ![i].scrub = s] /\ UNCHANGED <<disks, datasets, snaps>>
  BY DEF ScrubTick
<1> QED
  <2> HIDE DEF i, s
  <2> QED
    BY <1>2, <1>3, <1>4, ScrubMove

LEMMA ExpandTickStep ==
  ASSUME StoreOK, TimersOK, NEW t \in timers, ExpandTick(t)
  PROVE  ScrubMoves /\ (timers' = timers \/ timers' = timers \ {t})
<1> DEFINE i == t.object
           s == Ticked(pools[i].scrub)
<1>1. i \in DOMAIN pools
  BY DEF TimersOK, ExpandTick
<1>2. s \in Scrubs /\ pools[i].scrub \in Scrubs
  BY <1>1, PoolIn, ScrubTypes DEF Pools
<1>3. /\ pools' = [pools EXCEPT ![i].scrub = s] \/ pools' = pools
      /\ UNCHANGED <<disks, datasets, snaps>>
      /\ timers' = timers \/ timers' = timers \ {t}
  BY DEF ExpandTick
<1>4. ScrubMoves
  <2>1. CASE pools' = [pools EXCEPT ![i].scrub = s]
    <3> HIDE DEF i, s
    <3> QED
      BY <1>1, <1>2, <1>3, <2>1, ScrubMove
  <2>2. CASE pools' = pools
    <3>1. UNCHANGED store
      BY <1>3, <2>2 DEF store
    <3>2. Listed' = Listed
      BY <2>2 DEF Listed
    <3> QED
      BY <1>3, <2>2, <3>1, <3>2
         DEF ScrubMoves, StoreOK, Together, VdevsOwned, DisksOwned, DatasetsOwned, SnapsOwned,
             Disjoint, Grows
  <2> QED
    BY <1>3, <2>1, <2>2
<1> QED
  BY <1>3, <1>4

LEMMA TickStep == IInv /\ Tick => IInv' /\ EndsOnce
<1> SUFFICES ASSUME IInv, Tick PROVE IInv' /\ EndsOnce
  OBVIOUS
<1>1. PICK t \in timers : ScrubTick(t) \/ ExpandTick(t) \/ OpTick(t)
  BY DEF Tick
<1>2. UNCHANGED <<part, calls, left, stale, made>>
  BY DEF Tick
<1>3. StoreOK /\ RunnerOK /\ TimersOK /\ CallsOK /\ OpsOK /\ Together
  BY DEF IInv, Types
<1>4. ScrubMoves /\ RunnerMoves /\ TimersOK'
  <2>1. CASE ScrubTick(t)
    <3>1. ScrubMoves
      BY <1>3, <2>1, ScrubTickStep
    <3>2. UNCHANGED <<longops, replJobs, history, timers, left>>
      BY <1>2, <2>1 DEF ScrubTick, runner
    <3>3. RunnerOK' /\ TimersOK'
      BY <1>3, <3>1, <3>2 DEF RunnerOK, TimersOK, ScrubMoves
    <3>4. OpsOK' /\ EndsOnce
      <4>1. left => \A u \in timers' : u.late
        BY <1>3, <3>2 DEF OpsOK, TimersFreed
      <4> QED
        BY <1>3, <3>2, <4>1, OpsTimers
    <3> QED
      BY <3>1, <3>2, <3>3, <3>4 DEF RunnerMoves
  <2>2. CASE ExpandTick(t)
    <3>1. ScrubMoves /\ (timers' = timers \/ timers' = timers \ {t})
      BY <1>3, <2>2, ExpandTickStep
    <3>2. t.of = "expand" /\ UNCHANGED runner
      BY <2>2 DEF ExpandTick
    <3> QED
      BY <1>2, <1>3, <3>1, <3>2, ScrubTicks
  <2>3. CASE OpTick(t)
    <3>1. UNCHANGED <<pools, disks, datasets, snaps>>
      BY <2>3 DEF OpTick, store
    <3>2. RunnerMoves /\ TimersOK'
      BY <1>2, <1>3, <2>3, <3>1, OpTickStep
    <3>3. Listed' = Listed
      BY <3>1 DEF Listed
    <3> QED
      BY <1>3, <3>1, <3>2, <3>3
         DEF ScrubMoves, StoreOK, Together, VdevsOwned, DisksOwned, DatasetsOwned, SnapsOwned,
             Disjoint, Grows
  <2> QED
    BY <1>1, <2>1, <2>2, <2>3
<1>5. CallsOK'
  BY <1>2, <1>3, <1>4 DEF CallsOK, RunnerMoves
<1>6. Together'
  BY <1>2, <1>3, <1>4 DEF ScrubMoves, Grows
<1> QED
  BY <1>4, <1>5, <1>6 DEF IInv, Types, ScrubMoves, RunnerMoves

(* Leaving takes every interval away, those of what runs with them.        *)
LEMMA DisposeStep == IInv /\ Dispose => IInv' /\ EndsOnce
<1> SUFFICES ASSUME IInv, Dispose PROVE IInv' /\ EndsOnce
  OBVIOUS
<1>1. /\ left' = TRUE /\ timers' = {}
      /\ UNCHANGED <<part, pools, disks, datasets, snaps, longops, replJobs, history, calls,
                     stale, made>>
  BY DEF Dispose, store, runner
<1>2. Types'
  BY <1>1 DEF IInv, Types, StoreOK, RunnerOK, TimersOK, CallsOK
<1>3. OpsOK' /\ EndsOnce
  <2>1. RunningTicks' /\ TimersFreed'
    BY <1>1 DEF RunningTicks, TimersFreed
  <2>2. OneRunning' /\ EndRecorded' /\ LastShown'
    BY <1>1 DEF IInv, OpsOK, OneRunning, EndRecorded, LastShown
  <2> QED
    BY <1>1, <2>1, <2>2 DEF OpsOK, EndsOnce
<1>4. Together'
  BY <1>1, TogetherStays DEF IInv
<1> QED
  BY <1>2, <1>3, <1>4 DEF IInv

-----------------------------------------------------------------------------
(* The initial state.                                                      *)
LEMMA InitTypes == Init => Types
<1> SUFFICES ASSUME Init PROVE Types
  OBVIOUS
<1>1. StoreOK
  <2>1. Idle \in Scrubs /\ Full \in 0 .. Full /\ 1 \in 0 .. Full
    BY ScrubTypes
  <2>2. /\ [Idle EXCEPT !.state = "done", !.pct = Full] \in Scrubs
        /\ [Idle EXCEPT !.state = "running", !.pct = 1] \in Scrubs
    BY <2>1 DEF Scrubs, Idle
  <2>3. ASSUME NEW D \in SUBSET Vdevs, NEW f \in [D -> Statuses] PROVE f \in VdevMaps
    BY DEF VdevMaps
  <2> DEFINE
    members == [d \in {"nvme0n1", "nvme1n1", Missing} |->
                  IF d = Missing THEN "FAULTED" ELSE "ONLINE"]
    tank == [name |-> "tank", vdevs |-> members, raidz |-> TRUE,
             scrub |-> [Idle EXCEPT !.state = "done", !.pct = Full], listed |-> TRUE]
    ssd == [name |-> "ssd", vdevs |-> [d \in {"nvme3n1"} |-> "ONLINE"], raidz |-> FALSE,
            scrub |-> [Idle EXCEPT !.state = "running", !.pct = 1], listed |-> TRUE]
  <2>4. tank \in Pools /\ ssd \in Pools
    <3>1. /\ {"nvme0n1", "nvme1n1", Missing} \in SUBSET Vdevs /\ {"nvme3n1"} \in SUBSET Vdevs
          /\ "tank" \in PoolNames /\ "ssd" \in PoolNames
      BY DEF Devs, Vdevs, PoolNames
    <3>2. members \in VdevMaps /\ [d \in {"nvme3n1"} |-> "ONLINE"] \in VdevMaps
      <4>1. /\ members \in [{"nvme0n1", "nvme1n1", Missing} -> Statuses]
            /\ [d \in {"nvme3n1"} |-> "ONLINE"] \in [{"nvme3n1"} -> Statuses]
        BY DEF Statuses
      <4> QED
        BY <2>3, <3>1, <4>1
    <3> QED
      BY <2>2, <3>1, <3>2 DEF Pools
  <2>5. pools \in Seq(Pools)
    <3>1. pools = <<tank, ssd>>
      BY DEF Init, InitialPools
    <3> HIDE DEF tank, ssd
    <3> QED
      BY <2>4, <3>1
  <2>6. disks \in [Devs -> PoolNames \cup {Free}]
    BY DEF Init, InitialDisks, Devs, PoolNames
  <2>7. /\ DOMAIN datasets = {<<"tank", "fotos">>, <<"tank", "boveda">>, <<"ssd", "vm">>}
        /\ DOMAIN datasets \subseteq PoolNames \X Names
    BY DEF Init, InitialDatasets, PoolNames, Names
  <2>8. /\ datasets[<<"tank", "fotos">>] = Plain
        /\ datasets[<<"tank", "boveda">>] =
             [Plain EXCEPT !.encrypted = TRUE, !.unlocked = FALSE, !.mounted = FALSE]
        /\ datasets[<<"ssd", "vm">>] = [Plain EXCEPT !.fs = FALSE, !.mounted = FALSE]
    BY DEF Init, InitialDatasets
  <2>9. \A k \in DOMAIN datasets :
          /\ datasets[k] \in Datasets
          /\ datasets[k].mounted => datasets[k].fs /\ datasets[k].unlocked
    <3>1. Plain.fs /\ Plain.unlocked /\ Plain \in Datasets
      BY DEF Plain, Datasets
    <3>2. /\ [Plain EXCEPT !.encrypted = TRUE, !.unlocked = FALSE, !.mounted = FALSE] \in Datasets
          /\ ~[Plain EXCEPT !.encrypted = TRUE, !.unlocked = FALSE, !.mounted = FALSE].mounted
      BY DEF Plain, Datasets
    <3>3. /\ [Plain EXCEPT !.fs = FALSE, !.mounted = FALSE] \in Datasets
          /\ ~[Plain EXCEPT !.fs = FALSE, !.mounted = FALSE].mounted
      BY DEF Plain, Datasets
    <3> QED
      BY <2>7, <2>8, <3>1, <3>2, <3>3
  <2>10. datasets \in [DOMAIN datasets -> Datasets]
    <3>1. datasets = [k \in DOMAIN datasets |-> datasets[k]]
      BY DEF Init, InitialDatasets
    <3> QED
      BY <2>9, <3>1
  <2>11. snaps \subseteq PoolNames \X (Names \cup {""})
    <3>1. snaps = {<<"tank", "fotos">>, <<"ssd", "vm">>}
      BY DEF Init
    <3>2. /\ "tank" \in PoolNames /\ "ssd" \in PoolNames
          /\ "fotos" \in Names /\ "vm" \in Names
      BY DEF PoolNames, Names
    <3>3. \A p \in PoolNames, n \in Names : <<p, n>> \in PoolNames \X (Names \cup {""})
      OBVIOUS
    <3>4. /\ <<"tank", "fotos">> \in PoolNames \X (Names \cup {""})
          /\ <<"ssd", "vm">> \in PoolNames \X (Names \cup {""})
      BY <3>2, <3>3, Zenon
    <3> QED
      BY <3>1, <3>4, Zenon
  <2> QED
    BY <2>5, <2>6, <2>7, <2>9, <2>10, <2>11 DEF StoreOK
<1>2. RunnerOK
  <2>1. replJobs \in Seq(Jobs)
    BY DEF Init, InitialJobs, Jobs, Routes
  <2> QED
    BY <2>1 DEF Init, RunnerOK
<1>3. TimersOK
  BY DEF Init, TimersOK, Timers
<1>4. CallsOK
  <2> DEFINE S == [n : Nat, asks : Calls]
  <2>1. calls = <<>> /\ made = 0 /\ left = FALSE /\ stale.disks = {} /\ part \in Parts
    BY DEF Init
  <2>2. MaxWaits \in Nat
    BY DemoAssumption DEF DemoAssumption
  <2>3. calls \in Seq(S)
    <3> HIDE DEF S
    <3> QED
      BY <2>1
  <2>4. DOMAIN calls = {} /\ Len(calls) <= MaxWaits
    BY <2>1, <2>2
  <2> QED
    BY <2>1, <2>3, <2>4 DEF CallsOK
<1> QED
  BY <1>1, <1>2, <1>3, <1>4 DEF Types

LEMMA InitIInv == Init => IInv
<1> SUFFICES ASSUME Init PROVE IInv
  OBVIOUS
<1>1. /\ DOMAIN pools = 1 .. 2
      /\ pools[1].name = "tank" /\ pools[1].listed
      /\ DOMAIN pools[1].vdevs = {"nvme0n1", "nvme1n1", Missing}
      /\ pools[2].name = "ssd" /\ pools[2].listed /\ DOMAIN pools[2].vdevs = {"nvme3n1"}
  BY DEF Init, InitialPools
<1>2. Listed = {"tank", "ssd"}
  BY <1>1 DEF Listed
<1>3. /\ disks["nvme0n1"] = "tank" /\ disks["nvme1n1"] = "tank" /\ disks["nvme3n1"] = "ssd"
      /\ disks["nvme2n1"] = Free /\ disks["sda"] = Free /\ disks["mmcblk0"] = Free
      /\ Missing \notin Devs
  BY DEF Init, InitialDisks, Missing, Devs
<1>4. VdevsOwned /\ DisksOwned /\ Disjoint
  BY <1>1, <1>2, <1>3 DEF VdevsOwned, DisksOwned, Disjoint, Devs
<1>5. DOMAIN datasets = {<<"tank", "fotos">>, <<"tank", "boveda">>, <<"ssd", "vm">>}
  BY DEF Init, InitialDatasets
<1>6. DatasetsOwned
  <2>1. \A k \in DOMAIN datasets : k[1] \in Listed
    BY <1>2, <1>5
  <2> QED
    BY <2>1 DEF DatasetsOwned
<1>7. SnapsOwned
  <2>1. snaps \subseteq DOMAIN datasets
    BY <1>5 DEF Init
  <2> QED
    BY <2>1 DEF SnapsOwned
<1>8. OpsOK
  BY DEF Init, OpsOK, OneRunning, RunningTicks, EndRecorded, LastShown, TimersFreed
<1> QED
  BY <1>4, <1>6, <1>7, <1>8, InitTypes DEF IInv, Together

-----------------------------------------------------------------------------
(* Every step.                                                             *)
LEMMA NextIInv == IInv /\ [Next]_vars => IInv' /\ [EndsOnce]_vars
<1> SUFFICES ASSUME IInv, [Next]_vars PROVE IInv' /\ [EndsOnce]_vars
  OBVIOUS
<1>1. CASE Next
  BY <1>1, AskStep, ResumeStep, TickStep, DisposeStep DEF Next
<1>2. CASE UNCHANGED vars
  <2>1. UNCHANGED <<part, pools, disks, datasets, snaps, longops, replJobs, history, timers, calls,
                    left, stale, made>>
    BY <1>2 DEF vars, store, runner
  <2>2. Types'
    BY <2>1 DEF IInv, Types, StoreOK, RunnerOK, TimersOK, CallsOK
  <2>3. OpsOK'
    BY <2>1 DEF IInv, OpsOK, OneRunning, RunningTicks, EndRecorded, LastShown, TimersFreed
  <2>4. Together'
    BY <2>1, TogetherStays DEF IInv
  <2> QED
    BY <1>2, <2>2, <2>3, <2>4 DEF IInv
<1> QED
  BY <1>1, <1>2

-----------------------------------------------------------------------------
(* What it is for.                                                         *)
LEMMA TypesImplyTypeOK == Types => TypeOK
<1> SUFFICES ASSUME Types PROVE TypeOK
  OBVIOUS
<1>1. StoreOK /\ RunnerOK /\ TimersOK /\ CallsOK
  BY DEF Types
<1>2. ASSUME NEW i \in DOMAIN pools
      PROVE  /\ pools[i].name \in PoolNames /\ pools[i].scrub \in Scrubs
             /\ DOMAIN pools[i].vdevs \subseteq Vdevs
  <2>1. pools[i] \in Pools
    BY <1>1, PoolIn
  <2> QED
    BY <2>1 DEF Pools, VdevMaps
<1>3. longops \in Seq(Ops)
  BY <1>1 DEF RunnerOK, Operation, Ops
<1>4. ASSUME NEW t \in timers
      PROVE  CASE t.of = "scrub" -> t.object = 0
               [] t.of = "expand" -> t.object \in DOMAIN pools
               [] t.of = "op" -> t.object \in DOMAIN longops /\ t.step \in 0 .. 2
  <2>1. t.of \in {"scrub", "expand", "op"} /\ t.step \in 0 .. 2
    BY <1>1 DEF TimersOK, Timers
  <2>2. /\ t.of = "scrub" => t.object = 0
        /\ t.of = "expand" => t.object \in DOMAIN pools
        /\ t.of = "op" => t.object \in DOMAIN longops
    BY <1>1 DEF TimersOK
  <2> QED
    BY <2>1, <2>2
<1> QED
  BY <1>1, <1>2, <1>3, <1>4 DEF TypeOK, StoreOK, CallsOK

(* The lists are always of what they should be: a dataset that is mounted  *)
(* is a filesystem whose key is loaded, an interval holds an object that   *)
(* was created, and an operation a job that was.                           *)
THEOREM DemoTypes == Spec => []TypeOK
<1>1. IInv => TypeOK
  BY TypesImplyTypeOK DEF IInv
<1> QED
  BY <1>1, InitIInv, NextIInv, PTL DEF Spec

(* However calls overlap, pools, disks, datasets and snapshots agree: no   *)
(* disk says it is in a pool that is gone; of all but what a call was      *)
(* carried out on when it was no longer as offered, no vdev is a disk that *)
(* says it is elsewhere, no dataset or snapshot is of a pool that is gone. *)
THEOREM DemoCoherent == Spec => []Coherent
<1>1. IInv => Coherent
  BY DEF IInv, Together, Coherent
<1> QED
  BY <1>1, InitIInv, NextIInv, PTL DEF Spec

(* However calls, cancels, intervals and leaving interleave: of a target   *)
(* one operation runs; what runs has its interval; a replication's end is  *)
(* recorded once, as its job shows it; leaving frees the intervals; and    *)
(* what ended stays as it ended.                                           *)
THEOREM DemoOperations == Spec => Operations
<1>1. IInv => OneRunning /\ RunningTicks /\ EndRecorded /\ LastShown /\ TimersFreed
  BY DEF IInv, OpsOK
<1> QED
  BY <1>1, InitIInv, NextIInv, PTL DEF Spec, Operations
=============================================================================
