---------------------------- MODULE ClientProofs ----------------------------
(***************************************************************************)
(* What holds of the copies and the dialogs for any resource followed, any *)
(* number of changes, reads, calls and gestures.                           *)
(***************************************************************************)
EXTENDS Client, TLAPS, FiniteSetTheorems

-----------------------------------------------------------------------------
(* The tables of Dialogs and Views enter only through what follows.        *)
Tells == {"longop.update", "none"}
ActOK(a, closing) ==
  /\ a.busy \in BOOLEAN /\ a.tells \in Tells
  /\ closing /\ a.busy => a.after = "closed"

LEMMA BareAct == ASSUME NEW n, NEW w PROVE ActOK(Act(n, w), TRUE)
  BY DEF Act, ActOK, Tells

(* The dialogs, in parts small enough for the provers.                     *)
LEMMA DialogNames ==
  DOMAIN DialogOf =
        {"history", "checkpoint", "newpool"} \cup
        {"importpool", "expand", "export"} \cup
        {"addvdev", "replace", "detach"} \cup
        {"diskdetail", "poweroffdisk", "newds"} \cup
        {"delds", "renameds", "rewrite"} \cup
        {"unlockds", "lockds", "changekey"} \cup
        {"rollback", "delsnap", "syssched"} \cup
        {"sysmigrate", "newtask", "newrepl"} \cup
        {"newuser", "passwd", "deluser"} \cup
        {"propsds", "newsnap", "sched", "editrepl"}
  BY DEF DialogOf

(* A call a dialog waits for closes it, but in the one of the properties.  *)
LEMMA DialogActs ==
  \A d \in DOMAIN DialogOf : \A a \in DialogOf[d].acts : ActOK(a, d # "propsds")
<1>1. /\ DialogOf["history"] = History /\ DialogOf["checkpoint"] = Checkpoint
      /\ DialogOf["newpool"] = NewPool /\ DialogOf["importpool"] = ImportPool
      /\ DialogOf["expand"] = Expand /\ DialogOf["export"] = ExportPool
      /\ DialogOf["addvdev"] = AddVdev /\ DialogOf["replace"] = Replace
      /\ DialogOf["detach"] = Detach /\ DialogOf["diskdetail"] = DiskDetail
      /\ DialogOf["poweroffdisk"] = PowerOffDisk /\ DialogOf["newds"] = NewDataset
      /\ DialogOf["delds"] = DeleteDataset /\ DialogOf["renameds"] = RenameDataset
      /\ DialogOf["rewrite"] = Rewrite /\ DialogOf["unlockds"] = UnlockDataset
      /\ DialogOf["lockds"] = LockDataset /\ DialogOf["changekey"] = ChangeKey
      /\ DialogOf["rollback"] = Rollback /\ DialogOf["delsnap"] = DeleteSnap
      /\ DialogOf["syssched"] = SysSched /\ DialogOf["sysmigrate"] = SysMigrate
      /\ DialogOf["newtask"] = NewTask /\ DialogOf["newrepl"] = NewRepl
      /\ DialogOf["newuser"] = NewUser /\ DialogOf["passwd"] = Passwd
      /\ DialogOf["deluser"] = DeleteUser /\ DialogOf["propsds"] = DatasetProps
      /\ DialogOf["newsnap"] = Snapshot /\ DialogOf["sched"] = EditSchedule
      /\ DialogOf["editrepl"] = EditRepl
  BY DEF DialogOf
<1>2. \A a \in History.acts \cup Checkpoint.acts \cup NewPool.acts : ActOK(a, TRUE)
  BY DEF History, Checkpoint, NewPool, Dialog, Act, Admin, Typed, Picked, Aside, ActOK, Tells
<1>3. \A a \in ImportPool.acts \cup Expand.acts \cup ExportPool.acts : ActOK(a, TRUE)
  BY DEF ImportPool, Expand, ExportPool, Dialog, Act, Admin, Typed, Picked, Aside, ActOK, Tells
<1>4. \A a \in AddVdev.acts \cup Replace.acts \cup Detach.acts : ActOK(a, TRUE)
  BY DEF AddVdev, Replace, Detach, Dialog, Act, Admin, Typed, Picked, Aside, ActOK, Tells
<1>5. \A a \in DiskDetail.acts \cup PowerOffDisk.acts \cup NewDataset.acts : ActOK(a, TRUE)
  BY DEF DiskDetail, PowerOffDisk, NewDataset, Dialog, Act, Admin, Typed, Picked, Aside, ActOK,
         Tells
<1>6. \A a \in DeleteDataset.acts \cup RenameDataset.acts \cup Rewrite.acts : ActOK(a, TRUE)
  BY DEF DeleteDataset, RenameDataset, Rewrite, Dialog, Act, Admin, Typed, Picked, Aside, ActOK,
         Tells
<1>7. \A a \in UnlockDataset.acts \cup LockDataset.acts \cup ChangeKey.acts : ActOK(a, TRUE)
  BY DEF UnlockDataset, LockDataset, ChangeKey, Dialog, Act, Admin, Typed, Picked, Aside, ActOK,
         Tells
<1>8. \A a \in Rollback.acts \cup DeleteSnap.acts \cup SysSched.acts : ActOK(a, TRUE)
  BY DEF Rollback, DeleteSnap, SysSched, Dialog, Act, Admin, Typed, Picked, Aside, ActOK, Tells
<1>9. \A a \in SysMigrate.acts \cup NewTask.acts \cup NewRepl.acts : ActOK(a, TRUE)
  BY DEF SysMigrate, NewTask, NewRepl, Dialog, Act, Admin, Typed, Picked, Aside, ActOK, Tells
<1>10. \A a \in NewUser.acts \cup Passwd.acts \cup DeleteUser.acts : ActOK(a, TRUE)
  BY DEF NewUser, Passwd, DeleteUser, Dialog, Act, Admin, Typed, Picked, Aside, ActOK, Tells
<1>11. \A a \in DatasetProps.acts : ActOK(a, FALSE)
  BY DEF DatasetProps, Dialog, Act, Picked, ActOK, Tells
<1>12. \A a \in Snapshot.acts : ActOK(a, TRUE)
  BY BareAct DEF Snapshot, Dialog
<1>13. \A a \in EditSchedule.acts : ActOK(a, TRUE)
  <2>1. ActOK(Admin(Act("deleteJob", {"jobs", "hist"})), TRUE)
    BY DEF Admin, Act, ActOK, Tells
  <2> QED
    BY <2>1, BareAct DEF EditSchedule, Dialog
<1>14. \A a \in EditRepl.acts : ActOK(a, TRUE)
  <2>1. ActOK(Admin(Typed(Act("deleteReplicationJob", {"repl"}))), TRUE)
    BY DEF Admin, Typed, Act, ActOK, Tells
  <2> QED
    BY <2>1, BareAct DEF EditRepl, Dialog
<1> QED
  BY <1>1, <1>2, <1>3, <1>4, <1>5, <1>6, <1>7, <1>8, <1>9, <1>10, <1>11, <1>12, <1>13, <1>14,
     DialogNames

(* The buttons of the views announce what a call may announce.             *)
LEMMA ViewActs ==
  \A v \in DOMAIN ViewOf : \A a \in ViewOf[v].acts : ActOK(a, FALSE)
<1>1. /\ ViewOf["dash"] = Dashboard /\ ViewOf["pools"] = Pools /\ ViewOf["data"] = Datasets
      /\ ViewOf["snaps"] = Snapshots /\ ViewOf["tasks"] = Tasks /\ ViewOf["disks"] = Disks
      /\ ViewOf["trends"] = Trends /\ ViewOf["settings"] = Settings
      /\ ViewOf["channels"] = ChannelsPanel /\ ViewOf["alerts"] = AlertsPanel
      /\ DOMAIN ViewOf = {"dash", "pools", "data", "snaps", "tasks", "disks", "trends",
                          "settings", "channels", "alerts"}
  BY DEF ViewOf
<1>2. /\ \E r : Dashboard.acts = PoolButtons(r)
      /\ \E r : Pools.acts = PoolButtons(r)
      /\ Datasets.acts = DatasetButtons /\ Tasks.acts = TasksButtons
      /\ Disks.acts = DiskButtons /\ Trends.acts = {} /\ Settings.acts = SettingsButtons
  BY DEF Dashboard, Pools, Datasets, Tasks, Disks, Trends, Settings, View
<1>3. ASSUME NEW r PROVE \A a \in PoolButtons(r) : ActOK(a, FALSE)
  BY DEF PoolButtons, ActOK, Button, Act, Admin, Tells
<1>4. \A a \in DatasetButtons \cup DiskButtons \cup SettingsButtons : ActOK(a, FALSE)
  BY DEF DatasetButtons, DiskButtons, SettingsButtons, ActOK, Button, Act, Admin, Typed, Tells
<1>5. \A a \in TasksButtons : ActOK(a, FALSE)
  BY DEF TasksButtons, ActOK, Button, Act, Admin, Tells
<1>6. \A a \in Snapshots.acts : ActOK(a, FALSE)
  BY DEF Snapshots, View, ActOK, Button, Act, Admin, Tells
<1>7. \A a \in ChannelsPanel.acts : ActOK(a, FALSE)
  BY DEF ChannelsPanel, View, ActOK, Button, Act, Admin, Tells
<1>8. \A a \in AlertsPanel.acts : ActOK(a, FALSE)
  BY DEF AlertsPanel, View, ActOK, Button, Act, Tells
<1> QED
  BY <1>1, <1>2, <1>3, <1>4, <1>5, <1>6, <1>7, <1>8

(* The dialogs a view opens are dialogs there are.                         *)
LEMMA ViewOpens == \A v \in DOMAIN ViewOf : ViewOf[v].opens \subseteq DOMAIN DialogOf
<1>1. PoolDialogs \subseteq DOMAIN DialogOf
  BY DialogNames DEF PoolDialogs
<1>2. /\ ViewOf["dash"].opens \subseteq DOMAIN DialogOf
      /\ ViewOf["pools"].opens \subseteq DOMAIN DialogOf
      /\ ViewOf["data"].opens \subseteq DOMAIN DialogOf
  BY <1>1, DialogNames DEF ViewOf, Dashboard, Pools, Datasets, View
<1>3. /\ ViewOf["snaps"].opens \subseteq DOMAIN DialogOf
      /\ ViewOf["tasks"].opens \subseteq DOMAIN DialogOf
      /\ ViewOf["disks"].opens \subseteq DOMAIN DialogOf
  BY DialogNames DEF ViewOf, Snapshots, Tasks, Disks, View
<1>4. /\ ViewOf["trends"].opens \subseteq DOMAIN DialogOf
      /\ ViewOf["settings"].opens \subseteq DOMAIN DialogOf
  BY DialogNames DEF ViewOf, Trends, Settings, View
<1>5. ViewOf["channels"].opens = {} /\ ViewOf["alerts"].opens = {}
  BY DEF ViewOf, ChannelsPanel, AlertsPanel, View
<1>6. DOMAIN ViewOf = {"dash", "pools", "data", "snaps", "tasks", "disks", "trends",
                       "settings", "channels", "alerts"}
  BY DEF ViewOf
<1> QED
  BY <1>2, <1>3, <1>4, <1>5, <1>6

(* The chart of Trends: no event touches it, late answers are dropped.     *)
LEMMA TrendsView ==
  /\ "trends" \in DOMAIN ViewOf /\ ViewOf["trends"].latest
  /\ ViewOf["trends"].patches = {} /\ ViewOf["trends"].reloads = {}
  BY DEF ViewOf, Trends, View

-----------------------------------------------------------------------------
(* The invariant.                                                          *)
Hooks == [have : Versions, loading : BOOLEAN, bad : BOOLEAN, of : 0 .. 1, want : 0 .. 1]
Shown == [name : DOMAIN DialogOf, filled : BOOLEAN, busy : BOOLEAN]
Events == [event : SSE_TYPES, version : Versions]
Counts == [{"change", "mishap", "gesture"} -> Nat]

WhereOK == res \in Watched /\ view \in DOMAIN ViewOf

ReadsOK ==
  /\ hook \in Hooks
  /\ asks \in SUBSET Asks /\ IsFiniteSet(asks) /\ Cardinality(asks) <= MaxAsks

CallsOK == dialog \in Shown \cup {None} /\ calls \in [1 .. MaxCalls -> Calls \cup {None}]

ServerOK ==
  /\ truth \in Nat /\ visible \in 1 .. truth
  /\ res \in Direct => visible = truth /\ due = {}
  /\ events \in Seq(Events) /\ excused \in BOOLEAN /\ count \in Counts
  /\ truth = 1 + count["change"] /\ count["change"] <= MaxChanges

(* One read is the newest; what it brings is not older than what is shown. *)
Ordered ==
  /\ \A q, r \in asks : q.newest /\ r.newest => q = r
  /\ \A q \in asks : q.got <= visible
  /\ Followed => /\ hook.have <= visible
                 /\ \A q \in asks : q.newest /\ q.state = "served" => hook.have <= q.got

(* The newest read of Trends is of the source chosen.                      *)
Charted ==
  res = "series" /\ view = "trends" =>
    /\ \A q \in asks : q.newest => q.of = hook.want
    /\ ~hook.loading /\ ~hook.bad => hook.of = hook.want

(* What a dialog waits for will close it; none waits for one that is gone. *)
OneDialog ==
  /\ dialog = None => Pending = {}
  /\ dialog # None /\ dialog.name # "propsds" =>
       /\ \A s \in Pending : calls[s].closes
       /\ dialog.busy => \E s \in Pending : Pending = {s}
       /\ ~dialog.busy => Pending = {}

IInv ==
  WhereOK /\ ReadsOK /\ CallsOK /\ ServerOK /\ Ordered /\ Charted /\ OneDialog /\ StaleIsOnItsWay

(* The assumption on the constants, in the form the provers use.           *)
LEMMA Bounds ==
  /\ MaxChanges \in Nat /\ MaxAsks \in Nat /\ MaxAsks > 0 /\ MaxCalls \in Nat
  /\ None \notin Calls /\ None \notin Shown
  BY ClientAssumption DEF ClientAssumption, Shown

(* The invariant is strong enough for the properties of the runs.          *)
LEMMA IInvImplies == IInv => TypeOK /\ ChartIsChosen /\ OneSubmitPending
<1> SUFFICES ASSUME IInv PROVE TypeOK /\ ChartIsChosen /\ OneSubmitPending
  OBVIOUS
<1>1. TypeOK
  <2>1. truth \in Versions
    BY Bounds DEF IInv, ServerOK, Versions, Counts
  <2>2. ASSUME NEW i \in DOMAIN events PROVE events[i].version \in Versions
    <3>1. events[i] \in Events
      BY DEF IInv, ServerOK
    <3> QED
      BY <3>1 DEF Events
  <2> QED
    BY <2>1, <2>2
    DEF IInv, TypeOK, WhereOK, ReadsOK, CallsOK, ServerOK, Hooks, Shown, Counts
<1>2. ChartIsChosen
  BY DEF IInv, Charted, ChartIsChosen
<1>3. OneSubmitPending
  BY FS_EmptySet, FS_Singleton DEF IInv, CallsOK, Shown, OneDialog, OneSubmitPending
<1> QED
  BY <1>1, <1>2, <1>3

-----------------------------------------------------------------------------
(* Reading.                                                                *)
HasNewest(a) == \E q \in a : q.newest /\ q.state = "asked"

(* One more read is the newest of a finite set of reads.                   *)
LEMMA ReloadedAsks ==
  ASSUME NEW a \in SUBSET Asks, IsFiniteSet(a), NEW of \in 0 .. 1
  PROVE  LET b == Reloaded(a, of)
         IN  /\ b \in SUBSET Asks /\ IsFiniteSet(b) /\ HasNewest(b)
             /\ \A q, r \in b : q.newest /\ r.newest => q = r
             /\ \A q \in b : q.newest => q.state = "asked" /\ q.of = of
             /\ \A q \in b : q.got = 0 \/ \E r \in a : q.got = r.got
<1> DEFINE new == [newest |-> TRUE, of |-> of, state |-> "asked", got |-> 0]
           old == {[q EXCEPT !.newest = FALSE] : q \in a}
           f == [q \in a |-> [q EXCEPT !.newest = FALSE]]
<1>1. new \in Asks
  BY Bounds DEF Asks, Versions
<1>2. old \in SUBSET Asks /\ \A q \in old : ~q.newest /\ \E r \in a : q.got = r.got
  BY DEF Asks
<1>3. IsFiniteSet(old)
  <2>1. f \in Surjection(a, old)
    BY DEF Surjection
  <2> QED
    BY <2>1, FS_Surjection
<1>4. IsFiniteSet(old \cup {new})
  BY <1>3, FS_AddElement
<1>5. Reloaded(a, of) = old \cup {new}
  BY DEF Reloaded
<1>6. new.newest /\ new.state = "asked" /\ new.of = of /\ new.got = 0
  OBVIOUS
<1> HIDE DEF new, old
<1> QED
  BY <1>1, <1>2, <1>4, <1>5, <1>6 DEF HasNewest

(* What a view that mounts has asked for.                                  *)
LEMMA FirstAsk ==
  LET b == Reloaded({}, 0)
  IN  /\ b \in SUBSET Asks /\ IsFiniteSet(b) /\ Cardinality(b) <= MaxAsks /\ HasNewest(b)
      /\ \A q, r \in b : q.newest /\ r.newest => q = r
      /\ \A q \in b : q.newest => q.state = "asked" /\ q.of = 0
      /\ \A q \in b : q.got = 0
<1>1. IsFiniteSet({})
  BY FS_EmptySet
<1>2. Reloaded({}, 0) = {[newest |-> TRUE, of |-> 0, state |-> "asked", got |-> 0]}
  BY DEF Reloaded
<1>3. Cardinality(Reloaded({}, 0)) = 1
  BY <1>2, FS_Singleton
<1> QED
  BY <1>1, <1>3, ReloadedAsks, Bounds

(* Reading again, whatever made it, keeps the order.                       *)
LEMMA ReloadStep ==
  ASSUME WhereOK, ReadsOK, Ordered, visible \in Nat, NEW h \in Hooks, Reload(h),
         UNCHANGED <<res, view>>, visible' = visible, Followed => h.have = hook.have
  PROVE  /\ ReadsOK' /\ Ordered' /\ Charted' /\ HasNewest(asks')
         /\ Followed => hook'.have = hook.have
<1>1. /\ hook' = [h EXCEPT !.loading = TRUE] /\ h.want \in 0 .. 1
      /\ asks' = Reloaded(asks, h.want) /\ Cardinality(asks') <= MaxAsks
  BY DEF Reload, Hooks
<1>2. /\ asks' \in SUBSET Asks /\ IsFiniteSet(asks') /\ HasNewest(asks')
      /\ \A q, r \in asks' : q.newest /\ r.newest => q = r
      /\ \A q \in asks' : q.newest => q.state = "asked" /\ q.of = h.want
      /\ \A q \in asks' : q.got = 0 \/ \E r \in asks : q.got = r.got
  BY <1>1, ReloadedAsks DEF ReadsOK
<1>3. hook' \in Hooks /\ hook'.have = h.have /\ hook'.want = h.want /\ hook'.loading = TRUE
  BY <1>1 DEF Hooks
<1>4. Followed' = Followed
  BY DEF Followed, Held, V
<1>5. ReadsOK'
  BY <1>1, <1>2, <1>3 DEF ReadsOK
<1>6. Ordered'
  BY <1>2, <1>3, <1>4 DEF Ordered
<1>7. Charted'
  BY <1>2, <1>3 DEF Charted
<1> QED
  BY <1>2, <1>3, <1>5, <1>6, <1>7

(* An event writes into a copy only where Followed makes no claim, and     *)
(* into none of Trends.                                                    *)
LEMMA PatchedCopy ==
  ASSUME NEW e, e.event \in SSE_TYPES, Patched(e)
  PROVE  ~Followed /\ view # "trends"
  BY TrendsView DEF Patched, Followed, V

(* It holds when a view mounts for the first time.                         *)
LEMMA InitIInv == Init => IInv
<1> SUFFICES ASSUME Init PROVE IInv
  OBVIOUS
<1>1. hook = Blank /\ hook \in Hooks /\ hook.have = 0 /\ hook.loading = TRUE
  BY Bounds DEF Init, Blank, Hooks, Versions
<1>2. WhereOK
  BY DEF Init, WhereOK
<1>3. asks = Reloaded({}, 0)
  BY DEF Init
<1>4. ReadsOK
  BY <1>1, <1>3, FirstAsk DEF ReadsOK
<1>5. CallsOK /\ OneDialog
  BY DEF Init, CallsOK, OneDialog, Pending
<1>6. ServerOK
  <2>1. count \in Counts /\ count["change"] = 0
    BY DEF Init, Counts
  <2>2. events \in Seq(Events)
    BY DEF Init
  <2>3. truth = 1 /\ visible = 1 /\ due = {} /\ excused = FALSE
    BY DEF Init
  <2>4. MaxChanges \in Nat
    BY Bounds
  <2>5. visible \in 1 .. truth /\ 1 = 1 + count["change"] /\ count["change"] <= MaxChanges
    BY <2>1, <2>3, <2>4
  <2> QED
    BY <2>1, <2>2, <2>3, <2>5 DEF ServerOK
<1>7. Ordered
  BY <1>1, <1>3, <1>6, FirstAsk DEF Ordered, Init
<1>8. Charted
  <2>1. hook.want = 0
    BY <1>1 DEF Blank
  <2> QED
    BY <1>1, <1>3, <2>1, FirstAsk DEF Charted
<1>9. StaleIsOnItsWay
  BY <1>3, FirstAsk DEF StaleIsOnItsWay, HasNewest
<1> QED
  BY <1>2, <1>4, <1>5, <1>6, <1>7, <1>8, <1>9 DEF IInv

-----------------------------------------------------------------------------
(* The server and the event stream.                                        *)
LEMMA Spent ==
  ASSUME count \in Counts, NEW c \in {"change", "mishap", "gesture"}, NEW max, Spend(c, max)
  PROVE  /\ count' \in Counts
         /\ c # "change" => count'["change"] = count["change"]
         /\ c = "change" => count'["change"] = count["change"] + 1 /\ count["change"] < max
  BY DEF Spend, Counts

(* A change keeps the server's types, whoever made it.                     *)
LEMMA ChangesStep ==
  ASSUME WhereOK, ServerOK, NEW e, NEW silent \in BOOLEAN, Changes(e, silent), res' = res,
         count' \in Counts, count'["change"] = count["change"] + 1, count["change"] < MaxChanges
  PROVE  ServerOK' /\ visible <= visible' /\ visible' \in Nat
<1>1. truth' = truth + 1 /\ truth' \in Versions /\ truth' \in Nat
  BY Bounds DEF Changes, ServerOK, Versions, Counts
<1>2. Published(e, truth') \in Seq(Events)
  <2>1. events \in Seq(Events)
    BY DEF ServerOK
  <2>2. CASE e \in SSE_TYPES
    <3> DEFINE new == [event |-> e, version |-> truth']
    <3>1. new \in Events
      BY <1>1, <2>2 DEF Events
    <3>2. Published(e, truth') = Append(events, new)
      BY <2>2 DEF Published
    <3> HIDE DEF new
    <3> QED
      BY <2>1, <3>1, <3>2
  <2>3. CASE e \notin SSE_TYPES
    BY <2>1, <2>3 DEF Published
  <2> QED
    BY <2>2, <2>3
<1>3. Cached \cap Direct = {}
  BY DEF Cached, Direct
<1>4. CASE res \in Cached
  <2>1. events' \in Seq(Events) /\ excused' \in BOOLEAN /\ visible' = visible
    BY <1>2, <1>4 DEF Changes, ServerOK
  <2> QED
    BY <1>1, <1>3, <1>4, <2>1, Bounds DEF ServerOK, Counts
<1>5. CASE res \notin Cached
  <2>1. /\ events' = Published(e, truth') /\ visible' = truth' /\ due' = due
        /\ excused' = (excused \/ (silent /\ ~Hears(e)))
    BY <1>5 DEF Changes
  <2> QED
    BY <1>1, <1>2, <2>1, Bounds DEF ServerOK, Counts
<1> QED
  BY <1>4, <1>5

LEMMA CollectorFinite == IsFiniteSet(Collector)
<1> DEFINE c1 == {"overview"}
           c2 == c1 \cup {"pool.status"}
           c3 == c2 \cup {"scrub.progress"}
           c4 == c3 \cup {"scrub.end"}
           c5 == c4 \cup {"disk.temp"}
<1>1. IsFiniteSet(c1)
  BY FS_Singleton
<1>2. IsFiniteSet(c2) /\ IsFiniteSet(c3) /\ IsFiniteSet(c4) /\ IsFiniteSet(c5)
  BY <1>1, FS_AddElement
<1>3. IsFiniteSet(c5 \cup {"disk.smart"})
  BY <1>2, FS_AddElement
<1>4. Collector = c5 \cup {"disk.smart"}
  BY DEF Collector
<1> QED
  BY <1>3, <1>4

(* What a pass of the collector publishes.                                 *)
LEMMA CollectStep ==
  ASSUME ServerOK, Collect
  PROVE  /\ ServerOK' /\ visible <= visible' /\ visible' \in Nat
         /\ \A e \in due \cap Collector : \E i \in DOMAIN events' : events'[i].event = e
<1> DEFINE n == Cardinality(due \cap Collector)
<1>1. n \in Nat
  <2>1. IsFiniteSet(due \cap Collector)
    BY CollectorFinite, FS_Subset
  <2> QED
    BY <2>1, FS_CardinalityType
<1>2. PICK order \in [1 .. n -> due \cap Collector] :
        /\ \A e \in due \cap Collector : \E i \in DOMAIN order : order[i] = e
        /\ events' = events \o [i \in DOMAIN order |-> [event |-> order[i], version |-> truth]]
  BY DEF Collect
<1> DEFINE new == [i \in DOMAIN order |-> [event |-> order[i], version |-> truth]]
<1>3. truth \in Versions
  BY Bounds DEF ServerOK, Versions, Counts
<1>4. Collector \subseteq SSE_TYPES
  BY DEF Collector, SSE_TYPES
<1>5. new \in [1 .. n -> Events]
  BY <1>3, <1>4 DEF Events
<1>6. new \in Seq(Events) /\ Len(new) = n
  <2> HIDE DEF new, n
  <2> QED
    BY <1>1, <1>5
<1>7. events' \in Seq(Events)
  <2> HIDE DEF new
  <2>1. events \in Seq(Events) /\ events' = events \o new
    BY <1>2 DEF ServerOK, new
  <2> QED
    BY <1>6, <2>1
<1>8. ASSUME NEW e \in due \cap Collector
      PROVE  \E i \in DOMAIN events' : events'[i].event = e
  <2>1. PICK j \in 1 .. n : order[j] = e
    BY <1>2
  <2>2. new[j].event = e
    BY <2>1
  <2> HIDE DEF new, n
  <2>3. events \in Seq(Events) /\ events' = events \o new
    BY <1>2 DEF ServerOK, new
  <2>4. Len(events) + j \in 1 .. Len(events') /\ events'[Len(events) + j] = new[j]
    BY <1>1, <1>6, <2>1, <2>3
  <2>5. DOMAIN events' = 1 .. Len(events')
    BY <1>7
  <2> QED
    BY <2>2, <2>4, <2>5
<1>9. /\ visible < truth /\ visible' = truth /\ due' = {} /\ UNCHANGED <<res, truth, count>>
      /\ excused' = (excused \/ (\A e \in due \cap Collector : ~Hears(e)))
  BY DEF Collect
<1>10. ServerOK' /\ visible <= visible' /\ visible' \in Nat
  BY <1>7, <1>9 DEF ServerOK
<1> QED
  BY <1>8, <1>10

(* The sum of it: the types hold, and what reads are answered with never   *)
(* gets older.                                                             *)
LEMMA ServerStep ==
  ASSUME IInv, [Next]_vars
  PROVE  ServerOK' /\ visible <= visible' /\ visible' \in Nat
<1>0. WhereOK /\ ServerOK /\ visible \in Nat /\ visible <= visible
  BY DEF IInv, ServerOK
<1>1. ASSUME UNCHANGED <<res, server, events>>, excused' \in BOOLEAN, count' \in Counts,
             count'["change"] = count["change"]
      PROVE  ServerOK' /\ visible <= visible' /\ visible' \in Nat
  BY <1>0, <1>1 DEF ServerOK, server
<1>2. ASSUME Mishap \/ Gesture
      PROVE  count' \in Counts /\ count'["change"] = count["change"]
  BY <1>0, <1>2, Spent DEF Mishap, Gesture, ServerOK
<1>3. ASSUME NEW h, Reload(h) PROVE excused' \in BOOLEAN
  BY <1>3 DEF Reload
<1>4. CASE ServeAsk
  <2>1. UNCHANGED <<res, server, events, excused>> /\ (UNCHANGED count \/ Mishap)
    BY <1>4 DEF ServeAsk
  <2> QED
    BY <1>0, <1>1, <1>2, <2>1 DEF ServerOK
<1>5. CASE GotAnswer
  <2>1. UNCHANGED <<res, server, events, count>>
    BY <1>5 DEF GotAnswer
  <2>2. PICK q \in asks : excused' = IF ~q.newest THEN excused
                                    ELSE q.state = "failed" \/ (excused /\ q.got < visible)
    BY <1>5 DEF GotAnswer
  <2>3. excused' \in BOOLEAN
    BY <1>0, <2>2 DEF ServerOK
  <2> QED
    BY <1>0, <1>1, <2>1, <2>3 DEF ServerOK
<1>6. CASE ChangeElsewhere
  <2>1. PICK e : Changes(e, TRUE)
    BY <1>6 DEF ChangeElsewhere
  <2>2. res' = res /\ Spend("change", MaxChanges)
    BY <1>6 DEF ChangeElsewhere
  <2>3. count' \in Counts /\ count'["change"] = count["change"] + 1 /\ count["change"] < MaxChanges
    BY <1>0, <2>2, Spent DEF ServerOK
  <2> QED
    BY <1>0, <2>1, <2>2, <2>3, ChangesStep
<1>7. CASE Collect
  BY <1>0, <1>7, CollectStep
<1>8. CASE Hear
  <2>1. events # <<>> /\ events' = Tail(events) /\ excused' \in BOOLEAN
    BY <1>0, <1>3, <1>8 DEF Hear, Heard, ServerOK
  <2>2. events' \in Seq(Events)
    BY <1>0, <2>1 DEF ServerOK
  <2>3. UNCHANGED <<res, server, count>>
    BY <1>8 DEF Hear
  <2> QED
    BY <1>0, <2>1, <2>2, <2>3 DEF ServerOK, server
<1>9. CASE CutStream
  <2>1. /\ events' = <<>> /\ UNCHANGED <<res, server>> /\ Mishap
        /\ excused' = (excused \/ \E i \in DOMAIN events : Hears(events[i].event))
    BY <1>9 DEF CutStream
  <2>2. events' \in Seq(Events) /\ excused' \in BOOLEAN
    BY <2>1
  <2> QED
    BY <1>0, <1>2, <2>1, <2>2 DEF ServerOK, server
<1>10. CASE Navigate
  <2>1. UNCHANGED <<res, server, events>> /\ excused' = FALSE /\ Gesture
    BY <1>10 DEF Navigate
  <2> QED
    BY <1>1, <1>2, <2>1
<1>11. CASE Choose
  <2>1. UNCHANGED <<res, server, events>> /\ excused' \in BOOLEAN /\ Gesture
    BY <1>3, <1>11 DEF Choose
  <2> QED
    BY <1>1, <1>2, <2>1
<1>12. CASE OpenDialog \/ Submit \/ Click
  <2>1. UNCHANGED <<res, server, events, excused>> /\ Gesture
    BY <1>12 DEF OpenDialog, Submit, Click
  <2> QED
    BY <1>0, <1>1, <1>2, <2>1 DEF ServerOK
<1>13. CASE FillIn \/ CloseDialog \/ UNCHANGED vars
  <2>1. UNCHANGED <<res, server, events, excused, count>>
    BY <1>13 DEF FillIn, CloseDialog, vars
  <2> QED
    BY <1>0, <1>1, <2>1 DEF ServerOK
<1>14. CASE ServeCall
  <2>1. res' = res
    BY <1>14 DEF ServeCall
  <2>2. CASE UNCHANGED <<server, events, excused, count>>
    BY <1>0, <1>1, <2>1, <2>2 DEF ServerOK
  <2>3. CASE /\ \E e : \E silent \in BOOLEAN : Changes(e, silent)
             /\ count["change"] < MaxChanges /\ count' \in Counts
             /\ count'["change"] = count["change"] + 1
    BY <1>0, <2>1, <2>3, ChangesStep
  <2>4. ASSUME NEW s \in DOMAIN calls, Changes(calls[s].tells, ~Rereads(calls[s])),
               Spend("change", MaxChanges)
        PROVE  ServerOK' /\ visible <= visible' /\ visible' \in Nat
    <3>1. (~Rereads(calls[s])) \in BOOLEAN
      BY DEF Rereads
    <3> QED
      BY <1>0, <2>3, <2>4, <3>1, Spent DEF ServerOK
  <2>5. ASSUME count["change"] < MaxChanges,
               count' = [count EXCEPT !["change"] = count["change"] + 1,
                                      !["mishap"] = count["mishap"] + 1]
        PROVE  count' \in Counts /\ count'["change"] = count["change"] + 1
    BY <1>0, <2>5 DEF ServerOK, Counts
  <2> QED
    BY <1>14, <2>2, <2>3, <2>4, <2>5 DEF ServeCall
<1>15. CASE GotCall
  <2>1. UNCHANGED <<res, server, events, count>> /\ excused' \in BOOLEAN
    BY <1>0, <1>3, <1>15 DEF GotCall, GotOk, GotFailed, ServerOK
  <2> QED
    BY <1>0, <1>1, <2>1 DEF ServerOK
<1> QED
  BY <1>4, <1>5, <1>6, <1>7, <1>8, <1>9, <1>10, <1>11, <1>12, <1>13, <1>14, <1>15 DEF Next

(* The view changes only to a view there is, the resource never.           *)
LEMMA WhereStep == ASSUME IInv, [Next]_vars PROVE WhereOK' /\ res' = res
<1>1. CASE Navigate
  BY <1>1 DEF Navigate, IInv, WhereOK
<1>2. CASE ~Navigate
  <2>1. UNCHANGED <<res, view>>
    BY <1>2 DEF Next, vars, ServeAsk, GotAnswer, ChangeElsewhere, Collect, Hear, CutStream, Choose,
                OpenDialog, FillIn, CloseDialog, Submit, Click, ServeCall, GotCall
  <2> QED
    BY <2>1 DEF IInv, WhereOK
<1> QED
  BY <1>1, <1>2

-----------------------------------------------------------------------------
(* The copy and the reads.                                                 *)
GoesOn == view' = view /\ Followed => hook'.have >= hook.have

(* The reads: their order, the source of a chart, and no going back.       *)
LEMMA ReadStep ==
  ASSUME IInv, [Next]_vars
  PROVE  ReadsOK' /\ Ordered' /\ Charted' /\ GoesOn
<1>0. /\ WhereOK /\ ReadsOK /\ Ordered /\ Charted /\ ServerOK /\ visible \in Nat
      /\ hook.have \in Nat
  BY DEF IInv, ServerOK, ReadsOK, Hooks, Versions
<1>00. visible <= visible' /\ visible' \in Nat
  BY ServerStep
<1>1. ASSUME UNCHANGED <<res, view, hook, asks>>
      PROVE  ReadsOK' /\ Ordered' /\ Charted' /\ GoesOn
  <2>1. Followed' = Followed
    BY <1>1 DEF Followed, Held, V
  <2>2. Ordered'
    BY <1>0, <1>00, <1>1, <2>1 DEF Ordered, ReadsOK, Asks, Versions
  <2> QED
    BY <1>0, <1>1, <2>2 DEF ReadsOK, Charted, GoesOn
<1>2. ASSUME NEW h \in Hooks, Reload(h), UNCHANGED <<res, view, visible>>,
             Followed => h.have = hook.have
      PROVE  ReadsOK' /\ Ordered' /\ Charted' /\ GoesOn
  <2>1. ReadsOK' /\ Ordered' /\ Charted' /\ (Followed => hook'.have = hook.have)
    BY <1>0, <1>2, ReloadStep
  <2> QED
    BY <1>0, <2>1 DEF GoesOn
<1>3. CASE ServeAsk
  <2>1. PICK q \in asks :
          /\ q.state = "asked"
          /\ \/ asks' = (asks \ {q}) \cup {[q EXCEPT !.state = "served", !.got = visible]}
             \/ asks' = (asks \ {q}) \cup {[q EXCEPT !.state = "failed"]}
    BY <1>3 DEF ServeAsk
  <2>2. PICK r : /\ asks' = (asks \ {q}) \cup {r}
                 /\ \/ r = [q EXCEPT !.state = "served", !.got = visible]
                    \/ r = [q EXCEPT !.state = "failed"]
    BY <2>1
  <2>3. /\ r \in Asks /\ r.newest = q.newest /\ r.of = q.of /\ r.got <= visible
        /\ r.state = "served" => r.got = visible
    <3>1. q \in Asks /\ q.got <= visible
      BY <1>0 DEF ReadsOK, Ordered
    <3>2. visible \in Versions
      BY <1>0, Bounds DEF ServerOK, Versions, Counts
    <3>3. CASE r = [q EXCEPT !.state = "served", !.got = visible]
      <4>1. r = [newest |-> q.newest, of |-> q.of, state |-> "served", got |-> visible]
        BY <3>1, <3>3 DEF Asks
      <4> QED
        BY <1>0, <3>1, <3>2, <4>1 DEF Asks
    <3>4. CASE r = [q EXCEPT !.state = "failed"]
      BY <3>1, <3>4 DEF Asks
    <3> QED
      BY <2>2, <3>3, <3>4
  <2>4. UNCHANGED <<res, view, hook, visible>>
    BY <1>3 DEF ServeAsk, server
  <2>5. ReadsOK'
    <3> DEFINE rest == asks \ {q}
    <3>1. /\ IsFiniteSet(rest) /\ Cardinality(rest) = Cardinality(asks) - 1
          /\ Cardinality(asks) \in Nat
      BY <1>0, FS_RemoveElement, FS_CardinalityType DEF ReadsOK
    <3>2. IsFiniteSet(asks') /\ Cardinality(asks') <= Cardinality(asks)
      <4>1. asks' = rest \cup {r}
        BY <2>2
      <4> HIDE DEF rest
      <4>2. /\ IsFiniteSet(rest \cup {r})
            /\ Cardinality(rest \cup {r}) = IF r \in rest THEN Cardinality(rest)
                                             ELSE Cardinality(rest) + 1
        BY <3>1, FS_AddElement
      <4> QED
        BY <3>1, <4>1, <4>2
    <3>3. Cardinality(asks') <= MaxAsks
      <4>1. Cardinality(asks') \in Nat
        BY <3>2, FS_CardinalityType
      <4> QED
        BY <1>0, <3>1, <3>2, <4>1, Bounds DEF ReadsOK
    <3> QED
      BY <1>0, <2>2, <2>3, <2>4, <3>2, <3>3 DEF ReadsOK
  <2>6. Followed' = Followed
    BY <2>4 DEF Followed, Held, V
  <2>7. Ordered'
    BY <1>0, <2>2, <2>3, <2>4, <2>6 DEF Ordered
  <2>8. Charted'
    BY <1>0, <2>2, <2>3, <2>4 DEF Charted
  <2> QED
    BY <1>0, <2>4, <2>5, <2>7, <2>8 DEF GoesOn
<1>4. CASE GotAnswer
  <2>1. PICK q \in asks : q.state # "asked" /\ asks' = asks \ {q} /\ hook' = Answered(q)
    BY <1>4 DEF GotAnswer
  <2>2. UNCHANGED <<res, view, visible>>
    BY <1>4 DEF GotAnswer, server
  <2>3. Followed' = Followed
    BY <2>2 DEF Followed, Held, V
  <2>4. q \in Asks /\ q.got <= visible
    BY <1>0 DEF ReadsOK, Ordered
  <2>5. /\ hook' \in Hooks
        /\ \/ hook' = hook
           \/ /\ V.latest => q.newest
              /\ hook'.have = hook.have /\ hook'.bad = TRUE /\ hook'.want = hook.want
           \/ /\ V.latest => q.newest
              /\ hook'.have = q.got /\ hook'.of = q.of /\ hook'.want = hook.want
              /\ q.state = "served"
    BY <1>0, <2>1, <2>4 DEF Answered, ReadsOK, Hooks, Asks
  <2>6. ReadsOK'
    <3>1. IsFiniteSet(asks') /\ Cardinality(asks') <= Cardinality(asks)
      BY <1>0, <2>1, FS_Subset DEF ReadsOK
    <3>2. Cardinality(asks) \in Nat /\ Cardinality(asks') \in Nat
      BY <1>0, <3>1, FS_CardinalityType DEF ReadsOK
    <3> QED
      BY <1>0, <2>1, <2>5, <3>1, <3>2, Bounds DEF ReadsOK
  <2>7. Followed => V.latest
    BY DEF Followed
  <2>8. ASSUME Followed
        PROVE  /\ hook'.have <= visible /\ hook'.have >= hook.have
               /\ \A r \in asks' : r.newest /\ r.state = "served" => hook'.have <= r.got
    <3>1. CASE hook'.have = hook.have
      BY <1>0, <2>1, <2>8, <3>1 DEF Ordered
    <3>2. CASE q.newest /\ hook'.have = q.got /\ q.state = "served"
      <4>1. hook.have <= q.got /\ q.got \in Nat
        BY <1>0, <2>4, <2>8, <3>2 DEF Ordered, Asks, Versions
      <4>2. \A r \in asks' : ~r.newest
        BY <1>0, <2>1, <3>2 DEF Ordered
      <4> QED
        BY <1>0, <2>4, <3>2, <4>1, <4>2
    <3> QED
      BY <2>5, <2>7, <2>8, <3>1, <3>2
  <2>9. Ordered'
    BY <1>0, <2>1, <2>2, <2>3, <2>8 DEF Ordered
  <2>10. Charted'
    <3>1. view = "trends" => V.latest
      BY TrendsView DEF V
    <3> QED
      BY <1>0, <2>1, <2>2, <2>5, <3>1 DEF Charted
  <2> QED
    BY <2>6, <2>8, <2>9, <2>10 DEF GoesOn
<1>5. CASE Hear
  <2> DEFINE e == Head(events)
             h == IF Patched(e) THEN [hook EXCEPT !.have = e.version] ELSE hook
  <2>1. /\ events # <<>> /\ UNCHANGED <<res, view, visible>>
        /\ IF Hears(e.event) THEN Reload(h) ELSE hook' = h /\ asks' = asks
    BY <1>5 DEF Hear, Heard, server
  <2>2. e \in Events
    BY <1>0, <2>1 DEF ServerOK
  <2>3. h \in Hooks /\ h.of = hook.of /\ h.want = hook.want
        /\ h.loading = hook.loading /\ h.bad = hook.bad
    BY <1>0, <2>2 DEF ReadsOK, Hooks, Events
  <2>4. Patched(e) => ~Followed /\ view # "trends"
    BY <2>2, PatchedCopy DEF Events
  <2>5. Followed => h.have = hook.have
    BY <2>4
  <2> HIDE DEF e, h
  <2>6. CASE Hears(e.event)
    BY <1>2, <2>1, <2>3, <2>5, <2>6
  <2>7. CASE ~Hears(e.event)
    <3>1. hook' = h /\ asks' = asks
      BY <2>1, <2>7
    <3>2. Followed' = Followed
      BY <2>1 DEF Followed, Held, V
    <3>3. Ordered' /\ GoesOn
      BY <1>0, <2>1, <2>5, <3>1, <3>2 DEF Ordered, GoesOn
    <3> QED
      BY <1>0, <2>1, <2>3, <3>1, <3>3 DEF ReadsOK, Charted
  <2> QED
    BY <2>6, <2>7
<1>6. CASE Navigate
  <2>1. PICK v \in DOMAIN ViewOf \ {view} :
          /\ view' = v /\ hook' = Blank
          /\ asks' = IF res \in ViewOf[v].hooks THEN Reloaded({}, 0) ELSE {}
    BY <1>6 DEF Navigate
  <2>2. /\ Blank \in Hooks /\ Blank.have = 0 /\ Blank.want = 0 /\ Blank.loading = TRUE
    BY Bounds DEF Blank, Hooks, Versions
  <2>3. /\ asks' \in SUBSET Asks /\ IsFiniteSet(asks') /\ Cardinality(asks') <= MaxAsks
        /\ \A q, r \in asks' : q.newest /\ r.newest => q = r
        /\ \A q \in asks' : q.newest => q.state = "asked" /\ q.of = 0
        /\ \A q \in asks' : q.got = 0
    <3>1. CASE asks' = {}
      BY <3>1, FS_EmptySet, Bounds
    <3>2. CASE asks' = Reloaded({}, 0)
      BY <3>2, FirstAsk
    <3> QED
      BY <2>1, <3>1, <3>2
  <2>4. Ordered'
    BY <1>00, <2>1, <2>2, <2>3 DEF Ordered
  <2>5. ReadsOK' /\ Charted'
    BY <2>1, <2>2, <2>3 DEF ReadsOK, Charted
  <2> QED
    BY <2>1, <2>4, <2>5 DEF GoesOn
<1>7. CASE Choose
  <2>1. Reload([hook EXCEPT !.want = 1 - hook.want]) /\ UNCHANGED <<res, view, visible>>
    BY <1>7 DEF Choose, server
  <2>2. /\ [hook EXCEPT !.want = 1 - hook.want] \in Hooks
        /\ [hook EXCEPT !.want = 1 - hook.want].have = hook.have
    BY <1>0 DEF ReadsOK, Hooks
  <2> QED
    BY <1>2, <2>1, <2>2
<1>8. CASE GotCall
  <2>1. UNCHANGED <<res, view, visible>> /\ (Reload(hook) \/ UNCHANGED <<hook, asks>>)
    BY <1>8 DEF GotCall, GotOk, GotFailed, server
  <2> QED
    BY <1>0, <1>1, <1>2, <2>1 DEF ReadsOK
<1>9. CASE \/ ChangeElsewhere \/ Collect \/ CutStream \/ OpenDialog \/ FillIn \/ CloseDialog
           \/ Submit \/ Click \/ ServeCall \/ UNCHANGED vars
  <2>1. UNCHANGED <<res, view, hook, asks>>
    BY <1>9 DEF ChangeElsewhere, Collect, CutStream, OpenDialog, FillIn, CloseDialog, Submit,
                Click, ServeCall, vars
  <2> QED
    BY <1>1, <2>1
<1> QED
  BY <1>3, <1>4, <1>5, <1>6, <1>7, <1>8, <1>9 DEF Next

-----------------------------------------------------------------------------
(* The dialog and the calls.                                               *)
LEMMA SentCall ==
  ASSUME NEW a, ActOK(a, FALSE), NEW from \in {"dialog", "view"}
  PROVE  LET c == Sent(a, from)
         IN  /\ c \in Calls /\ c.mine = TRUE /\ c.from = from /\ c.busy = a.busy
             /\ c.closes = (a.after = "closed") /\ c.state = "sent"
  BY DEF Sent, Calls, ActOK, Tells

(* What waits, of a table of calls.                                        *)
Waits(c) == c # None /\ c.from = "dialog" /\ c.mine /\ c.busy

LEMMA PendingWaits ==
  /\ Pending = {s \in DOMAIN calls : Waits(calls[s])}
  /\ Pending' = {s \in DOMAIN calls' : Waits(calls'[s])}
  BY DEF Pending, Waits

(* A new call takes a free place and leaves the others alone.              *)
LEMMA CallStep ==
  ASSUME CallsOK, NEW a, ActOK(a, FALSE), NEW from \in {"dialog", "view"}, Call(a, from)
  PROVE  /\ calls' \in [1 .. MaxCalls -> Calls \cup {None}]
         /\ from = "view" \/ ~a.busy => Pending' = Pending
         /\ from = "dialog" /\ a.busy =>
              \E s \in 1 .. MaxCalls :
                Pending' = Pending \cup {s} /\ calls'[s].closes = (a.after = "closed")
         /\ \A s \in Pending : calls'[s] = calls[s]
<1> DEFINE c == Sent(a, from)
<1>1. PICK s \in DOMAIN calls : calls[s] = None /\ calls' = [calls EXCEPT ![s] = c]
  BY DEF Call
<1>2. /\ c \in Calls /\ c # None /\ c.mine = TRUE /\ c.from = from /\ c.busy = a.busy
      /\ c.closes = (a.after = "closed")
  BY SentCall, Bounds
<1> HIDE DEF c
<1>3. /\ calls \in [1 .. MaxCalls -> Calls \cup {None}] /\ DOMAIN calls = 1 .. MaxCalls
      /\ DOMAIN calls' = 1 .. MaxCalls
  BY <1>1 DEF CallsOK
<1>4. calls' \in [1 .. MaxCalls -> Calls \cup {None}]
  BY <1>1, <1>2, <1>3
<1>5. s \notin Pending /\ calls'[s] = c /\ \A t \in DOMAIN calls \ {s} : calls'[t] = calls[t]
  BY <1>1, <1>3 DEF Pending
<1>6. Waits(c) <=> from = "dialog" /\ a.busy
  BY <1>2 DEF Waits
<1>7. Pending' = IF Waits(c) THEN Pending \cup {s} ELSE Pending
  BY <1>3, <1>5, PendingWaits
<1> QED
  BY <1>1, <1>2, <1>3, <1>4, <1>5, <1>6, <1>7, PendingWaits

(* Whoever closes a dialog makes its calls nobody's.                       *)
LEMMA NotMineStep ==
  ASSUME CallsOK, NEW from \in {"dialog", "view"}
  PROVE  /\ NotMine(from) \in [1 .. MaxCalls -> Calls \cup {None}]
         /\ \A s \in 1 .. MaxCalls : from = "dialog" => ~Waits(NotMine(from)[s])
         /\ \A s \in 1 .. MaxCalls :
              from = "view" => (Waits(NotMine(from)[s]) <=> Waits(calls[s]))
         /\ \A s \in 1 .. MaxCalls : Waits(calls[s]) /\ from = "view" => NotMine(from)[s] = calls[s]
         /\ \A s \in 1 .. MaxCalls :
              /\ NotMine(from)[s] = None <=> calls[s] = None
              /\ calls[s] # None =>
                   /\ NotMine(from)[s].state = calls[s].state
                   /\ NotMine(from)[s].rereads = calls[s].rereads
                   /\ NotMine(from)[s].from = calls[s].from
                   /\ calls[s].from # from => NotMine(from)[s] = calls[s]
<1> SUFFICES ASSUME NEW s \in 1 .. MaxCalls
             PROVE  LET c == calls[s]
                        d == IF c # None /\ c.from = from THEN [c EXCEPT !.mine = FALSE] ELSE c
                    IN  /\ d \in Calls \cup {None}
                        /\ from = "dialog" => ~Waits(d)
                        /\ from = "view" => (Waits(d) <=> Waits(c))
                        /\ Waits(c) /\ from = "view" => d = c
                        /\ d = None <=> c = None
                        /\ c # None => /\ d.state = c.state /\ d.rereads = c.rereads
                                       /\ d.from = c.from /\ (c.from # from => d = c)
  BY DEF NotMine, CallsOK
<1>1. calls[s] \in Calls \cup {None} /\ None \notin Calls
  BY Bounds DEF CallsOK
<1>2. CASE calls[s] = None \/ calls[s].from # from
  BY <1>1, <1>2 DEF Waits
<1>3. CASE calls[s] # None /\ calls[s].from = from
  <2> DEFINE d == [calls[s] EXCEPT !.mine = FALSE]
  <2>1. /\ d \in Calls /\ d.mine = FALSE /\ d.state = calls[s].state
        /\ d.rereads = calls[s].rereads /\ d.from = calls[s].from
    BY <1>1, <1>3 DEF Calls
  <2>2. d # None
    BY <1>1, <2>1
  <2>3. ~Waits(d)
    BY <2>1 DEF Waits
  <2> HIDE DEF d
  <2>4. from = "view" => ~Waits(calls[s])
    BY <1>3 DEF Waits
  <2> QED
    BY <1>3, <2>1, <2>2, <2>3, <2>4 DEF d
<1> QED
  BY <1>2, <1>3

(* The dialog on screen and what waits for it.                             *)
LEMMA DialogStep ==
  ASSUME IInv, [Next]_vars
  PROVE  CallsOK' /\ OneDialog'
<1>0. /\ WhereOK /\ CallsOK /\ OneDialog
      /\ calls \in [1 .. MaxCalls -> Calls \cup {None}] /\ DOMAIN calls = 1 .. MaxCalls
      /\ dialog \in Shown \cup {None} /\ None \notin Calls /\ None \notin Shown
  BY Bounds DEF IInv, CallsOK
<1>1. ASSUME NEW c, c \in [1 .. MaxCalls -> Calls \cup {None}], calls' = c, dialog' = dialog,
             \A s \in 1 .. MaxCalls :
               /\ Waits(c[s]) <=> Waits(calls[s])
               /\ Waits(calls[s]) => c[s].closes = calls[s].closes
      PROVE  CallsOK' /\ OneDialog'
  <2>1. Pending' = Pending /\ \A s \in Pending : calls'[s].closes = calls[s].closes
    BY <1>0, <1>1, PendingWaits
  <2> QED
    BY <1>0, <1>1, <2>1 DEF CallsOK, OneDialog
<1>2. CASE \/ ServeAsk \/ GotAnswer \/ ChangeElsewhere \/ Collect \/ Hear \/ CutStream \/ Choose
           \/ UNCHANGED vars
  <2>1. UNCHANGED <<dialog, calls>>
    BY <1>2 DEF ServeAsk, GotAnswer, ChangeElsewhere, Collect, Hear, CutStream, Choose, vars
  <2> QED
    BY <1>0, <1>1, <2>1
<1>3. CASE Navigate
  <2>1. calls' = NotMine("view") /\ dialog' = dialog
    BY <1>3 DEF Navigate
  <2>2. /\ NotMine("view") \in [1 .. MaxCalls -> Calls \cup {None}]
        /\ \A s \in 1 .. MaxCalls :
             /\ Waits(NotMine("view")[s]) <=> Waits(calls[s])
             /\ Waits(calls[s]) => NotMine("view")[s] = calls[s]
    BY <1>0, NotMineStep
  <2> QED
    BY <1>1, <2>1, <2>2
<1>4. CASE OpenDialog
  <2>1. PICK d \in V.opens : dialog' = [name |-> d, filled |-> FALSE, busy |-> FALSE]
    BY <1>4 DEF OpenDialog
  <2>2. d \in DOMAIN DialogOf
    BY <1>0, <2>1, ViewOpens DEF V, WhereOK
  <2>3. dialog = None /\ calls' = calls
    BY <1>4 DEF OpenDialog
  <2>4. Pending' = {}
    BY <1>0, <2>3, PendingWaits DEF OneDialog
  <2> QED
    BY <1>0, <2>1, <2>2, <2>3, <2>4 DEF CallsOK, OneDialog, Shown
<1>5. CASE FillIn
  <2>1. dialog # None /\ dialog' = [dialog EXCEPT !.filled = TRUE] /\ calls' = calls
    BY <1>5 DEF FillIn
  <2>2. /\ dialog' \in Shown /\ dialog' # None /\ dialog'.name = dialog.name
        /\ dialog'.busy = dialog.busy
    BY <1>0, <2>1 DEF Shown
  <2>3. Pending' = Pending
    BY <2>1, PendingWaits
  <2> QED
    BY <1>0, <2>1, <2>2, <2>3 DEF CallsOK, OneDialog
<1>6. ASSUME dialog' = None, calls' \in [1 .. MaxCalls -> Calls \cup {None}],
             \A s \in 1 .. MaxCalls : ~Waits(calls'[s])
      PROVE  CallsOK' /\ OneDialog'
  <2>1. Pending' = {}
    BY <1>6, PendingWaits
  <2> QED
    BY <1>6, <2>1 DEF CallsOK, OneDialog
<1>7. CASE CloseDialog
  <2>1. dialog' = None /\ calls' = NotMine("dialog")
    BY <1>7 DEF CloseDialog
  <2> QED
    BY <1>0, <1>6, <2>1, NotMineStep
<1>8. CASE Submit
  <2>1. PICK a \in DialogOf[dialog.name].acts :
          /\ a.busy => ~dialog.busy
          /\ Call(a, "dialog")
          /\ dialog' = [dialog EXCEPT !.busy = dialog.busy \/ a.busy]
    BY <1>8 DEF Submit
  <2>2. dialog \in Shown /\ dialog # None
    BY <1>0, <1>8 DEF Submit
  <2>3. ActOK(a, dialog.name # "propsds") /\ ActOK(a, FALSE) /\ a.busy \in BOOLEAN
    BY <2>1, <2>2, DialogActs DEF Shown, ActOK
  <2>4. /\ dialog' \in Shown /\ dialog' # None /\ dialog'.name = dialog.name
        /\ dialog'.busy = (dialog.busy \/ a.busy)
    BY <1>0, <2>1, <2>2, <2>3 DEF Shown
  <2>5. /\ calls' \in [1 .. MaxCalls -> Calls \cup {None}]
        /\ ~a.busy => Pending' = Pending
        /\ a.busy => \E s \in 1 .. MaxCalls :
             Pending' = Pending \cup {s} /\ calls'[s].closes = (a.after = "closed")
        /\ \A s \in Pending : calls'[s] = calls[s]
    BY <1>0, <2>1, <2>3, CallStep
  <2>6. CASE ~a.busy
    BY <1>0, <2>2, <2>4, <2>5, <2>6 DEF CallsOK, OneDialog, Shown
  <2>7. CASE a.busy /\ dialog.name # "propsds"
    <3>1. PICK s \in 1 .. MaxCalls :
            Pending' = Pending \cup {s} /\ calls'[s].closes = (a.after = "closed")
      BY <2>5, <2>7
    <3>2. Pending = {} /\ a.after = "closed"
      BY <1>0, <2>1, <2>2, <2>3, <2>7 DEF OneDialog, ActOK
    <3>3. Pending' = {s} /\ calls'[s].closes /\ dialog'.busy
      BY <2>4, <2>7, <3>1, <3>2
    <3> QED
      BY <2>4, <2>5, <3>3 DEF CallsOK, OneDialog
  <2>8. CASE dialog.name = "propsds"
    BY <2>4, <2>5, <2>8 DEF CallsOK, OneDialog
  <2> QED
    BY <2>6, <2>7, <2>8
<1>9. CASE Click
  <2>1. PICK a \in V.acts : Call(a, "view")
    BY <1>9 DEF Click
  <2>2. ActOK(a, FALSE)
    BY <1>0, <2>1, ViewActs DEF V, WhereOK
  <2>3. /\ calls' \in [1 .. MaxCalls -> Calls \cup {None}] /\ Pending' = Pending
        /\ \A s \in Pending : calls'[s] = calls[s]
    BY <1>0, <2>1, <2>2, CallStep
  <2>4. dialog' = dialog
    BY <1>9 DEF Click
  <2> QED
    BY <1>0, <2>3, <2>4 DEF CallsOK, OneDialog
<1>10. CASE ServeCall
  <2>1. PICK s \in 1 .. MaxCalls : /\ calls[s] # None
                                  /\ \E state \in {"ok", "failed"} : Outcome(s, state)
    BY <1>0, <1>10 DEF ServeCall
  <2>2. PICK state \in {"ok", "failed"} : calls' = [calls EXCEPT ![s].state = state]
    BY <2>1 DEF Outcome
  <2> DEFINE c == [calls[s] EXCEPT !.state = state]
  <2>3. /\ c \in Calls /\ c.mine = calls[s].mine /\ c.from = calls[s].from
        /\ c.busy = calls[s].busy /\ c.closes = calls[s].closes
    BY <1>0, <2>1 DEF Calls
  <2>4. Waits(c) <=> Waits(calls[s])
    BY <1>0, <2>1, <2>3 DEF Waits
  <2>5. calls' = [calls EXCEPT ![s] = c]
    BY <2>2
  <2>6. dialog' = dialog
    BY <1>10 DEF ServeCall
  <2> HIDE DEF c
  <2>7. /\ calls' \in [1 .. MaxCalls -> Calls \cup {None}]
        /\ \A t \in 1 .. MaxCalls : calls'[t] = IF t = s THEN c ELSE calls[t]
    BY <1>0, <2>3, <2>5
  <2> QED
    BY <1>1, <2>3, <2>4, <2>6, <2>7
<1>11. CASE GotCall
  <2>1. PICK s \in 1 .. MaxCalls : calls[s] # None /\ (GotOk(s) \/ GotFailed(s))
    BY <1>0, <1>11 DEF GotCall
  <2>2. CASE GotOk(s) /\ calls[s].closes
    <3>1. dialog' = None /\ calls' = [NotMine("dialog") EXCEPT ![s] = None]
      BY <2>2 DEF GotOk
    <3>2. /\ NotMine("dialog") \in [1 .. MaxCalls -> Calls \cup {None}]
          /\ \A t \in 1 .. MaxCalls : ~Waits(NotMine("dialog")[t])
      BY <1>0, NotMineStep
    <3>3. ~Waits(None)
      BY DEF Waits
    <3> QED
      BY <1>6, <3>1, <3>2, <3>3
  <2>3. ASSUME calls' = [calls EXCEPT ![s] = None]
        PROVE  /\ calls' \in [1 .. MaxCalls -> Calls \cup {None}] /\ Pending' = Pending \ {s}
               /\ \A t \in Pending' : calls'[t] = calls[t]
    <3>1. ~Waits(None)
      BY DEF Waits
    <3> QED
      BY <1>0, <2>3, <3>1, PendingWaits
  <2>4. CASE GotOk(s) /\ ~calls[s].closes
    <3>1. calls' = [calls EXCEPT ![s] = None] /\ dialog' = dialog
      BY <2>4 DEF GotOk
    <3>2. s \in Pending => dialog # None /\ dialog.name = "propsds"
      BY <1>0, <2>4 DEF OneDialog
    <3>3. s \notin Pending => Pending' = Pending
      BY <2>3, <3>1
    <3> QED
      BY <1>0, <2>3, <3>1, <3>2, <3>3 DEF CallsOK, OneDialog
  <2>5. CASE GotFailed(s)
    <3>1. calls' = [calls EXCEPT ![s] = None]
      BY <2>5 DEF GotFailed
    <3>2. s \in Pending <=> calls[s].from = "dialog" /\ calls[s].mine /\ calls[s].busy
      BY <1>0, <2>1 DEF Pending
    <3>3. dialog' = IF dialog # None /\ s \in Pending THEN [dialog EXCEPT !.busy = FALSE]
                    ELSE dialog
      BY <2>5, <3>2 DEF GotFailed
    <3>4. CASE dialog # None /\ s \in Pending
      <4>1. /\ dialog' \in Shown /\ dialog' # None /\ dialog'.name = dialog.name
            /\ dialog'.busy = FALSE
        BY <1>0, <3>3, <3>4 DEF Shown
      <4>2. dialog.name # "propsds" => Pending' = {}
        BY <1>0, <2>3, <3>1, <3>4 DEF OneDialog, Shown
      <4> QED
        BY <2>3, <3>1, <4>1, <4>2 DEF CallsOK, OneDialog
    <3>5. CASE s \notin Pending
      <4>1. dialog' = dialog /\ Pending' = Pending
        BY <2>3, <3>1, <3>3, <3>5
      <4> QED
        BY <1>0, <2>3, <3>1, <4>1 DEF CallsOK, OneDialog
    <3>6. s \in Pending => dialog # None
      BY <1>0 DEF OneDialog
    <3> QED
      BY <3>4, <3>5, <3>6
  <2> QED
    BY <2>1, <2>2, <2>4, <2>5
<1> QED
  BY <1>2, <1>3, <1>4, <1>5, <1>7, <1>8, <1>9, <1>10, <1>11 DEF Next

-----------------------------------------------------------------------------
(* What brings the version a view lacks.                                   *)
AskComes == \E q \in asks : q.newest /\ (q.state = "served" => q.got = visible)
EventComes == \E i \in DOMAIN events : Hears(events[i].event)
Comes(c) == c # None /\ c.state = "ok" /\ Rereads(c)
CallComes == \E s \in DOMAIN calls : Comes(calls[s])

(* StaleIsOnItsWay, by what it is that brings the version.                 *)
LEMMA StaleComes ==
  /\ StaleIsOnItsWay <=>
       (Followed /\ hook.have < visible => excused \/ AskComes \/ EventComes \/ CallComes)
  /\ StaleIsOnItsWay' <=>
       (Followed' /\ hook'.have < visible' => excused' \/ AskComes' \/ EventComes' \/ CallComes')
  BY DEF StaleIsOnItsWay, AskComes, EventComes, CallComes, Comes

(* A read just made brings whatever is visible when it is served.          *)
LEMMA Newest == HasNewest(asks') => AskComes'
  BY DEF HasNewest, AskComes

(* While the view stays, so does what it hears and rereads.                *)
LEMMA Where ==
  ASSUME UNCHANGED <<res, view>>
  PROVE  /\ Followed' = Followed /\ Held' = Held
         /\ \A e : Hears(e)' = Hears(e)
         /\ \A c : Rereads(c)' = Rereads(c) /\ Comes(c)' = Comes(c)
  BY DEF Followed, Held, V, Hears, Rereads, Comes

(* A change is told, or is known not to be.                                *)
LEMMA ChangesStale ==
  ASSUME ServerOK, ServerOK', StaleIsOnItsWay, NEW e, NEW silent \in BOOLEAN, Changes(e, silent),
         UNCHANGED <<res, view, hook, asks>>, CallComes => CallComes', ~silent => CallComes'
  PROVE  StaleIsOnItsWay'
<1>1. CASE res \in Cached
  <2>1. /\ visible' = visible /\ excused' = excused
        /\ events' = events \/ events' = Published(e, truth')
    BY <1>1 DEF Changes
  <2>2. AskComes' = AskComes
    BY <2>1 DEF AskComes
  <2>3. EventComes => EventComes'
    <3> SUFFICES ASSUME NEW i \in DOMAIN events, Hears(events[i].event) PROVE EventComes'
      BY DEF EventComes
    <3>1. events \in Seq(Events) /\ events' \in Seq(Events)
      BY DEF ServerOK
    <3>2. events' = events \/ \E x : events' = Append(events, x)
      BY <2>1 DEF Published
    <3>3. i \in DOMAIN events' /\ events'[i] = events[i]
      BY <3>1, <3>2
    <3> QED
      BY <3>3, Where DEF EventComes
  <2> QED
    BY <2>1, <2>2, <2>3, StaleComes, Where
<1>2. CASE res \notin Cached
  <2>1. events' = Published(e, truth') /\ excused' = (excused \/ (silent /\ ~Hears(e)))
    BY <1>2 DEF Changes
  <2>2. CASE Hears(e)
    <3> DEFINE new == [event |-> e, version |-> truth']
    <3>1. events' = Append(events, new) /\ new.event = e
      BY <2>1, <2>2 DEF Published, Hears
    <3> HIDE DEF new
    <3>2. events \in Seq(Events) /\ events' \in Seq(Events)
      BY DEF ServerOK
    <3>3. Len(events) + 1 \in DOMAIN events' /\ events'[Len(events) + 1] = new
      BY <3>1, <3>2
    <3>4. EventComes'
      BY <2>2, <3>1, <3>3, Where DEF EventComes
    <3> QED
      BY <3>4, StaleComes
  <2>3. CASE silent /\ ~Hears(e)
    BY <2>1, <2>3, StaleComes
  <2>4. CASE ~silent
    BY <2>4, StaleComes
  <2> QED
    BY <2>2, <2>3, <2>4
<1> QED
  BY <1>1, <1>2

(* Every step leaves what is lacking on its way.                           *)
LEMMA StaleStep ==
  ASSUME IInv, [Next]_vars
  PROVE  StaleIsOnItsWay'
<1>0. /\ WhereOK /\ ReadsOK /\ CallsOK /\ ServerOK /\ Ordered /\ StaleIsOnItsWay
      /\ calls \in [1 .. MaxCalls -> Calls \cup {None}] /\ DOMAIN calls = 1 .. MaxCalls
      /\ None \notin Calls /\ visible \in Nat
  BY Bounds DEF IInv, CallsOK, ServerOK
<1>00. ServerOK' /\ res' = res
  BY ServerStep, WhereStep
<1>1. ASSUME UNCHANGED <<res, view, hook, visible>>, excused => excused', AskComes => AskComes',
             EventComes => EventComes', CallComes => CallComes'
      PROVE  StaleIsOnItsWay'
  BY <1>0, <1>1, StaleComes, Where
<1>2. ASSUME UNCHANGED <<res, view>>, calls' = calls PROVE CallComes' = CallComes
  BY <1>2, Where DEF CallComes
<1>3. ASSUME UNCHANGED <<res, view>>, events' = events PROVE EventComes' = EventComes
  BY <1>3, Where DEF EventComes
<1>4. ASSUME UNCHANGED <<asks, visible>> PROVE AskComes' = AskComes
  BY <1>4 DEF AskComes
<1>5. ASSUME UNCHANGED <<res, view>>, DOMAIN calls' = DOMAIN calls,
             \A s \in 1 .. MaxCalls : Comes(calls[s]) => Comes(calls'[s])
      PROVE  CallComes => CallComes'
  BY <1>0, <1>5, Where DEF CallComes
<1>6. ASSUME NEW h, Reload(h), IInv PROVE StaleIsOnItsWay'
  <2>1. asks' = Reloaded(asks, h.want)
    BY <1>6 DEF Reload
  <2>2. HasNewest(asks')
    <3> DEFINE new == [newest |-> TRUE, of |-> h.want, state |-> "asked", got |-> 0]
    <3>1. new \in asks'
      BY <2>1 DEF Reloaded
    <3>2. new.newest /\ new.state = "asked"
      OBVIOUS
    <3> HIDE DEF new
    <3> QED
      BY <3>1, <3>2 DEF HasNewest
  <2> QED
    BY <2>2, Newest, StaleComes
<1>7. CASE ServeAsk
  <2>1. PICK q \in asks :
          \/ asks' = (asks \ {q}) \cup {[q EXCEPT !.state = "served", !.got = visible]}
          \/ asks' = (asks \ {q}) \cup {[q EXCEPT !.state = "failed"]}
    BY <1>7 DEF ServeAsk
  <2>2. PICK r : /\ asks' = (asks \ {q}) \cup {r}
                 /\ \/ r = [q EXCEPT !.state = "served", !.got = visible]
                    \/ r = [q EXCEPT !.state = "failed"]
    BY <2>1
  <2>3. q \in Asks
    BY <1>0 DEF ReadsOK
  <2>4. r.newest = q.newest /\ (r.state = "served" => r.got = visible)
    <3>1. CASE r = [q EXCEPT !.state = "served", !.got = visible]
      <4>1. r = [newest |-> q.newest, of |-> q.of, state |-> "served", got |-> visible]
        BY <2>3, <3>1 DEF Asks
      <4> QED
        BY <4>1
    <3>2. CASE r = [q EXCEPT !.state = "failed"]
      BY <2>3, <3>2 DEF Asks
    <3> QED
      BY <2>2, <3>1, <3>2
  <2>5. UNCHANGED <<res, view, hook, visible, events, calls, excused>>
    BY <1>7 DEF ServeAsk, server
  <2>6. AskComes => AskComes'
    BY <2>2, <2>4, <2>5 DEF AskComes
  <2> QED
    BY <1>1, <1>2, <1>3, <2>5, <2>6
<1>8. CASE GotAnswer
  <2>1. PICK q \in asks :
          /\ q.state # "asked" /\ asks' = asks \ {q} /\ hook' = Answered(q)
          /\ excused' = IF ~q.newest THEN excused
                        ELSE q.state = "failed" \/ (excused /\ q.got < visible)
    BY <1>8 DEF GotAnswer
  <2>2. UNCHANGED <<res, view, visible, events, calls>>
    BY <1>8 DEF GotAnswer, server
  <2>3. /\ q \in Asks /\ hook \in Hooks /\ q.got <= visible
        /\ Followed' = Followed /\ EventComes' = EventComes /\ CallComes' = CallComes
    BY <1>0, <1>2, <1>3, <2>2, Where DEF ReadsOK, Ordered
  <2> SUFFICES ASSUME Followed, hook'.have < visible
               PROVE  excused' \/ AskComes' \/ EventComes' \/ CallComes'
    BY <2>2, <2>3, StaleComes
  <2>4. CASE ~q.newest
    <3>1. hook' = hook /\ excused' = excused
      BY <2>1, <2>4 DEF Answered, Followed
    <3>2. AskComes => AskComes'
      BY <2>1, <2>2, <2>4 DEF AskComes
    <3> QED
      BY <1>0, <2>3, <3>1, <3>2, StaleComes
  <2>5. CASE q.newest /\ q.state = "failed"
    BY <2>1, <2>5
  <2>6. CASE q.newest /\ q.state = "served"
    <3>1. hook'.have = q.got
      BY <2>1, <2>3, <2>6 DEF Answered, Hooks
    <3>2. hook.have <= q.got /\ hook.have \in Nat /\ q.got \in Nat
      BY <1>0, <2>3, <2>6 DEF Ordered, Hooks, Asks, Versions
    <3>3. ~AskComes
      BY <1>0, <2>6, <3>1, <3>2 DEF AskComes, Ordered
    <3>4. hook.have < visible
      BY <1>0, <3>1, <3>2
    <3> QED
      BY <1>0, <2>1, <2>3, <2>6, <3>1, <3>3, <3>4, StaleComes
  <2> QED
    BY <2>1, <2>3, <2>4, <2>5, <2>6 DEF Asks
<1>9. CASE ChangeElsewhere
  <2>1. PICK e : Changes(e, TRUE)
    BY <1>9 DEF ChangeElsewhere
  <2>2. UNCHANGED <<res, view, hook, asks, calls>>
    BY <1>9 DEF ChangeElsewhere
  <2>3. CallComes => CallComes'
    BY <1>2, <2>2
  <2> QED
    BY <1>0, <1>00, <2>1, <2>2, <2>3, ChangesStale
<1>10. CASE Collect
  <2>1. /\ UNCHANGED <<res, view>>
        /\ excused' = (excused \/ (\A e \in due \cap Collector : ~Hears(e)))
    BY <1>10 DEF Collect
  <2>2. \A e \in due \cap Collector : \E i \in DOMAIN events' : events'[i].event = e
    BY <1>0, <1>10, CollectStep
  <2>3. excused' \/ EventComes'
    BY <2>1, <2>2, Where DEF EventComes
  <2> QED
    BY <2>3, StaleComes
<1>11. CASE Hear
  <2> DEFINE e == Head(events)
             h == IF Patched(e) THEN [hook EXCEPT !.have = e.version] ELSE hook
  <2>1. /\ events # <<>> /\ events' = Tail(events) /\ UNCHANGED <<res, view, visible, calls>>
        /\ IF Hears(e.event) THEN Reload(h) ELSE hook' = h /\ asks' = asks /\ excused' = excused
    BY <1>11 DEF Hear, Heard, server
  <2>2. e \in Events
    BY <1>0, <2>1 DEF ServerOK
  <2>3. Followed => h.have = hook.have
    BY <2>2, PatchedCopy DEF Events
  <2>4. CASE Hears(e.event)
    BY <1>6, <2>1, <2>4
  <2>5. CASE ~Hears(e.event)
    <3>1. EventComes => EventComes'
      <4> SUFFICES ASSUME NEW i \in DOMAIN events, Hears(events[i].event) PROVE EventComes'
        BY DEF EventComes
      <4>1. events \in Seq(Events) /\ events # <<>> /\ events' = Tail(events)
        BY <1>0, <2>1 DEF ServerOK
      <4>2. i # 1
        BY <2>5
      <4>3. i - 1 \in DOMAIN events' /\ events'[i - 1] = events[i]
        BY <4>1, <4>2
      <4> QED
        BY <2>1, <4>3, Where DEF EventComes
    <3>2. hook' = h /\ asks' = asks /\ excused' = excused
      BY <2>1, <2>5
    <3> HIDE DEF e, h
    <3>3. AskComes' = AskComes /\ CallComes' = CallComes /\ Followed' = Followed
      BY <1>2, <1>4, <2>1, <3>2, Where
    <3> QED
      BY <1>0, <2>1, <2>3, <3>1, <3>2, <3>3, StaleComes
  <2> QED
    BY <2>4, <2>5
<1>12. CASE CutStream
  <2>1. /\ UNCHANGED <<res, view, hook, asks, calls, visible>>
        /\ excused' = (excused \/ EventComes)
    BY <1>12 DEF CutStream, EventComes, server
  <2>2. AskComes' = AskComes /\ CallComes' = CallComes /\ Followed' = Followed
    BY <1>2, <1>4, <2>1, Where
  <2> QED
    BY <1>0, <2>1, <2>2, StaleComes
<1>13. CASE Navigate
  <2>1. PICK v \in DOMAIN ViewOf :
          view' = v /\ asks' = IF res \in ViewOf[v].hooks THEN Reloaded({}, 0) ELSE {}
    BY <1>13 DEF Navigate
  <2>2. Followed' => asks' = Reloaded({}, 0)
    BY <1>00, <2>1 DEF Followed, Held, V
  <2>3. Followed' => AskComes'
    BY <2>2, FirstAsk, Newest
  <2> QED
    BY <2>3, StaleComes
<1>14. CASE Choose
  <2>1. Reload([hook EXCEPT !.want = 1 - hook.want])
    BY <1>14 DEF Choose
  <2> QED
    BY <1>6, <2>1
<1>15. CASE OpenDialog \/ FillIn \/ UNCHANGED vars
  <2>1. UNCHANGED <<res, view, hook, asks, calls, visible, events, excused>>
    BY <1>15 DEF OpenDialog, FillIn, vars, server
  <2> QED
    BY <1>1, <1>2, <1>3, <1>4, <2>1
<1>16. ASSUME NEW s \in 1 .. MaxCalls, calls[s] # None
       PROVE  LET d == NotMine("dialog")[s] IN Comes(calls[s]) => Comes(d)
  <2>1. LET d == NotMine("dialog")[s]
        IN  /\ d # None /\ d.state = calls[s].state /\ d.rereads = calls[s].rereads
            /\ d.from = calls[s].from /\ (calls[s].from # "dialog" => d = calls[s])
    BY <1>0, <1>16, NotMineStep
  <2> QED
    BY <2>1 DEF Comes, Rereads
<1>17. CASE CloseDialog
  <2>1. calls' = NotMine("dialog") /\ UNCHANGED <<res, view, hook, asks, visible, events, excused>>
    BY <1>17 DEF CloseDialog, server
  <2>2. DOMAIN calls' = DOMAIN calls
    BY <2>1 DEF NotMine
  <2>3. \A s \in 1 .. MaxCalls : Comes(calls[s]) => Comes(calls'[s])
    BY <1>16, <2>1 DEF Comes
  <2>4. CallComes => CallComes'
    BY <1>5, <2>1, <2>2, <2>3
  <2> QED
    BY <1>1, <1>3, <1>4, <2>1, <2>4
<1>18. CASE Submit \/ Click
  <2>1. /\ \E a : \E from : Call(a, from)
        /\ UNCHANGED <<res, view, hook, asks, visible, events, excused>>
    BY <1>18 DEF Submit, Click, server
  <2>2. PICK s \in DOMAIN calls :
          calls[s] = None /\ \E c : calls' = [calls EXCEPT ![s] = c]
    BY <2>1 DEF Call
  <2>3. DOMAIN calls' = DOMAIN calls /\ \A t \in DOMAIN calls : t # s => calls'[t] = calls[t]
    BY <1>0, <2>2
  <2>4. \A t \in 1 .. MaxCalls : Comes(calls[t]) => Comes(calls'[t])
    BY <1>0, <2>2, <2>3 DEF Comes
  <2>5. CallComes => CallComes'
    BY <1>5, <2>1, <2>3, <2>4
  <2> QED
    BY <1>1, <1>3, <1>4, <2>1, <2>5
<1>19. CASE ServeCall
  <2>1. PICK s \in 1 .. MaxCalls :
          /\ calls[s] # None /\ calls[s].state = "sent"
          /\ \/ Outcome(s, "failed") /\ UNCHANGED <<server, events, excused>>
             \/ Outcome(s, "ok") /\ UNCHANGED <<server, events, excused>>
             \/ Outcome(s, "ok") /\ Changes(calls[s].tells, ~Rereads(calls[s]))
             \/ Outcome(s, "failed") /\ Changes(calls[s].tells, TRUE)
    BY <1>0, <1>19 DEF ServeCall
  <2>2. UNCHANGED <<res, view, hook, asks>>
    BY <1>19 DEF ServeCall
  <2>3. ASSUME NEW state \in {"ok", "failed"}, Outcome(s, state)
        PROVE  /\ CallComes => CallComes'
               /\ state = "ok" /\ Rereads(calls[s]) => CallComes'
    <3> DEFINE c == [calls[s] EXCEPT !.state = state]
    <3>1. calls' = [calls EXCEPT ![s] = c]
      BY <2>3 DEF Outcome
    <3>2. /\ c \in Calls /\ c.state = state /\ c.mine = calls[s].mine /\ c.from = calls[s].from
          /\ c.rereads = calls[s].rereads
      BY <1>0, <2>1 DEF Calls
    <3> HIDE DEF c
    <3>3. /\ DOMAIN calls' = 1 .. MaxCalls /\ calls'[s] = c
          /\ \A t \in 1 .. MaxCalls : t # s => calls'[t] = calls[t]
      BY <1>0, <3>1
    <3>4. ~Comes(calls[s]) /\ c # None
      BY <1>0, <2>1, <3>2 DEF Comes
    <3>5. state = "ok" /\ Rereads(calls[s]) => Comes(c)
      BY <3>2, <3>4 DEF Comes, Rereads
    <3>6. \A t \in 1 .. MaxCalls : Comes(calls[t]) => Comes(calls'[t])
      BY <3>3, <3>4
    <3> QED
      BY <1>0, <1>5, <2>2, <3>3, <3>5, <3>6, Where DEF CallComes
  <2>4. CASE UNCHANGED <<server, events, excused>>
    <3>1. CallComes => CallComes'
      BY <2>1, <2>3
    <3>2. visible' = visible
      BY <2>4 DEF server
    <3> QED
      BY <1>1, <1>3, <1>4, <2>2, <2>4, <3>1, <3>2
  <2>5. CASE Outcome(s, "ok") /\ Changes(calls[s].tells, ~Rereads(calls[s]))
    <3>1. (~Rereads(calls[s])) \in BOOLEAN
      BY DEF Rereads
    <3>2. (CallComes => CallComes') /\ (Rereads(calls[s]) => CallComes')
      BY <2>3, <2>5
    <3> QED
      BY <1>0, <1>00, <2>2, <2>5, <3>1, <3>2, ChangesStale
  <2>6. CASE Outcome(s, "failed") /\ Changes(calls[s].tells, TRUE)
    <3>1. CallComes => CallComes'
      BY <2>3, <2>6
    <3> QED
      BY <1>0, <1>00, <2>2, <2>6, <3>1, ChangesStale
  <2> QED
    BY <2>1, <2>4, <2>5, <2>6
<1>20. CASE GotCall
  <2>1. PICK s \in 1 .. MaxCalls : calls[s] # None /\ (GotOk(s) \/ GotFailed(s))
    BY <1>0, <1>20 DEF GotCall
  <2>2. UNCHANGED <<res, view, visible, events>>
    BY <1>20 DEF GotCall, server
  <2>3. CASE Reload(hook)
    BY <1>6, <2>3
  <2>4. CASE ~Reload(hook)
    <3>1. ~Comes(calls[s]) /\ UNCHANGED <<hook, asks, excused>>
      BY <2>1, <2>4 DEF GotOk, GotFailed, Comes
    <3>2. \/ calls' = [calls EXCEPT ![s] = None]
          \/ calls' = [NotMine("dialog") EXCEPT ![s] = None]
      BY <2>1 DEF GotOk, GotFailed
    <3>3. DOMAIN calls' = DOMAIN calls
      BY <3>2 DEF NotMine
    <3>4. DOMAIN NotMine("dialog") = 1 .. MaxCalls
      BY <1>0 DEF NotMine
    <3>5. ASSUME NEW t \in 1 .. MaxCalls, Comes(calls[t]) PROVE Comes(calls'[t])
      <4>1. t # s /\ calls[t] # None
        BY <3>1, <3>5 DEF Comes
      <4>2. calls'[t] = calls[t] \/ calls'[t] = NotMine("dialog")[t]
        BY <1>0, <3>2, <3>4, <4>1
      <4> QED
        BY <1>16, <3>5, <4>1, <4>2
    <3>6. CallComes => CallComes'
      BY <1>5, <2>2, <3>3, <3>5
    <3> QED
      BY <1>1, <1>3, <1>4, <2>2, <3>1, <3>6
  <2> QED
    BY <2>3, <2>4
<1> QED
  BY <1>7, <1>8, <1>9, <1>10, <1>11, <1>12, <1>13, <1>14, <1>15, <1>17, <1>18, <1>19, <1>20
  DEF Next

-----------------------------------------------------------------------------
(* The theorems.                                                           *)
LEMMA IInvStep == IInv /\ [Next]_vars => IInv'
  BY ServerStep, WhereStep, ReadStep, DialogStep, StaleStep DEF IInv

LEMMA AlwaysIInv == Spec => []IInv
  BY InitIInv, IInvStep, PTL DEF Spec

(* The variables keep their types: however often the user reloads, the     *)
(* reads and calls in flight stay within their bounds, and the server      *)
(* never answers with a version it does not have.                          *)
THEOREM ClientTypes == Spec => []TypeOK
  BY AlwaysIInv, IInvImplies, PTL

(* A view that shows an old version has the new one on its way, whatever   *)
(* is lost, whoever changes it and however the answers overtake each       *)
(* other, unless nothing told the client of it (useData, events.ts).       *)
THEOREM ClientStaleOnItsWay == Spec => []StaleIsOnItsWay
<1>1. IInv => StaleIsOnItsWay
  BY DEF IInv
<1> QED
  BY <1>1, AlwaysIInv, PTL

(* The chart Trends draws is of the source chosen, however late the reads  *)
(* of those chosen before are answered (useData's gen).                    *)
THEOREM ClientChart == Spec => []ChartIsChosen
  BY AlwaysIInv, IInvImplies, PTL

(* A dialog is busy exactly while one call it made is in flight, however   *)
(* often the user submits, closes and opens (Modals.tsx), except for the   *)
(* dialog of the properties of a dataset.                                  *)
THEOREM ClientOneSubmit == Spec => []OneSubmitPending
  BY AlwaysIInv, IInvImplies, PTL

(* A view never goes back to an older version of what it shows: the        *)
(* answers to reads made before the newest are dropped.                    *)
THEOREM ClientNoGoingBack == Spec => NoGoingBack
<1>1. IInv /\ [Next]_vars => [view' = view /\ Followed => hook'.have >= hook.have]_vars
  BY ReadStep DEF GoesOn
<1> QED
  BY <1>1, AlwaysIInv, PTL DEF Spec, NoGoingBack

=============================================================================
