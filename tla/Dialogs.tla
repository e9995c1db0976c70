------------------------------ MODULE Dialogs -------------------------------
(***************************************************************************)
(* The dialogs of web/src/components/Modals.tsx, as data: what each reads  *)
(* when it opens, and what it can ask of the server.  Client says what     *)
(* every dialog does with them.                                            *)
(*                                                                         *)
(* An act is a call that changes something.                                *)
(*   writes   the resources the server changes                             *)
(*   tells    the event it publishes, if any                               *)
(*   admin    the button is off for whoever is not an administrator        *)
(*   typed    a name has to be typed first                                 *)
(*   picks    something of what the dialog read has to be chosen first     *)
(*   busy     the dialog is busy meanwhile: no second call                 *)
(*   after    a success closes the dialog, leaves it as it was ("open"),   *)
(*            or leaves it open and busy ("busy")                          *)
(*   rereads  what the views read again after a success; a dialog that     *)
(*            calls refresh() has them all read everything                 *)
(*                                                                         *)
(* Abstracted: the fields of the forms, except that a form may want a name *)
(* typed or an item chosen.  Two dialogs no button opens, editds and       *)
(* mypass, are left out; UpdateWizard is a program of its own.             *)
(***************************************************************************)

Cached == {"overview", "pools", "perf", "disks", "recs", "missing", "datasets", "snaps"}
Direct == {"jobs", "hist", "sys", "ops", "repl", "settings", "users", "alerts", "channels", "series"}
Resources == Cached \cup Direct

(* The submit every dialog repeats: busy, call, refresh and close; or the  *)
(* message and no longer busy.                                             *)
Act(name, writes) ==
  [name |-> name, writes |-> writes, tells |-> "none", admin |-> FALSE, typed |-> FALSE,
   picks |-> FALSE, busy |-> TRUE, after |-> "closed", rereads |-> Resources]

Admin(a) == [a EXCEPT !.admin = TRUE]
Typed(a) == [a EXCEPT !.typed = TRUE]
Picked(a) == [a EXCEPT !.picks = TRUE]

(* A button beside the form: its own flag, its own answer, no refresh.     *)
Aside(name) == [Act(name, {}) EXCEPT !.busy = FALSE, !.after = "open", !.rereads = {}]

Dialog(loads, acts) == [loads |-> loads, acts |-> acts]

WholePool == {"pools", "overview", "missing", "disks", "datasets", "snaps"}

-----------------------------------------------------------------------------
(* Pools and disks.                                                        *)
History == Dialog({"history"}, {})

Checkpoint == Dialog({}, {Typed(Act("checkpoint", {"pools"}))})

(* Two steps, a name and then the disks: one submit.                       *)
NewPool == Dialog({"disks"}, {Typed(Picked(Act("createPool", WholePool)))})

(* The alert of a missing pool opens it with that pool already chosen.     *)
ImportPool == Dialog({"importable"}, {Admin(Typed(Act("importPool", WholePool)))})

Expand == Dialog({"disks"}, {Admin(Typed(Picked(Act("expandPool", {"pools", "disks"}))))})

ExportPool == Dialog({}, {Admin(Typed(Act("exportPool", WholePool)))})

AddVdev == Dialog({"disks", "pools"}, {Admin(Typed(Picked(Act("addVdev", {"pools", "disks"}))))})

(* The card may have chosen both disks; Identify blinks the old one.       *)
Replace ==
  Dialog({"disks", "pools"},
         {Admin(Typed(Act("replaceDisk", {"pools", "disks"}))), Admin(Aside("identifyDisk"))})

Detach == Dialog({}, {Admin(Typed(Act("vdevAction", {"pools", "disks"})))})

DiskDetail == Dialog({"smart", "smartlog"}, {Admin(Aside("identifyDisk"))})

PowerOffDisk == Dialog({}, {Admin(Typed(Act("poweroffDisk", {"disks", "pools"})))})

-----------------------------------------------------------------------------
(* Datasets and snapshots.                                                 *)

(* Opened from a dataset, it needs nothing of what it reads.               *)
Snapshot == Dialog({"datasets", "pools"}, {Act("createSnapshot", {"snaps"})})

NewDataset == Dialog({"pools"}, {Picked(Act("createDataset", {"datasets"}))})

(* Neither act closes the dialog, and only a failure ends being busy.      *)
DatasetProps ==
  Dialog({"props"},
         {[Picked(Act(n, {"datasets"})) EXCEPT !.after = "busy"] :
            n \in {"setDatasetProp", "inheritDatasetProp"}})

DeleteDataset == Dialog({}, {Admin(Typed(Act("deleteDataset", {"datasets", "snaps"})))})

RenameDataset == Dialog({}, {Typed(Act("renameDataset", {"datasets", "snaps"}))})

(* The operation goes on by itself; see LongOps.                           *)
Rewrite ==
  Dialog({}, {[Admin(Typed(Act("rewriteDataset", {"ops"}))) EXCEPT !.tells = "longop.update"]})

UnlockDataset == Dialog({}, {Admin(Typed(Act("unlockDataset", {"datasets"})))})

LockDataset == Dialog({}, {Admin(Act("lockDataset", {"datasets"}))})

ChangeKey == Dialog({}, {Admin(Typed(Act("changeDatasetKey", {"datasets"})))})

Rollback == Dialog({}, {Admin(Typed(Act("rollback", {"snaps", "datasets"})))})

DeleteSnap == Dialog({}, {Admin(Typed(Act("deleteSnapshot", {"snaps"})))})

-----------------------------------------------------------------------------
(* Tasks, replications, users.                                             *)
SysSched == Dialog({}, {Admin(Act("setSystemTimerSchedule", {"sys"}))})

SysMigrate == Dialog({}, {Admin(Typed(Act("migrateSystemTimer", {"sys"})))})

NewTask == Dialog({"datasets", "pools"}, {Picked(Act("createJob", {"jobs"}))})

(* Deleting takes no name: the dialog sends the job's own target.          *)
EditSchedule ==
  Dialog({}, {Act("updateJob", {"jobs"}), Admin(Act("deleteJob", {"jobs", "hist"}))})

(* The connection test is asked and answered beside the form.              *)
NewRepl ==
  Dialog({"datasets", "sshkey"},
         {Picked(Act("createReplicationJob", {"repl"})), Aside("testReplication")})

EditRepl ==
  Dialog({}, {Act("updateReplicationJob", {"repl"}),
              Admin(Typed(Act("deleteReplicationJob", {"repl"})))})

NewUser == Dialog({}, {Typed(Act("createUser", {"users"}))})

(* Closing the user's sessions changes the list of users, not read again.  *)
Passwd == Dialog({}, {[Typed(Act("setUserPassword", {"users"})) EXCEPT !.rereads = {}]})

DeleteUser == Dialog({}, {Typed(Act("deleteUser", {"users"}))})

-----------------------------------------------------------------------------
(* ModalHost: the dialog of a name.                                        *)
DialogOf ==
  [history |-> History, checkpoint |-> Checkpoint, newpool |-> NewPool, importpool |-> ImportPool,
   expand |-> Expand, export |-> ExportPool, addvdev |-> AddVdev, replace |-> Replace,
   detach |-> Detach, diskdetail |-> DiskDetail, poweroffdisk |-> PowerOffDisk,
   newsnap |-> Snapshot, newds |-> NewDataset, propsds |-> DatasetProps, delds |-> DeleteDataset,
   renameds |-> RenameDataset, rewrite |-> Rewrite, unlockds |-> UnlockDataset,
   lockds |-> LockDataset, changekey |-> ChangeKey, rollback |-> Rollback, delsnap |-> DeleteSnap,
   syssched |-> SysSched, sysmigrate |-> SysMigrate, newtask |-> NewTask, sched |-> EditSchedule,
   newrepl |-> NewRepl, editrepl |-> EditRepl, newuser |-> NewUser, passwd |-> Passwd,
   deluser |-> DeleteUser]
=============================================================================
