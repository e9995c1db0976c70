------------------------------- MODULE Views --------------------------------
(***************************************************************************)
(* What the views of the web client read, what they hear on the event      *)
(* stream, what their buttons ask of the server and which dialogs they     *)
(* open, as data: web/src/views, PoolCard and the shell of App.tsx.        *)
(*   hooks    the resources it holds a copy of, each read on mounting      *)
(*   reloads  pairs <<event, resource>>: on the event, read it again       *)
(*   patches  pairs <<event, resource>>: the event's data go into the copy *)
(*   acts     the calls of its own buttons, with no dialog and no flag     *)
(*            that keeps a second one back                                 *)
(*   opens    the names of its dialogs                                     *)
(*   latest   an answer is dropped when a later request was made: useData, *)
(*            and the cleanup of the effect in Settings                    *)
(*                                                                         *)
(* Abstracted: layout, formatting, sorting, filters.  Settings is its      *)
(* settings, its users and the panels of the administrator's zone.         *)
(***************************************************************************)
EXTENDS Dialogs

(* A button of a view reads again what it names; it opens and closes none. *)
Button(name, writes, rereads) ==
  [Act(name, writes) EXCEPT !.busy = FALSE, !.after = "open", !.rereads = rereads]

View(hooks, reloads, patches, acts, opens) ==
  [hooks |-> hooks, reloads |-> reloads, patches |-> patches, acts |-> acts, opens |-> opens,
   latest |-> TRUE]

(* scrub.progress at 100 is the end of a scrub.                            *)
Scrub == {"scrub.progress", "scrub.end"}

-----------------------------------------------------------------------------
(* PoolCard: its buttons and dialogs, in the view that shows it.           *)
PoolButtons(rereads) ==
  {Button("scrubAction", {"pools"}, rereads), Admin(Button("vdevAction", {"pools"}, rereads)),
   Button("setAutotrim", {"pools"}, rereads), Admin(Button("clearPool", {"pools"}, rereads))}

PoolDialogs ==
  {"replace", "detach", "history", "checkpoint", "addvdev", "expand", "export"}

DashboardHears ==
  ({"overview", "alert.new", "pool.status"} \X {"overview", "missing"})
  \cup ({"scrub.end"} \X {"pools", "overview"})
  \cup ({"disk.smart"} \X {"disks", "recs"})

Dashboard ==
  View({"overview", "pools", "perf", "disks", "recs", "missing"},
       DashboardHears, (Scrub \cup {"disk.temp"}) \X {"pools"},
       PoolButtons({"pools", "overview"}), PoolDialogs \cup {"importpool"})

Pools ==
  View({"pools"},
       {"scrub.end", "pool.status"} \X {"pools"}, (Scrub \cup {"disk.temp"}) \X {"pools"},
       PoolButtons({"pools"}), PoolDialogs \cup {"newpool", "importpool"})

(* Mounting, unmounting and promoting read nothing again.                  *)
DatasetButtons ==
  {Admin(Button(n, {"datasets"}, {})) : n \in {"mountDataset", "unmountDataset", "promoteDataset"}}

Datasets ==
  View({"datasets", "ops"}, {<<"longop.update", "ops">>}, {}, DatasetButtons,
       {"newds", "propsds", "unlockds", "lockds", "changekey", "newsnap", "rewrite", "delds",
        "renameds"})

Snapshots ==
  View({"pools", "snaps"}, {"job.finished", "overview"} \X {"snaps"}, {},
       {Admin(Button("cloneSnapshot", {"datasets", "snaps"}, {"snaps"}))},
       {"newsnap", "rollback", "delsnap"})

-----------------------------------------------------------------------------
(* Tasks: the events it waits for, replication.finished among them, and    *)
(* the buttons of jobs, replications and operations.                       *)
TasksHears ==
  ({"job.finished"} \X {"jobs", "hist"}) \cup ({"longop.update"} \X {"ops", "repl"})
  \cup ({"replication.finished"} \X {"repl", "hist"})

TasksButtons ==
  {[Admin(Button("runReplicationJob", {"ops", "repl"}, {"repl", "ops"}))
      EXCEPT !.tells = "longop.update"],
   Admin(Button("updateReplicationJob", {"repl"}, {"repl"})),
   Button("runJob", {"jobs"}, {"jobs", "hist"}), Button("updateJob", {"jobs"}, {"jobs"}),
   [Admin(Button("cancelLongOp", {"ops"}, {"ops"})) EXCEPT !.tells = "longop.update"]}

Tasks ==
  View({"jobs", "hist", "sys", "ops", "repl"}, TasksHears, {}, TasksButtons,
       {"newtask", "sched", "newrepl", "editrepl", "syssched", "sysmigrate"})

(* A disk of no pool is powered off by a second click within 3 s, one of a *)
(* pool through a dialog; neither button reads anything again.             *)
DiskButtons ==
  {Button("smartTest", {}, {}), Admin(Typed(Button("poweroffDisk", {"disks"}, {})))}

Disks ==
  View({"disks", "recs"}, {<<"disk.smart", "recs">>}, {"disk.temp", "disk.smart"} \X {"disks"},
       DiskButtons, {"diskdetail", "poweroffdisk"})

(* The chart of the source and of the days chosen.                         *)
Trends == View({"pools", "disks", "series"}, {}, {}, {}, {})

-----------------------------------------------------------------------------
(* The settings: every switch puts the whole object it shows, changed, and *)
(* shows it at once.                                                       *)
SettingsButtons ==
  {Admin(Button("putSettings", {"settings"}, {})),
   Admin(Button("setUserLanguage", {"users"}, {}))}

Settings == View({"settings", "users"}, {}, {}, SettingsButtons, {"newuser", "passwd", "deluser"})

(* Panels that read for themselves: an answer is shown, however old.       *)
ChannelsPanel ==
  [View({"channels"}, {}, {},
        {Admin(Button(n, {"channels"}, {"channels"})) : n \in {"putChannel", "deleteChannel"}}
        \cup {Admin(Button("testChannel", {}, {}))}, {})
   EXCEPT !.latest = FALSE]

AlertsPanel ==
  [View({"alerts"}, {<<"alert.new", "alerts">>}, {},
        {Button("ackAlert", {"alerts"}, {}), Button("ackAll", {"alerts"}, {"alerts"})}, {})
   EXCEPT !.latest = FALSE]

ViewOf ==
  [dash |-> Dashboard, pools |-> Pools, data |-> Datasets, snaps |-> Snapshots, tasks |-> Tasks,
   disks |-> Disks, trends |-> Trends, settings |-> Settings, channels |-> ChannelsPanel,
   alerts |-> AlertsPanel]
=============================================================================
