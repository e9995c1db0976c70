------------------------------- MODULE Alerts -------------------------------
(***************************************************************************)
(* The alerts: internal/alerts with the collectors that raise them.  The   *)
(* zpool collector evaluates the pools it lists and keeps known_pools, the *)
(* SMART collector evaluates the disks, and the follower of zpool events   *)
(* turns the kernel's events into alerts.  Each is one goroutine; all of   *)
(* them raise through RaiseKind, which looks for an active alert of the    *)
(* same source and kind, refreshes it or inserts a row, and only then      *)
(* tells the world: SSE, webhook, push.                                    *)
(*                                                                         *)
(* Abstracted: texts, thresholds (a reading has its grade under the        *)
(* settings of the moment), the clock (ages in ticks), back-offs.  The     *)
(* purge of old acknowledged rows is left out.                             *)
(***************************************************************************)
EXTENDS Naturals, Sequences

CONSTANTS
  Pools, Devs,
  PoolReadings,  \* what zpool list and status may say of a pool
  DiskReadings,  \* what smartctl may say of a disk
  Events,        \* what the kernel may report
  Absent,        \* the reading of a pool that is not imported
  Never,         \* a pool no pass has listed
  MissingAfter,  \* EASYZFS_POOL_MISSING_AFTER, in ticks
  MaxChanges, MaxEvents, MaxAcks,
  MaxMishaps     \* bound on failed statements, deaths of the follower's process and restarts

Grades == {"none", "info", "warn", "crit"}

(* sized: TotalBytes # 0; cap: usage against the two thresholds; scrub: a  *)
(* finished scrub with errors, not a trim, and those alerts wanted.        *)
AnyPoolReading ==
  [sized : BOOLEAN, cap : {"none", "warn", "crit"},
   status : {"ONLINE", "DEGRADED", "FAULTED"}, scrub : BOOLEAN]

(* hot: at the temperature threshold; smart: what SMART is worth alerting. *)
AnyDiskReading == [hot : BOOLEAN, smart : {"none", "warn", "crit"}]

(* What dispatch makes of an event, by class.                              *)
Grade ==
  [io |-> "crit", checksum |-> "crit", data |-> "crit", deadman |-> "warn",
   delay |-> "warn", resilver_start |-> "info", resilver_finish |-> "info",
   scrub_finish |-> "warn", vdev_statechange |-> "crit", config_sync |-> "none"]

Classes == DOMAIN Grade

(* dev: the vdev, or the pool when the event names none; bad: a scrub with *)
(* errors, a vdev gone FAULTED or DEGRADED.                                *)
AnyEvent == [class : Classes, pool : Pools, dev : Devs \cup Pools, bad : BOOLEAN]

ASSUME AlertsAssumption ==
  /\ PoolReadings \subseteq AnyPoolReading
  /\ DiskReadings \subseteq AnyDiskReading
  /\ Events \subseteq AnyEvent
  /\ Absent \notin AnyPoolReading
  /\ Never \notin Nat
  /\ MissingAfter \in Nat \ {0}
  /\ {MaxChanges, MaxEvents, MaxAcks, MaxMishaps} \subseteq Nat

VARIABLES
  pool,      \* the machine: each pool as zpool list and status show it
  disk,      \* the machine: each disk as smartctl shows it
  log,       \* the machine: the events the kernel keeps
  known,     \* known_pools: ticks since last_seen_at
  listed,    \* the pools of the pass of the zpool collector
  tracked,   \* that pass is past trackPools
  raiser,    \* each goroutine: what it is about to do in RaiseKind
  follower,  \* pos: events read by the zpool events process; bad starts; on
  rows,      \* table alerts: those of each source and kind, oldest first;
             \* heard is a history: what was announced of the alert
  count      \* bounds used up

vars == <<pool, disk, log, known, listed, tracked, raiser, follower, rows, count>>

Raisers == {"zpool", "smart", "events"}

Things == Pools \cup Devs

(* dispatch: source zed.<class>, so that no poll shares it.                *)
EventSourceAsPolled(ev) ==
  IF ev.class = "scrub_finish" THEN <<"scrub", ev.pool>> ELSE <<"zed", ev.class>>

EventSource(ev) == <<"zed", ev.class>>

EventKey(ev) ==
  [source |-> EventSource(ev),
   kind |-> IF ev.class = "scrub_finish" THEN "scrub_errors" ELSE ev.class]

PollKeys ==
  [source : {"pool"} \X Pools, kind : {"pool_capacity", "pool_status", "pool_missing"}]
    \cup [source : {"scrub"} \X Pools, kind : {"scrub_errors"}]
    \cup [source : {"disk"} \X Devs, kind : {"disk_temp"}]
    \cup [source : {"smart"} \X Devs, kind : {"smart_status"}]

Keys == PollKeys \cup {EventKey(ev) : ev \in Events}
Calls == [key : Keys, level : Grades, target : Things]
Rows == [level : Grades, target : Things, about : Things, acked : BOOLEAN,
         blind : BOOLEAN, heard : Seq([level : Grades, about : Things])]

(* A goroutine between two passes, or between two calls of RaiseKind.      *)
Ready(todo) == [pc |-> "ready", todo |-> todo]

(* In a call: its arguments, the row it refreshes or has inserted, and     *)
(* whether its SELECT failed, which the code takes for "no active alert".  *)
Workers ==
  [pc : {"ready"}, todo : SUBSET Calls]
    \cup [pc : {"update", "insert", "notify"}, todo : SUBSET Calls, call : Calls,
          row : Nat, blind : BOOLEAN]

TypeOK ==
  /\ pool \in [Pools -> PoolReadings \cup {Absent}]
  /\ disk \in [Devs -> DiskReadings]
  /\ log \in Seq(Events)
  /\ known \in [Pools -> 0 .. MissingAfter + 1 \cup {Never}]
  /\ listed \in SUBSET Pools
  /\ tracked \in BOOLEAN
  /\ raiser \in [Raisers -> Workers]
  /\ follower \in [pos : Nat, bad : 0 .. 2, on : BOOLEAN]
  /\ (follower.on <=> follower.bad < 2)
  /\ rows \in [Keys -> Seq(Rows)]
  /\ count \in [{"change", "ack", "mishap"} -> Nat]

Init ==
  /\ pool \in [Pools -> PoolReadings \cup {Absent}]
  /\ disk \in [Devs -> DiskReadings]
  /\ log = <<>>
  /\ known = [p \in Pools |-> Never]
  /\ listed = {}
  /\ tracked = TRUE
  /\ raiser = [r \in Raisers |-> Ready({})]
  /\ follower = [pos |-> 0, bad |-> 0, on |-> TRUE]
  /\ rows = [k \in Keys |-> <<>>]
  /\ count = [c \in {"change", "ack", "mishap"} |-> 0]

Spend(c, max) == count[c] < max /\ count' = [count EXCEPT ![c] = count[c] + 1]
Mishap == Spend("mishap", MaxMishaps)

-----------------------------------------------------------------------------
(* What the evaluations ask RaiseKind for.                                 *)
Call(source, of, kind, level) ==
  [key |-> [source |-> <<source, of>>, kind |-> kind], level |-> level, target |-> of]

(* A pool without a size is skipped whatever else is said of it.           *)
PoolCalls(p) ==
  LET x == pool[p]
      wanted == {Call("pool", p, "pool_capacity", x.cap),
                 Call("pool", p, "pool_status", IF x.status = "ONLINE" THEN "none" ELSE "crit"),
                 Call("scrub", p, "scrub_errors", IF x.scrub THEN "warn" ELSE "none")}
  IN  IF x = Absent THEN {} ELSE {c \in wanted : x.sized /\ c.level # "none"}

DiskCalls(d) ==
  {c \in {Call("disk", d, "disk_temp", IF disk[d].hot THEN "warn" ELSE "none"),
          Call("smart", d, "smart_status", disk[d].smart)} : c.level # "none"}

MissingCall(p) == Call("pool", p, "pool_missing", "crit")

PoolWide == {"resilver_start", "resilver_finish", "scrub_finish"}

EventCall(ev) ==
  [key |-> EventKey(ev), level |-> Grade[ev.class],
   target |-> IF ev.class \in PoolWide THEN ev.pool ELSE ev.dev]

Alarming(ev) ==
  Grade[ev.class] # "none" /\ (ev.class \in {"scrub_finish", "vdev_statechange"} => ev.bad)

-----------------------------------------------------------------------------
(* A pass of the zpool collector: the calls of EvaluatePools, trackPools,  *)
(* and the calls for the pools that are missing.  A pass whose zpool list  *)
(* fails does nothing, as if it had not begun.                             *)
Poll ==
  /\ raiser["zpool"] = Ready({})
  /\ tracked
  /\ raiser' = [raiser EXCEPT !["zpool"] = Ready(UNION {PoolCalls(p) : p \in Pools})]
  /\ listed' = {p \in Pools : pool[p] # Absent}
  /\ tracked' = FALSE
  /\ UNCHANGED <<pool, disk, log, known, follower, rows, count>>

(* Upserts first, each of which may fail and is only logged; then the      *)
(* query, whose failure ends the pass.  Rows of pools just listed are left *)
(* out: a failed upsert leaves them old.                                   *)
Seen(failed) == [p \in Pools |-> IF p \in listed \ failed THEN 0 ELSE known[p]]
Missing(ages) == {p \in Pools : ages[p] # Never /\ ages[p] > MissingAfter}

TrackBy(ages, missing) ==
  /\ raiser["zpool"] = Ready({})
  /\ ~tracked
  /\ tracked' = TRUE
  /\ known' = ages
  /\ raiser' = [raiser EXCEPT !["zpool"] = Ready({MissingCall(p) : p \in missing})]
  /\ UNCHANGED <<pool, disk, log, listed, follower, rows>>

TrackNoGuard ==
  \/ TrackBy(Seen({}), Missing(Seen({}))) /\ UNCHANGED count
  \/ \E failed \in SUBSET listed :
       TrackBy(Seen(failed), Missing(Seen(failed))) /\ Mishap

TrackKnown ==
  LET ages == [p \in Pools |-> IF p \in listed \/ known[p] # Never THEN 0 ELSE Never]
  IN  TrackBy(ages, Missing(ages)) /\ UNCHANGED count

Track ==
  \/ TrackBy(Seen({}), Missing(Seen({})) \ listed) /\ UNCHANGED count
  \/ \E failed \in SUBSET listed :
       /\ \/ TrackBy(Seen(failed), Missing(Seen(failed)) \ listed)
          \/ TrackBy(Seen(failed), {})
       /\ Mishap

(* A pass of the SMART collector.                                          *)
Scan ==
  /\ raiser["smart"] = Ready({})
  /\ raiser' = [raiser EXCEPT !["smart"] = Ready(UNION {DiskCalls(d) : d \in Devs})]
  /\ UNCHANGED <<pool, disk, log, known, listed, tracked, follower, rows, count>>

(* zpool events -f prints the events the kernel keeps, then the new ones.  *)
Dispatch ==
  LET ev == log[follower.pos + 1] IN
  /\ raiser["events"] = Ready({})
  /\ follower.on
  /\ follower.pos < Len(log)
  /\ follower' = [follower EXCEPT !.pos = follower.pos + 1]
  /\ raiser' = [raiser EXCEPT !["events"] =
                  Ready(IF Alarming(ev) THEN {EventCall(ev)} ELSE {})]
  /\ UNCHANGED <<pool, disk, log, known, listed, tracked, rows, count>>

(* The process ends and a new one starts over; after two short lives in a  *)
(* row the collector gives up.                                             *)
DieAtOnce ==
  /\ raiser["events"] = Ready({})
  /\ follower.on
  /\ Mishap
  /\ \E bad \in {0, follower.bad + 1} :
       follower' = [pos |-> 0, bad |-> bad, on |-> bad < 1]
  /\ UNCHANGED <<pool, disk, log, known, listed, tracked, raiser, rows>>

Die ==
  /\ raiser["events"] = Ready({})
  /\ follower.on
  /\ Mishap
  /\ \E bad \in {0, follower.bad + 1} :
       follower' = [pos |-> 0, bad |-> bad, on |-> bad < 2]
  /\ UNCHANGED <<pool, disk, log, known, listed, tracked, raiser, rows>>

-----------------------------------------------------------------------------
(* RaiseKind, one statement of the database at a time.                     *)
Active(key) == {i \in DOMAIN rows[key] : ~rows[key][i].acked}

Enter(r, pc, call, row, blind) ==
  raiser' = [raiser EXCEPT ![r] =
    [pc |-> pc, todo |-> raiser[r].todo \ {call}, call |-> call, row |-> row, blind |-> blind]]

(* The SELECT; an error is taken for no row.                               *)
Select(r) ==
  /\ raiser[r].pc = "ready"
  /\ \E c \in raiser[r].todo :
       \/ \E i \in Active(c.key) : Enter(r, "update", c, i, FALSE) /\ UNCHANGED count
       \/ Active(c.key) = {} /\ Enter(r, "insert", c, 0, FALSE) /\ UNCHANGED count
       \/ Enter(r, "insert", c, 0, TRUE) /\ Mishap
  /\ UNCHANGED <<pool, disk, log, known, listed, tracked, follower, rows>>

Leave(r) == raiser' = [raiser EXCEPT ![r] = Ready(raiser[r].todo)]

(* The refresh, by id: of an alert acknowledged meanwhile too.  It leaves  *)
(* source, kind and target as they were, and announces nothing.            *)
Row(r) == rows[raiser[r].call.key][raiser[r].row]
SetRow(r, row) == rows' = [rows EXCEPT ![raiser[r].call.key][raiser[r].row] = row]

Refreshed(r) ==
  SetRow(r, [Row(r) EXCEPT !.level = raiser[r].call.level, !.about = raiser[r].call.target])

UpdateAnnounced(r) ==
  /\ raiser[r].pc = "update"
  /\ Refreshed(r)
  /\ raiser' = [raiser EXCEPT ![r].pc = "notify"]
  /\ UNCHANGED <<pool, disk, log, known, listed, tracked, follower, count>>

UpdateText(r) ==
  /\ raiser[r].pc = "update"
  /\ Leave(r)
  /\ SetRow(r, [Row(r) EXCEPT !.about = raiser[r].call.target])
  /\ UNCHANGED <<pool, disk, log, known, listed, tracked, follower, count>>

Update(r) ==
  /\ raiser[r].pc = "update"
  /\ Leave(r)
  /\ \/ Refreshed(r) /\ UNCHANGED count
     \/ UNCHANGED rows /\ Mishap
  /\ UNCHANGED <<pool, disk, log, known, listed, tracked, follower>>

(* The INSERT; when it fails nobody is told.                               *)
NewRow(c, blind) ==
  [level |-> c.level, target |-> c.target, about |-> c.target, acked |-> FALSE,
   blind |-> blind, heard |-> <<>>]

Insert(r) ==
  LET k == raiser[r].call.key IN
  /\ raiser[r].pc = "insert"
  /\ \/ /\ rows' = [rows EXCEPT ![k] = Append(rows[k], NewRow(raiser[r].call, raiser[r].blind))]
        /\ raiser' = [raiser EXCEPT ![r].pc = "notify", ![r].row = Len(rows[k]) + 1]
        /\ UNCHANGED count
     \/ UNCHANGED rows /\ Leave(r) /\ Mishap
  /\ UNCHANGED <<pool, disk, log, known, listed, tracked, follower>>

(* SSE, webhook, mail, channels, push: none of them is waited for.         *)
Said(c) == [level |-> c.level, about |-> c.target]

Notify(r) ==
  /\ raiser[r].pc = "notify"
  /\ SetRow(r, [Row(r) EXCEPT !.heard = Append(Row(r).heard, Said(raiser[r].call))])
  /\ Leave(r)
  /\ UNCHANGED <<pool, disk, log, known, listed, tracked, follower, count>>

(* POST /api/alerts/{id}/ack.                                              *)
Ack(k, i) ==
  /\ i \in Active(k)
  /\ rows' = [rows EXCEPT ![k][i].acked = TRUE]
  /\ Spend("ack", MaxAcks)
  /\ UNCHANGED <<pool, disk, log, known, listed, tracked, raiser, follower>>

-----------------------------------------------------------------------------
(* The machine and the clock.                                              *)
Change ==
  /\ Spend("change", MaxChanges)
  /\ \/ \E p \in Pools, x \in PoolReadings \cup {Absent} :
          pool' = [pool EXCEPT ![p] = x] /\ UNCHANGED disk
     \/ \E d \in Devs, x \in DiskReadings :
          disk' = [disk EXCEPT ![d] = x] /\ UNCHANGED pool
  /\ UNCHANGED <<log, known, listed, tracked, raiser, follower, rows>>

Happen(ev) ==
  /\ Len(log) < MaxEvents
  /\ log' = Append(log, ev)
  /\ UNCHANGED <<pool, disk, known, listed, tracked, raiser, follower, rows, count>>

Older(age) == IF age = Never \/ age > MissingAfter THEN age ELSE age + 1

Tick ==
  /\ known' = [p \in Pools |-> Older(known[p])]
  /\ UNCHANGED <<pool, disk, log, listed, tracked, raiser, follower, rows, count>>

(* The daemon dies and comes back; the kernel's events are still there.    *)
Restart ==
  /\ Mishap
  /\ raiser' = [r \in Raisers |-> Ready({})]
  /\ listed' = {}
  /\ tracked' = TRUE
  /\ follower' = [pos |-> 0, bad |-> 0, on |-> TRUE]
  /\ UNCHANGED <<pool, disk, log, known, rows>>

RaiseKind(r) == Select(r) \/ Update(r) \/ Insert(r) \/ Notify(r)

ZpoolCollector == Poll \/ Track \/ RaiseKind("zpool")
SmartCollector == Scan \/ RaiseKind("smart")
EventsCollector == Dispatch \/ RaiseKind("events")

Next ==
  \/ ZpoolCollector \/ SmartCollector \/ EventsCollector \/ Die
  \/ \E k \in Keys : \E i \in Active(k) : Ack(k, i)
  \/ Change \/ (\E ev \in Events : Happen(ev)) \/ Tick \/ Restart

Spec == Init /\ [][Next]_vars

(* The collectors' loops come round, the statements they run end, and time *)
(* passes.                                                                 *)
Fairness ==
  /\ WF_vars(ZpoolCollector) /\ WF_vars(SmartCollector) /\ WF_vars(EventsCollector)
  /\ WF_vars(Tick)

FairSpec == Spec /\ Fairness

-----------------------------------------------------------------------------
(* alerts.go:77-83, one active alert of a source and kind: no interleaving *)
(* of the collectors, the restarts and the acks makes a second one, unless *)
(* the SELECT before its INSERT had failed.                                *)
OneActive ==
  \A k \in Keys : \A i, j \in Active(k) : i < j => rows[k][j].blind

(* alerts.go:80-83, a storm is announced once: an alert is announced once  *)
(* at most, and another of its source and kind only when it had been       *)
(* acknowledged by then or the other was inserted blind.                   *)
NoStorm ==
  \A k \in Keys : \A i \in DOMAIN rows[k] :
    /\ Len(rows[k][i].heard) <= 1
    /\ \A j \in DOMAIN rows[k] :
         i < j /\ rows[k][j].heard # <<>> => rows[k][i].acked \/ rows[k][j].blind

(* alerts.go:263-267: no pool is reported missing by a pass that listed    *)
(* it, or that no pass ever listed, or listed within the window; even when *)
(* the row of known_pools could not be written.                            *)
About(r) == raiser[r].todo \cup (IF raiser[r].pc = "ready" THEN {} ELSE {raiser[r].call})

NoFalseMissing ==
  \A c \in About("zpool") : c.key.kind = "pool_missing" =>
    c.target \in Pools \ listed /\ known[c.target] # Never /\ known[c.target] > MissingAfter

(* A state of a pool's usage or of a disk that lasts has an active alert   *)
(* with its present grade, again and again, whatever is acknowledged.      *)
Current(source, kind, level) ==
  \E i \in Active([source |-> source, kind |-> kind]) :
    rows[[source |-> source, kind |-> kind]][i].level = level

ConditionAlerted ==
  /\ \A p \in Pools, l \in {"warn", "crit"} :
       <>[](pool[p] \in {x \in PoolReadings : x.sized /\ x.cap = l})
         => []<>Current(<<"pool", p>>, "pool_capacity", l)
  /\ \A d \in Devs, l \in {"warn", "crit"} :
       <>[](disk[d].smart = l) => []<>Current(<<"smart", d>>, "smart_status", l)

(* README.md:443: a known pool that does not come back is reported.        *)
MissingAlerted ==
  \A p \in Pools :
    <>[](pool[p] = Absent /\ known[p] # Never) => []<>Current(<<"pool", p>>, "pool_missing", "crit")

-----------------------------------------------------------------------------
(* web/src/ui/i18n.ts:1265 "Critical alerts always arrive, whatever you    *)
(* choose.": an active alert that is critical has been announced as such,  *)
(* or is about to be.                                                      *)
CriticalHeard ==
  \A k \in Keys : \A i \in DOMAIN rows[k] :
    LET row == rows[k][i] IN
    row.level = "crit" =>
      \/ \E n \in DOMAIN row.heard : row.heard[n] = [level |-> "crit", about |-> row.about]
      \/ \E r \in Raisers :
           raiser[r].pc = "notify" /\ raiser[r].call.key = k /\ raiser[r].row = i
=============================================================================
