-------------------------------- MODULE Push --------------------------------
(***************************************************************************)
(* Web push: internal/push.  Each alert raised gets a goroutine that runs  *)
(* Notify: it lists the subscriptions and decides once per user whether    *)
(* the alert is dropped, queued or sent.  One goroutine, woken every 60 s, *)
(* drains the queues of the users whose quiet hours are over.  Meanwhile   *)
(* users subscribe, unsubscribe and change their preferences, and browser  *)
(* windows open and close.  Every database statement is a step of its own: *)
(* nothing here runs in a transaction.                                     *)
(*                                                                         *)
(* A subscription is a row of push_subscriptions: rows are numbered by     *)
(* AUTOINCREMENT, so a row once deleted never comes back (the same browser *)
(* subscribing anew gets another row).                                     *)
(*                                                                         *)
(* Abstracted: texts, languages, keys, time zones, the length of a wait    *)
(* between attempts.  A day may have fewer hours than 24.                  *)
(***************************************************************************)
EXTENDS Naturals

CONSTANTS
  Users,
  Subs,         \* rows push_subscriptions may ever hold
  Alerts,       \* alerts raised in one behaviour
  Critical,     \* those of level crit
  Kinds,
  KindOf,       \* the kind of each alert
  Hours,        \* hours of a day, 0 .. Hours - 1
  Windows,      \* quiet hours users choose: <<start, end>>
  maxIntentos,  \* attempts per send; 3 in the code
  Nobody, NoSub, NoRow,
  MaxChanges,   \* bound: faults, and changes made by users, in one behaviour
  Events        \* what may happen in this instance

EventKinds ==
  {"db",         \* a statement fails
   "restart",    \* the daemon dies and starts again
   "subscribe",  \* POST subscribe, DELETE unsubscribe
   "prefs",      \* PUT preferences
   "quiet",      \* PUT quiet-hours
   "window",     \* an SSE connection opens or closes
   "gone",       \* the push service answers 404 or 410
   "busy"}       \* the push service answers 429 or 5xx, or not at all

NoWindow == <<0, 0>>

ASSUME PushAssumption ==
  /\ Critical \subseteq Alerts
  /\ KindOf \in [Alerts -> Kinds]
  /\ Hours \in Nat \ {0}
  /\ Windows \subseteq {w \in (0 .. Hours - 1) \X (0 .. Hours - 1) : w[1] # w[2]}
  /\ maxIntentos \in Nat \ {0}
  /\ MaxChanges \in Nat
  /\ Events \subseteq EventKinds
  /\ Nobody \notin Users /\ NoSub \notin Subs

VARIABLES
  owner,     \* user_id of each row of push_subscriptions
  deleted,   \* rows that were there once
  muted,     \* notification_preferences: the kinds a user disabled
  window,    \* notification_quiet_hours
  watching,  \* users with an SSE connection: hub.UserActive
  queue,     \* notification_queue
  lastRow,   \* its AUTOINCREMENT
  hour,      \* the local hour
  notify,    \* the goroutine of each alert
  drain,     \* RunQueue's goroutine
  enqueued,  \* history: rows ever put in the queue
  changes    \* faults and changes so far

tables == <<owner, deleted, muted, window>>
queueVars == <<queue, lastRow, enqueued>>
vars == <<tables, watching, queueVars, hour, notify, drain, changes>>

Fates == {"none", "omit", "queue", "send"}
Row == [id : Nat, user : Users, alert : Alerts]

Unborn ==
  [pc |-> "none", listed |-> [s \in Subs |-> Nobody], todo |-> {}, sub |-> NoSub,
   fate |-> [u \in Users |-> "none"], tries |-> 0, tried |-> {}]
Asleep ==
  [pc |-> "idle", now |-> 0, users |-> {}, user |-> Nobody, read |-> {}, items |-> {},
   item |-> NoRow, subs |-> {}, left |-> {}, sub |-> NoSub, tries |-> 0,
   excused |-> {}, tried |-> {}]

Notifies ==
  [pc : {"none", "next", "quiet", "enqueue", "active", "send"},
   listed : [Subs -> Users \cup {Nobody}], todo : SUBSET Subs, sub : Subs \cup {NoSub},
   fate : [Users -> Fates], tries : 0 .. maxIntentos, tried : SUBSET Subs]
Drains ==
  [pc : {"idle", "users", "rows", "subs", "items", "send"},
   now : 0 .. Hours - 1, users : SUBSET Users, user : Users \cup {Nobody},
   read : SUBSET Row, items : SUBSET Row, item : Row \cup {NoRow},
   subs : SUBSET Subs, left : SUBSET Subs, sub : Subs \cup {NoSub},
   tries : 0 .. maxIntentos, excused : SUBSET Row, tried : SUBSET (Row \X Subs)]

TypeOK ==
  /\ owner \in [Subs -> Users \cup {Nobody}]
  /\ deleted \in SUBSET Subs
  /\ muted \in [Users -> SUBSET Kinds]
  /\ window \in [Users -> Windows \cup {NoWindow}]
  /\ watching \in SUBSET Users
  /\ queue \in SUBSET Row
  /\ lastRow \in Nat
  /\ hour \in 0 .. Hours - 1
  /\ notify \in [Alerts -> Notifies]
  /\ drain \in Drains
  /\ enqueued \in SUBSET Row
  /\ changes \in 0 .. MaxChanges

Init ==
  /\ owner \in [Subs -> Users \cup {Nobody}]
  /\ deleted = {}
  /\ muted = [u \in Users |-> {}]
  /\ window \in [Users -> Windows \cup {NoWindow}]
  /\ watching = {}
  /\ queue = {}
  /\ lastRow = 0
  /\ hour = 0
  /\ notify = [a \in Alerts |-> Unborn]
  /\ drain = Asleep
  /\ enqueued = {}
  /\ changes = 0

Change(event) ==
  /\ event \in Events
  /\ changes < MaxChanges
  /\ changes' = changes + 1
Undisturbed == UNCHANGED changes

-----------------------------------------------------------------------------
(* inQuietHours: the window may cross midnight, and an empty one is none.  *)
InWindow(w, h) ==
  /\ w[1] # w[2]
  /\ IF w[1] < w[2] THEN h >= w[1] /\ h < w[2] ELSE h >= w[1] \/ h < w[2]

(* The row of a subscription that answered 404 or 410 is deleted by id; a  *)
(* failure to do so is logged.                                             *)
Forget(s) ==
  /\ owner' = [owner EXCEPT ![s] = Nobody]
  /\ deleted' = deleted \cup {s}

Forgotten(s) ==
  /\ Change("gone")
  /\ \/ Forget(s)
     \/ "db" \in Events /\ UNCHANGED <<owner, deleted>>

Goto(a, n) == notify' = [notify EXCEPT ![a] = n]

(* RaiseKind inserted the alert and launched Notify, whose first step is   *)
(* to list the subscriptions.                                              *)
List(a) ==
  /\ notify[a].pc = "none"
  /\ \/ /\ Goto(a, [Unborn EXCEPT !.pc = "next", !.listed = owner,
                                   !.todo = {s \in Subs : owner[s] # Nobody}])
        /\ Undisturbed
     \/ Goto(a, [Unborn EXCEPT !.pc = "next"]) /\ Change("db")
  /\ UNCHANGED <<tables, watching, queueVars, hour, drain>>

(* The next device; its user's fate is decided when it is the first one.   *)
(* prefEnabled answers yes when the database does not.                     *)
Become(a, s, pc, fate) ==
  Goto(a, [notify[a] EXCEPT !.pc = pc, !.sub = s, !.todo = notify[a].todo \ {s},
                            !.fate = [notify[a].fate EXCEPT ![notify[a].listed[s]] = fate]])

DecidePerDevice(a, s) ==
  LET u == notify[a].listed[s]
      silenced == KindOf[a] \in muted[u]
  IN
  /\ notify[a].pc = "next"
  /\ s \in notify[a].todo
  /\ \/ a \in Critical /\ Become(a, s, "active", "send") /\ Undisturbed
     \/ a \notin Critical /\ silenced /\ Become(a, s, "next", "omit") /\ Undisturbed
     \/ a \notin Critical /\ ~silenced /\ Become(a, s, "quiet", "none") /\ Undisturbed
  /\ UNCHANGED <<tables, watching, queueVars, hour, drain>>

Consider(a, s) ==
  LET u == notify[a].listed[s]
      fate == notify[a].fate[u]
      silenced == KindOf[a] \in muted[u]
  IN
  /\ notify[a].pc = "next"
  /\ s \in notify[a].todo
  /\ \/ /\ fate # "none"
        /\ Become(a, s, IF fate = "send" THEN "active" ELSE "next", fate) /\ Undisturbed
     \/ fate = "none" /\ a \in Critical /\ Become(a, s, "active", "send") /\ Undisturbed
     \/ /\ fate = "none" /\ a \notin Critical /\ silenced
        /\ \/ Become(a, s, "next", "omit") /\ Undisturbed
           \/ Become(a, s, "quiet", "none") /\ Change("db")
     \/ /\ fate = "none" /\ a \notin Critical /\ ~silenced
        /\ Become(a, s, "quiet", "none") /\ Undisturbed
  /\ UNCHANGED <<tables, watching, queueVars, hour, drain>>

(* inQuietHours, and its answer "no" when the database fails.              *)
CheckQuiet(a) ==
  LET u == notify[a].listed[notify[a].sub]
      quiet == InWindow(window[u], hour)
      sent == [notify[a].fate EXCEPT ![u] = "send"]
  IN
  /\ notify[a].pc = "quiet"
  /\ \/ /\ quiet /\ Undisturbed
        /\ Goto(a, [notify[a] EXCEPT !.pc = "enqueue"])
     \/ /\ (quiet /\ Change("db")) \/ (~quiet /\ Undisturbed)
        /\ Goto(a, [notify[a] EXCEPT !.pc = "active", !.fate = sent])
  /\ UNCHANGED <<tables, watching, queueVars, hour, drain>>

(* The INSERT; when it fails the alert is not sent either.                 *)
Enqueue(a) ==
  LET u == notify[a].listed[notify[a].sub]
      row == [id |-> lastRow + 1, user |-> u, alert |-> a]
  IN
  /\ notify[a].pc = "enqueue"
  /\ \/ /\ queue' = queue \cup {row}
        /\ enqueued' = enqueued \cup {row}
        /\ lastRow' = lastRow + 1
        /\ Undisturbed
     \/ Change("db") /\ UNCHANGED queueVars
  /\ Goto(a, [notify[a] EXCEPT !.pc = "next", !.fate = [notify[a].fate EXCEPT ![u] = "queue"]])
  /\ UNCHANGED <<tables, watching, hour, drain>>

(* UserActive: who has the application open has seen the alert.            *)
ActiveStopsAll(a) ==
  LET u == notify[a].listed[notify[a].sub] IN
  /\ notify[a].pc = "active"
  /\ Goto(a, IF u \in watching
               THEN [notify[a] EXCEPT !.pc = "next"]
               ELSE [notify[a] EXCEPT !.pc = "send", !.tries = 1])
  /\ Undisturbed
  /\ UNCHANGED <<tables, watching, queueVars, hour, drain>>

CheckActive(a) ==
  LET u == notify[a].listed[notify[a].sub] IN
  /\ notify[a].pc = "active"
  /\ Goto(a, IF a \notin Critical /\ u \in watching
               THEN [notify[a] EXCEPT !.pc = "next"]
               ELSE [notify[a] EXCEPT !.pc = "send", !.tries = 1])
  /\ Undisturbed
  /\ UNCHANGED <<tables, watching, queueVars, hour, drain>>

(* One attempt of sendTo: accepted or refused for good, 404 or 410, or     *)
(* worth another attempt.                                                  *)
AfterSend(a, pc, n) ==
  Goto(a, [notify[a] EXCEPT !.pc = pc, !.tries = n,
                            !.tried = notify[a].tried \cup {notify[a].sub}])

SendOnceMore(a) ==
  /\ notify[a].pc = "send"
  /\ \/ AfterSend(a, "next", 0) /\ UNCHANGED <<owner, deleted>> /\ Undisturbed
     \/ AfterSend(a, "next", 0) /\ Forgotten(notify[a].sub)
     \/ /\ "busy" \in Events /\ notify[a].tries <= maxIntentos
        /\ AfterSend(a, "send", notify[a].tries + 1)
        /\ UNCHANGED <<owner, deleted>> /\ Undisturbed
  /\ UNCHANGED <<muted, window, watching, queueVars, hour, drain>>

Send(a) ==
  /\ notify[a].pc = "send"
  /\ \/ AfterSend(a, "next", 0) /\ UNCHANGED <<owner, deleted>> /\ Undisturbed
     \/ AfterSend(a, "next", 0) /\ Forgotten(notify[a].sub)
     \/ /\ "busy" \in Events /\ notify[a].tries < maxIntentos
        /\ AfterSend(a, "send", notify[a].tries + 1)
        /\ UNCHANGED <<owner, deleted>> /\ Undisturbed
  /\ UNCHANGED <<muted, window, watching, queueVars, hour, drain>>

-----------------------------------------------------------------------------
(* drainQueue: the users with rows, and the one reading of the clock that  *)
(* decides for all of them.  If the query fails nothing happens; if its    *)
(* reading breaks off, the users read so far are dealt with.               *)
Wake ==
  LET waiting == {r.user : r \in queue} IN
  /\ drain.pc = "idle"
  /\ queue # {}
  /\ \/ /\ drain' = [drain EXCEPT !.pc = "users", !.now = hour, !.users = waiting]
        /\ Undisturbed
     \/ \E some \in SUBSET waiting \ {{}} :
          /\ drain' = [drain EXCEPT !.pc = "users", !.now = hour, !.users = some]
          /\ Change("db")
  /\ UNCHANGED <<tables, watching, queueVars, hour, notify>>

(* What is left of the tick once a user is dealt with.                     *)
Onward(users) ==
  IF users = {} THEN Asleep
  ELSE [Asleep EXCEPT !.pc = "users", !.now = drain.now, !.users = users]

(* One user: in his quiet hours he is left for later.                      *)
Drain(u) ==
  LET quiet == InWindow(window[u], drain.now)
      others == drain.users \ {u}
  IN
  /\ drain.pc = "users"
  /\ u \in drain.users
  /\ \/ quiet /\ drain' = Onward(others) /\ Undisturbed
     \/ /\ (quiet /\ Change("db")) \/ (~quiet /\ Undisturbed)
        /\ drain' = [drain EXCEPT !.users = others, !.user = u, !.pc = "rows"]
  /\ UNCHANGED <<tables, watching, queueVars, hour, notify>>

(* drainUser's SELECT of the rows.  When it fails they stay.  When the     *)
(* reading breaks off, at a row that cannot be scanned or because          *)
(* rows.Next, whose error nobody asks for, ended early, those read before  *)
(* go on as if they were all.  A user without any is cleared at once.      *)
GoOnWith(rows) ==
  drain' = [drain EXCEPT !.read = rows, !.items = rows,
                         !.pc = IF rows = {} THEN "items" ELSE "subs"]

ReadRows ==
  LET rows == {r \in queue : r.user = drain.user} IN
  /\ drain.pc = "rows"
  /\ \/ GoOnWith(rows) /\ Undisturbed
     \/ \E bad \in rows : GoOnWith({r \in rows : r.id < bad.id}) /\ Change("db")
     \/ drain' = Onward(drain.users) /\ Change("db")
  /\ UNCHANGED <<tables, watching, queueVars, hour, notify>>

(* listUser; when it fails the rows stay for the next tick.                *)
ListUserOrClear ==
  LET mine == {s \in Subs : owner[s] = drain.user} IN
  /\ drain.pc = "subs"
  /\ \/ drain' = [drain EXCEPT !.subs = mine, !.pc = "items"] /\ Undisturbed
     \/ /\ drain' = [drain EXCEPT !.subs = mine, !.items = {}, !.pc = "items"]
        /\ Change("db")
  /\ UNCHANGED <<tables, watching, queueVars, hour, notify>>

ListUser ==
  LET mine == {s \in Subs : owner[s] = drain.user} IN
  /\ drain.pc = "subs"
  /\ \/ drain' = [drain EXCEPT !.subs = mine, !.pc = "items"] /\ Undisturbed
     \/ drain' = Onward(drain.users) /\ Change("db")
  /\ UNCHANGED <<tables, watching, queueVars, hour, notify>>

(* The rows in order; one of a kind that was disabled since is discarded.  *)
NextItem(r) ==
  LET silenced == KindOf[r.alert] \in muted[drain.user]
      taken == [drain EXCEPT !.items = drain.items \ {r}, !.item = r]
      devices == [taken EXCEPT !.left = drain.subs]
  IN
  /\ drain.pc = "items"
  /\ drain.left = {}
  /\ r \in drain.items
  /\ \A q \in drain.items : r.id <= q.id
  /\ \/ /\ silenced
        /\ \/ drain' = [taken EXCEPT !.excused = drain.excused \cup {r}] /\ Undisturbed
           \/ drain' = devices /\ Change("db")
     \/ ~silenced /\ drain' = devices /\ Undisturbed
  /\ UNCHANGED <<tables, watching, queueVars, hour, notify>>

(* A device of the user, unless he has the application open.               *)
NextDevice(s) ==
  /\ drain.pc = "items"
  /\ s \in drain.left
  /\ drain' = IF drain.item.alert \notin Critical /\ drain.user \in watching
                THEN [drain EXCEPT !.left = {}, !.excused = drain.excused \cup {drain.item}]
                ELSE [drain EXCEPT !.pc = "send", !.sub = s, !.left = drain.left \ {s},
                                   !.tries = 1]
  /\ Undisturbed
  /\ UNCHANGED <<tables, watching, queueVars, hour, notify>>

(* One attempt of sendTo.                                                  *)
AfterPush(pc, n) ==
  drain' = [drain EXCEPT !.pc = pc, !.tries = n,
                         !.tried = drain.tried \cup {<<drain.item, drain.sub>>}]

PushUntilAccepted ==
  /\ drain.pc = "send"
  /\ \/ AfterPush("items", 0) /\ UNCHANGED <<owner, deleted>> /\ Undisturbed
     \/ AfterPush("items", 0) /\ Forgotten(drain.sub)
     \/ /\ "busy" \in Events
        /\ AfterPush("send", IF drain.tries < maxIntentos THEN drain.tries + 1 ELSE 1)
        /\ UNCHANGED <<owner, deleted>> /\ Undisturbed
  /\ UNCHANGED <<muted, window, watching, queueVars, hour, notify>>

Push ==
  /\ drain.pc = "send"
  /\ \/ AfterPush("items", 0) /\ UNCHANGED <<owner, deleted>> /\ Undisturbed
     \/ AfterPush("items", 0) /\ Forgotten(drain.sub)
     \/ /\ "busy" \in Events /\ drain.tries < maxIntentos
        /\ AfterPush("send", drain.tries + 1)
        /\ UNCHANGED <<owner, deleted>> /\ Undisturbed
  /\ UNCHANGED <<muted, window, watching, queueVars, hour, notify>>

(* clearQueue: every row of the user; an error is logged.                  *)
Clear ==
  /\ drain.pc = "items"
  /\ drain.items = {}
  /\ drain.left = {}
  /\ \/ queue' = {r \in queue : r.user # drain.user} /\ Undisturbed
     \/ UNCHANGED queue /\ Change("db")
  /\ drain' = Onward(drain.users)
  /\ UNCHANGED <<tables, watching, lastRow, enqueued, hour, notify>>

-----------------------------------------------------------------------------
(* Subscribe inserts a row or, when the endpoint is known, hands it to the *)
(* user who asks; Unsubscribe deletes the user's own.                      *)
Subscribe(u, s) ==
  /\ Change("subscribe")
  /\ s \notin deleted
  /\ owner' = [owner EXCEPT ![s] = u]
  /\ UNCHANGED <<deleted, muted, window, watching, queueVars, hour, notify, drain>>

Unsubscribe(u, s) ==
  /\ Change("subscribe")
  /\ owner[s] = u
  /\ Forget(s)
  /\ UNCHANGED <<muted, window, watching, queueVars, hour, notify, drain>>

SetPreference(u, k) ==
  /\ Change("prefs")
  /\ \/ muted' = [muted EXCEPT ![u] = @ \cup {k}]
     \/ muted' = [muted EXCEPT ![u] = @ \ {k}]
  /\ UNCHANGED <<owner, deleted, window, watching, queueVars, hour, notify, drain>>

SetQuietHours(u, w) ==
  /\ Change("quiet")
  /\ window' = [window EXCEPT ![u] = w]
  /\ UNCHANGED <<owner, deleted, muted, watching, queueVars, hour, notify, drain>>

(* A window of the application opens or closes.                            *)
Watch(u) ==
  /\ Change("window")
  /\ watching' = IF u \in watching THEN watching \ {u} ELSE watching \cup {u}
  /\ UNCHANGED <<tables, queueVars, hour, notify, drain>>

NextHour ==
  /\ hour' = (hour + 1) % Hours
  /\ Undisturbed
  /\ UNCHANGED <<tables, watching, queueVars, notify, drain>>

(* The daemon restarts: the goroutines are gone, the tables remain.        *)
Restart ==
  /\ Change("restart")
  /\ notify' = [a \in Alerts |->
                  IF notify[a].pc = "none" THEN notify[a] ELSE [Unborn EXCEPT !.pc = "next"]]
  /\ drain' = Asleep
  /\ watching' = {}
  /\ UNCHANGED <<tables, queueVars, hour>>

Notify(a) ==
  \/ List(a) \/ CheckQuiet(a) \/ Enqueue(a) \/ CheckActive(a) \/ Send(a)
  \/ \E s \in Subs : Consider(a, s)

DrainStep ==
  \/ ReadRows \/ ListUser \/ Push \/ Clear
  \/ \E u \in Users : Drain(u)
  \/ \E r \in drain.items : NextItem(r)
  \/ \E s \in Subs : NextDevice(s)

UserStep(u) ==
  \/ \E s \in Subs : Subscribe(u, s) \/ Unsubscribe(u, s)
  \/ \E k \in Kinds : SetPreference(u, k)
  \/ \E w \in Windows \cup {NoWindow} : SetQuietHours(u, w)
  \/ Watch(u)

Next ==
  \/ \E a \in Alerts : Notify(a)
  \/ Wake
  \/ DrainStep
  \/ \E u \in Users : UserStep(u)
  \/ NextHour
  \/ Restart

Spec == Init /\ [][Next]_vars

(* The drain goes on and hours pass.  The ticker fires every minute: if    *)
(* drains keep ending, each hour of the day finds the goroutine idle again *)
(* and again, and the free hours of a user are not all missed.             *)
Fairness ==
  /\ WF_vars(DrainStep)
  /\ WF_vars(NextHour)
  /\ \A h \in 0 .. Hours - 1 :
       []<>(drain.pc = "idle") => []<>(hour = h /\ drain.pc = "idle")
  /\ \A u \in Users : SF_vars(Wake /\ ~InWindow(window[u], hour))

FairSpec == Spec /\ Fairness

-----------------------------------------------------------------------------
(* One fate per alert and user, whatever changes between the user's first  *)
(* device and his last: at most one row in the queue, and never a row and  *)
(* a push of the same alert from Notify (two notices of one event).        *)
OneFate ==
  /\ \A r, q \in enqueued : r.user = q.user /\ r.alert = q.alert => r = q
  /\ \A r \in enqueued : \A s \in notify[r.alert].tried :
       notify[r.alert].listed[s] # r.user

(* A critical alert goes through: neither preferences nor quiet hours nor  *)
(* an open application keep it from any device that Notify listed, and it  *)
(* is never queued.                                                        *)
CritReachesAll ==
  /\ \A r \in enqueued : r.alert \notin Critical
  /\ \A a \in Critical :
       notify[a].pc = "next" /\ notify[a].todo = {} =>
         \A s \in Subs : notify[a].listed[s] # Nobody => s \in notify[a].tried

(* A row that a drain read leaves the queue only when the drain is through *)
(* with it: every device listed was tried, or the user had disabled the    *)
(* kind or had the application open.  A failing listUser, clearQueue or    *)
(* restart in between leaves it queued.  What a drain deletes unread       *)
(* (clearQueue names no row) is the drained user's and newer than every    *)
(* row it read: it came after the reading, or the reading broke off before *)
(* it; the second loses rows, and OnlyProcessedCleared is about both.      *)
ReadThenProcessed ==
  [][\A r \in queue \ queue' :
       /\ r.user = drain.user
       /\ r \in drain.read =>
            r \in drain.excused \/ \A s \in drain.subs : <<r, s>> \in drain.tried
       /\ r \notin drain.read => \A q \in drain.read : q.id < r.id]_vars

(* The queue is emptied when the quiet hours end (prefs.go:10): no queued  *)
(* alert stays for ever, however the push service answers.                 *)
QueueDrains ==
  \A u \in Users, a \in Alerts :
    (\E r \in queue : r.user = u /\ r.alert = a)
      ~> ~(\E r \in queue : r.user = u /\ r.alert = a)

(* prefs.go:304 "clearQueue — borra los elementos procesados de un         *)
(* usuario": what leaves the queue was read by the drain that clears it.   *)
OnlyProcessedCleared == [][queue \ queue' \subseteq drain.read]_vars
=============================================================================
