------------------------------- MODULE Client -------------------------------
(***************************************************************************)
(* The data a tab shows and the changes it asks for: one resource of the   *)
(* server (the list of pools, of jobs...) followed from the server to the  *)
(* copy a view holds of it.  web/src/ui/useData.ts reads it, data/events   *)
(* says when to read it again, the dialogs of components/Modals.tsx and    *)
(* the buttons of the views change it.  What each view and dialog does is  *)
(* in Views and Dialogs; the copies of different resources do not touch    *)
(* each other, so following any one of them follows them all.              *)
(*                                                                         *)
(* A version of the resource is a number.  The server answers some reads   *)
(* from the collectors' caches, and publishes events as internal/ does.    *)
(***************************************************************************)
EXTENDS Naturals, Sequences, FiniteSets, Views

CONSTANTS
  Watched,      \* the resources followed, one per behaviour
  IsAdmin,      \* the user's role
  Causes,       \* the events that may announce a change made elsewhere
  None,         \* no dialog, no call
  MaxChanges,   \* bound on the changes of the resource
  MaxAsks,      \* bound on the reads in flight
  MaxCalls,     \* bound on the calls in flight
  MaxMishaps,   \* bound on the answers and events lost
  MaxGestures   \* bound on what the user does

Versions == 0 .. MaxChanges + 1
Asks == [newest : BOOLEAN, of : 0 .. 1, state : {"asked", "served", "failed"}, got : Versions]
Calls == [changes : BOOLEAN, tells : {"longop.update", "none"}, rereads : BOOLEAN, busy : BOOLEAN,
          closes : BOOLEAN, from : {"dialog", "view"}, mine : BOOLEAN,
          state : {"sent", "ok", "failed"}]

ASSUME ClientAssumption ==
  /\ Watched \subseteq Resources /\ IsAdmin \in BOOLEAN
  /\ {MaxChanges, MaxAsks, MaxCalls, MaxMishaps, MaxGestures} \subseteq Nat /\ MaxAsks > 0
  /\ None \notin Calls
  /\ None \notin [name : DOMAIN DialogOf, filled : BOOLEAN, busy : BOOLEAN]

VARIABLES
  res,      \* the resource followed
  view,     \* the view on screen
  hook,     \* useData: have (0: null), loading, bad; of and want, the source
            \* the data are of and the one chosen
  asks,     \* the reads of this view in flight
  dialog,   \* Modal's state, with the fields its dialog keeps
  calls,    \* the calls in flight
  truth,    \* server: the version of the resource
  visible,  \* server: the version a read is answered with
  due,      \* server: what the collector will have to announce
  events,   \* the event stream
  excused,  \* history: nothing will tell the view of a version it lacks
  count     \* bounds used up

server == <<truth, visible, due>>
vars == <<res, view, hook, asks, dialog, calls, server, events, excused, count>>

TypeOK ==
  /\ res \in Watched /\ view \in DOMAIN ViewOf
  /\ hook \in [have : Versions, loading : BOOLEAN, bad : BOOLEAN, of : 0 .. 1, want : 0 .. 1]
  /\ asks \in SUBSET Asks /\ Cardinality(asks) <= MaxAsks
  /\ dialog \in [name : DOMAIN DialogOf, filled : BOOLEAN, busy : BOOLEAN] \cup {None}
  /\ calls \in [1 .. MaxCalls -> Calls \cup {None}]
  /\ truth \in Versions /\ visible \in 1 .. truth
  /\ (res \in Direct => visible = truth /\ due = {})
  /\ \A i \in DOMAIN events : events[i].version \in Versions
  /\ excused \in BOOLEAN /\ count \in [{"change", "mishap", "gesture"} -> Nat]

Spend(c, max) == count[c] < max /\ count' = [count EXCEPT ![c] = count[c] + 1]
Mishap == Spend("mishap", MaxMishaps)
Gesture == Spend("gesture", MaxGestures)

V == ViewOf[view]
Held == res \in V.hooks

-----------------------------------------------------------------------------
(* Reading.                                                                *)

(* data/events.ts listens to these types and to no other.                  *)
SSE_TYPES ==
  {"pool.status", "scrub.progress", "scrub.end", "disk.temp", "disk.smart", "alert.new",
   "job.finished", "longop.update", "overview"}

Hears(e) == e \in SSE_TYPES /\ <<e, res>> \in V.reloads

ReloadedSame(a, of) == a \cup {[newest |-> TRUE, of |-> of, state |-> "asked", got |-> 0]}

(* useData.reload: one more read, and from now on the newest.              *)
Reloaded(a, of) ==
  {[q EXCEPT !.newest = FALSE] : q \in a}
  \cup {[newest |-> TRUE, of |-> of, state |-> "asked", got |-> 0]}

Reload(h) ==
  /\ hook' = [h EXCEPT !.loading = TRUE]
  /\ asks' = Reloaded(asks, h.want)
  /\ Cardinality(asks') <= MaxAsks
  /\ excused' = FALSE

Blank == [have |-> 0, loading |-> TRUE, bad |-> FALSE, of |-> 0, want |-> 0]

AnsweredAny(q) ==
  IF q.state = "failed" THEN [hook EXCEPT !.loading = FALSE, !.bad = TRUE]
  ELSE [hook EXCEPT !.have = q.got, !.of = q.of, !.loading = FALSE, !.bad = FALSE]

(* What an answer does to the hook: nothing when a later read was made.    *)
Answered(q) ==
  IF V.latest /\ ~q.newest THEN hook
  ELSE IF q.state = "failed" THEN [hook EXCEPT !.loading = FALSE, !.bad = TRUE]
  ELSE [hook EXCEPT !.have = q.got, !.of = q.of, !.loading = FALSE, !.bad = FALSE]

ServeAsk ==
  /\ \E q \in asks :
       /\ q.state = "asked"
       /\ \/ /\ asks' = (asks \ {q}) \cup {[q EXCEPT !.state = "served", !.got = visible]}
             /\ UNCHANGED count
          \/ /\ Mishap
             /\ asks' = (asks \ {q}) \cup {[q EXCEPT !.state = "failed"]}
  /\ UNCHANGED <<res, view, hook, dialog, calls, server, events, excused>>

GotAnswer ==
  /\ \E q \in asks :
       /\ q.state # "asked"
       /\ asks' = asks \ {q}
       /\ hook' = Answered(q)
       /\ excused' = IF ~q.newest THEN excused
                     ELSE q.state = "failed" \/ (excused /\ q.got < visible)
  /\ UNCHANGED <<res, view, dialog, calls, server, events, count>>

-----------------------------------------------------------------------------
(* The server.                                                             *)

(* The events that announce a change of the resource made by the system,   *)
(* by a job or by another user, "none" among them.                         *)
Announces ==
  [overview |-> {"overview", "none"}, perf |-> {"none"}, datasets |-> {"none"},
   pools |-> {"pool.status", "scrub.progress", "scrub.end", "disk.temp", "none"},
   disks |-> {"disk.temp", "disk.smart", "none"}, recs |-> {"disk.smart", "none"},
   missing |-> {"alert.new", "none"}, snaps |-> {"job.finished", "none"},
   jobs |-> {"job.finished", "none"}, hist |-> {"job.finished", "none"}, sys |-> {"none"},
   ops |-> {"longop.update"}, repl |-> {"longop.update", "replication.finished", "none"},
   settings |-> {"none"}, users |-> {"none"}, alerts |-> {"alert.new"}, channels |-> {"none"},
   series |-> {"none"}]

(* The collectors publish these once their cache holds the change.         *)
Collector == {"overview", "pool.status", "scrub.progress", "scrub.end", "disk.temp", "disk.smart"}

Published(e, version) ==
  IF e \in SSE_TYPES THEN Append(events, [event |-> e, version |-> version]) ELSE events

ChangesLater(e, silent) ==
  truth' = truth + 1 /\ due' = due \cup {e} /\ UNCHANGED <<visible, events, excused>>

(* A change of the resource, announced by e; silent says that the one who  *)
(* made it will not have it read again.                                    *)
Changes(e, silent) ==
  /\ truth' = truth + 1
  /\ IF res \in Cached
     THEN /\ due' = due \cup {e}
          /\ events' = IF e \in Collector THEN events ELSE Published(e, truth')
          /\ UNCHANGED <<visible, excused>>
     ELSE /\ visible' = truth'
          /\ events' = Published(e, truth')
          /\ excused' = (excused \/ (silent /\ ~Hears(e)))
          /\ UNCHANGED due

ChangeElsewhere ==
  /\ \E e \in Announces[res] \cap Causes : Changes(e, TRUE)
  /\ Spend("change", MaxChanges)
  /\ UNCHANGED <<res, view, hook, asks, dialog, calls>>

(* The collector's next pass: the cache, then the events.                  *)
Collect ==
  /\ visible < truth
  /\ visible' = truth /\ due' = {}
  /\ \E order \in [1 .. Cardinality(due \cap Collector) -> due \cap Collector] :
       /\ \A e \in due \cap Collector : \E i \in DOMAIN order : order[i] = e
       /\ events' = events \o [i \in DOMAIN order |-> [event |-> order[i], version |-> truth]]
  /\ excused' = (excused \/ (\A e \in due \cap Collector : ~Hears(e)))
  /\ UNCHANGED <<res, view, hook, asks, dialog, calls, truth, count>>

-----------------------------------------------------------------------------
(* The event stream.                                                       *)
Patched(e) == <<e.event, res>> \in V.patches /\ hook.have # 0

HeardUnread ==
  /\ events # <<>>
  /\ events' = Tail(events)
  /\ hook' = IF Patched(Head(events)) THEN [hook EXCEPT !.have = Head(events).version] ELSE hook
  /\ UNCHANGED <<asks, excused>>

(* The listener of the view: the data of the event go into the copy, and   *)
(* the copy is read again.                                                 *)
Heard ==
  LET e == Head(events)
      h == IF Patched(e) THEN [hook EXCEPT !.have = e.version] ELSE hook
  IN  /\ events # <<>>
      /\ events' = Tail(events)
      /\ IF Hears(e.event) THEN Reload(h) ELSE hook' = h /\ UNCHANGED <<asks, excused>>

Hear == Heard /\ UNCHANGED <<res, view, dialog, calls, server, count>>

(* The stream is cut: what was on its way is lost, and the client, when it *)
(* connects again, reads nothing.                                          *)
CutStream ==
  /\ events # <<>> /\ Mishap
  /\ events' = <<>>
  /\ excused' = (excused \/ \E i \in DOMAIN events : Hears(events[i].event))
  /\ UNCHANGED <<res, view, hook, asks, dialog, calls, server>>

-----------------------------------------------------------------------------
(* The user.                                                               *)
NotMine(from) ==
  [s \in DOMAIN calls |->
     IF calls[s] # None /\ calls[s].from = from THEN [calls[s] EXCEPT !.mine = FALSE] ELSE calls[s]]

(* Another view: the hooks of the old one are gone, and what was asked for *)
(* them is answered to nobody.                                             *)
Navigate ==
  /\ Gesture
  /\ \E v \in DOMAIN ViewOf \ {view} :
       /\ view' = v
       /\ asks' = IF res \in ViewOf[v].hooks THEN Reloaded({}, 0) ELSE {}
  /\ hook' = Blank /\ excused' = FALSE
  /\ calls' = NotMine("view")
  /\ UNCHANGED <<res, dialog, server, events>>

(* Trends: another source, or other days.                                  *)
Choose ==
  /\ view = "trends" /\ res = "series" /\ Gesture
  /\ Reload([hook EXCEPT !.want = 1 - hook.want])
  /\ UNCHANGED <<res, view, dialog, calls, server, events>>

OpenDialog ==
  /\ dialog = None /\ Gesture
  /\ \E d \in V.opens : dialog' = [name |-> d, filled |-> FALSE, busy |-> FALSE]
  /\ UNCHANGED <<res, view, hook, asks, calls, server, events, excused>>

(* The lists useLoad reads have come, unless the dialog is gone, and the   *)
(* name is typed, the item chosen.                                         *)
FillIn ==
  /\ dialog # None /\ ~dialog.filled /\ ~dialog.busy
  /\ \E a \in DialogOf[dialog.name].acts : a.typed \/ a.picks
  /\ dialog' = [dialog EXCEPT !.filled = TRUE]
  /\ UNCHANGED <<res, view, hook, asks, calls, server, events, excused, count>>

(* Escape, the overlay or Cancel: also while it is busy.                   *)
CloseDialog ==
  /\ dialog # None
  /\ dialog' = None /\ calls' = NotMine("dialog")
  /\ UNCHANGED <<res, view, hook, asks, server, events, excused, count>>

(* A call, as far as the resource and the dialog are concerned.            *)
Sent(a, from) ==
  [changes |-> res \in a.writes, tells |-> a.tells, rereads |-> res \in a.rereads,
   busy |-> a.busy, closes |-> a.after = "closed", from |-> from, mine |-> TRUE, state |-> "sent"]

Call(a, from) ==
  \E s \in DOMAIN calls :
    /\ calls[s] = None /\ \A t \in 1 .. s - 1 : calls[t] # None
    /\ calls' = [calls EXCEPT ![s] = Sent(a, from)]

Allowed(a) ==
  /\ a.admin => IsAdmin
  /\ a.typed \/ a.picks => dialog.filled

SubmitAgain ==
  /\ dialog # None
  /\ \E a \in DialogOf[dialog.name].acts :
       /\ Allowed(a)
       /\ Call(a, "dialog")
       /\ dialog' = [dialog EXCEPT !.busy = dialog.busy \/ a.busy]
  /\ Gesture
  /\ UNCHANGED <<res, view, hook, asks, server, events, excused>>

Submit ==
  /\ dialog # None
  /\ \E a \in DialogOf[dialog.name].acts :
       /\ Allowed(a) /\ (a.busy => ~dialog.busy)
       /\ Call(a, "dialog")
       /\ dialog' = [dialog EXCEPT !.busy = dialog.busy \/ a.busy]
  /\ Gesture
  /\ UNCHANGED <<res, view, hook, asks, server, events, excused>>

Click ==
  /\ dialog = None /\ Gesture
  /\ \E a \in V.acts : (a.admin => IsAdmin) /\ Call(a, "view")
  /\ UNCHANGED <<res, view, hook, asks, dialog, server, events, excused>>

-----------------------------------------------------------------------------
(* The calls.                                                              *)

(* refresh() reaches the view on screen; a view's own reload, only while   *)
(* that view is there.                                                     *)
Rereads(c) == Held /\ c.rereads /\ (c.from = "dialog" \/ c.mine)

Outcome(s, state) == calls' = [calls EXCEPT ![s].state = state]

ServeCall ==
  /\ \E s \in DOMAIN calls :
       /\ calls[s] # None /\ calls[s].state = "sent"
       /\ \/ /\ Outcome(s, "failed") /\ UNCHANGED <<server, events, excused, count>>
          \/ /\ ~calls[s].changes
             /\ Outcome(s, "ok") /\ UNCHANGED <<server, events, excused, count>>
          \/ /\ calls[s].changes
             /\ Outcome(s, "ok")
             /\ Changes(calls[s].tells, ~Rereads(calls[s]))
             /\ Spend("change", MaxChanges)
          \/ /\ calls[s].changes
             /\ Outcome(s, "failed")
             /\ Changes(calls[s].tells, TRUE)
             /\ count["change"] < MaxChanges /\ count["mishap"] < MaxMishaps
             /\ count' = [count EXCEPT !["change"] = count["change"] + 1,
                                       !["mishap"] = count["mishap"] + 1]
  /\ UNCHANGED <<res, view, hook, asks, dialog>>

GotOkUnread(s) ==
  /\ calls[s].state = "ok"
  /\ IF calls[s].closes
     THEN dialog' = None /\ calls' = [NotMine("dialog") EXCEPT ![s] = None]
     ELSE calls' = [calls EXCEPT ![s] = None] /\ UNCHANGED dialog
  /\ UNCHANGED <<hook, asks, excused>>

(* A success: refresh, and the dialog on screen is closed, whichever it is.*)
GotOk(s) ==
  /\ calls[s].state = "ok"
  /\ IF calls[s].closes
     THEN dialog' = None /\ calls' = [NotMine("dialog") EXCEPT ![s] = None]
     ELSE calls' = [calls EXCEPT ![s] = None] /\ UNCHANGED dialog
  /\ IF Rereads(calls[s]) THEN Reload(hook) ELSE UNCHANGED <<hook, asks, excused>>

GotFailedBusy(s) ==
  /\ calls[s].state = "failed"
  /\ calls' = [calls EXCEPT ![s] = None]
  /\ UNCHANGED <<dialog, hook, asks, excused>>

(* A failure: the message, and the dialog that asked is no longer busy.    *)
GotFailed(s) ==
  /\ calls[s].state = "failed"
  /\ calls' = [calls EXCEPT ![s] = None]
  /\ dialog' = IF dialog # None /\ calls[s].from = "dialog" /\ calls[s].mine /\ calls[s].busy
               THEN [dialog EXCEPT !.busy = FALSE] ELSE dialog
  /\ UNCHANGED <<hook, asks, excused>>

GotCall ==
  /\ \E s \in DOMAIN calls : calls[s] # None /\ (GotOk(s) \/ GotFailed(s))
  /\ UNCHANGED <<res, view, server, events, count>>

-----------------------------------------------------------------------------
Init ==
  /\ res \in Watched
  /\ view \in {v \in DOMAIN ViewOf : res \in ViewOf[v].hooks}
  /\ hook = Blank /\ asks = Reloaded({}, 0)
  /\ dialog = None /\ calls = [s \in 1 .. MaxCalls |-> None]
  /\ truth = 1 /\ visible = 1 /\ due = {} /\ events = <<>>
  /\ excused = FALSE
  /\ count = [c \in {"change", "mishap", "gesture"} |-> 0]

Next ==
  \/ ServeAsk \/ GotAnswer \/ ChangeElsewhere \/ Collect \/ Hear \/ CutStream
  \/ Navigate \/ Choose \/ OpenDialog \/ FillIn \/ CloseDialog
  \/ Submit \/ Click \/ ServeCall \/ GotCall

Spec == Init /\ [][Next]_vars

(* Requests are answered, the collectors run, JavaScript's queue drains.   *)
Fairness ==
  /\ WF_vars(ServeAsk) /\ WF_vars(GotAnswer) /\ WF_vars(Collect) /\ WF_vars(Hear)
  /\ WF_vars(ServeCall) /\ WF_vars(GotCall)

FairSpec == Spec /\ Fairness

-----------------------------------------------------------------------------
(* Properties.                                                             *)

(* The copies useData keeps that no event writes into.                     *)
Followed == Held /\ V.latest /\ \A e \in SSE_TYPES : <<e, res>> \notin V.patches

(* A view that shows an old version has the new one on its way: the        *)
(* newest read will bring it, or an event or the answer to a call will     *)
(* have it read again; unless nothing told the client (excused: a change   *)
(* no event announces or none the view handles, an event or an answer      *)
(* lost).                                                                  *)
StaleIsOnItsWay ==
  Followed /\ hook.have < visible =>
    \/ excused
    \/ \E q \in asks : q.newest /\ (q.state = "served" => q.got = visible)
    \/ \E i \in DOMAIN events : Hears(events[i].event)
    \/ \E s \in DOMAIN calls : calls[s] # None /\ calls[s].state = "ok" /\ Rereads(calls[s])

(* A view never goes back to an older version of what it shows, however    *)
(* late the answers to its reads come and in whatever order.               *)
NoGoingBack == [][view' = view /\ Followed => hook'.have >= hook.have]_vars

(* The chart of Trends, which is drawn when the hook neither loads nor     *)
(* failed, is the chart of the source chosen, not of one chosen before.    *)
ChartIsChosen ==
  res = "series" /\ view = "trends" /\ ~hook.loading /\ ~hook.bad => hook.of = hook.want

(* A dialog is busy exactly while one call it made, and only one, is in    *)
(* flight: nothing is submitted twice, and none waits for nothing.  The    *)
(* dialog of the properties of a dataset is an exception: it stays busy.   *)
Pending ==
  {s \in DOMAIN calls : calls[s] # None /\ calls[s].from = "dialog" /\ calls[s].mine /\ calls[s].busy}

OneSubmitPending ==
  dialog # None /\ dialog.name # "propsds" => Cardinality(Pending) = (IF dialog.busy THEN 1 ELSE 0)

(* In the end, when the changes stop, a view shows the version the server  *)
(* answers with, unless nothing told it of it.                             *)
FinallyCurrent == <>[](Followed => excused \/ hook.have = visible)

(* No dialog is left busy for ever, but the one of the properties.         *)
NoDialogStuck == <>[](dialog # None /\ dialog.name # "propsds" => ~dialog.busy)
=============================================================================
