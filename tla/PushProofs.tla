----------------------------- MODULE PushProofs -----------------------------
(***************************************************************************)
(* Proofs about Push: one fate per alert and user, critical alerts reach   *)
(* every device, and a row that was read leaves the queue only processed.  *)
(***************************************************************************)
EXTENDS Push, TLAPS

-----------------------------------------------------------------------------
(* Types.  The devices a goroutine works on are subscriptions of users.    *)
NoteSane(n) ==
  /\ n.pc = "none" => n = Unborn
  /\ \A s \in n.todo : n.listed[s] \in Users
  /\ n.pc \in {"quiet", "enqueue", "active", "send"}
       => n.sub \in Subs /\ n.listed[n.sub] \in Users

NotifySane == \A a \in Alerts : NoteSane(notify[a])

DrainSane ==
  /\ drain.left # {} \/ drain.pc = "send" => drain.item \in Row
  /\ drain.pc = "send" => drain.sub \in Subs

Sane == TypeOK /\ NotifySane /\ DrainSane

LEMMA SaneInit == Init => Sane
  <1> SUFFICES ASSUME Init PROVE Sane
    OBVIOUS
  <1> USE PushAssumption
  <1>1. Unborn \in Notifies
    BY DEF Unborn, Notifies, Fates
  <1>2. Asleep \in Drains
    BY DEF Asleep, Drains
  <1>3. TypeOK
    BY <1>1, <1>2 DEF Init, TypeOK
  <1>4. NotifySane
    BY DEF Init, NotifySane, NoteSane, Unborn
  <1>5. DrainSane
    BY DEF Init, DrainSane, Asleep
  <1> QED
    BY <1>3, <1>4, <1>5 DEF Sane

LEMMA Attempts ==
  /\ 0 \in 0 .. maxIntentos
  /\ 1 \in 0 .. maxIntentos
  /\ \A k \in 0 .. maxIntentos : k < maxIntentos => k + 1 \in 0 .. maxIntentos
  BY PushAssumption

(* A step of one Notify goroutine.                                         *)
LEMMA GotoSane ==
  ASSUME Sane, NEW a \in Alerts, NEW n \in Notifies, NoteSane(n), Goto(a, n)
  PROVE  notify' \in [Alerts -> Notifies] /\ NotifySane'
  BY DEF Sane, TypeOK, NotifySane, Goto

LEMMA NotifyTypes ==
  ASSUME Sane, NEW a \in Alerts, Notify(a)
  PROVE  notify' \in [Alerts -> Notifies] /\ NotifySane'
  <1> DEFINE n == notify[a]
  <1>1. n \in Notifies /\ NoteSane(n) /\ owner \in [Subs -> Users \cup {Nobody}]
    BY DEF Sane, TypeOK, NotifySane
  <1>2. Unborn \in Notifies
    BY Attempts DEF Unborn, Notifies, Fates
  <1> SUFFICES \E m \in Notifies : NoteSane(m) /\ Goto(a, m)
    BY GotoSane
  <1>3. CASE List(a)
    <2> DEFINE listed == [Unborn EXCEPT !.pc = "next", !.listed = owner,
                                        !.todo = {s \in Subs : owner[s] # Nobody}]
               failed == [Unborn EXCEPT !.pc = "next"]
    <2>1. listed \in Notifies /\ NoteSane(listed)
      BY <1>1, <1>2 DEF Notifies, NoteSane, Unborn
    <2>2. failed \in Notifies /\ NoteSane(failed)
      BY <1>1, <1>2 DEF Notifies, NoteSane, Unborn
    <2> QED
      BY <1>3, <2>1, <2>2 DEF List
  <1>4. ASSUME NEW s \in Subs, Consider(a, s)
        PROVE  \E m \in Notifies : NoteSane(m) /\ Goto(a, m)
    <2> DEFINE m(pc, f) == [n EXCEPT !.pc = pc, !.sub = s, !.todo = n.todo \ {s},
                                     !.fate = [n.fate EXCEPT ![n.listed[s]] = f]]
    <2>1. s \in n.todo /\ n.listed[s] \in Users /\ n.pc = "next" /\ n.fate \in [Users -> Fates]
      BY <1>1, <1>4 DEF Consider, NoteSane, Notifies
    <2>2. PICK pc \in {"next", "quiet", "active"}, f \in Fates : Become(a, s, pc, f)
      BY <1>4, <2>1 DEF Consider, Fates
    <2>3. m(pc, f) \in Notifies
      BY <1>1, <2>1, <2>2 DEF Notifies
    <2>4. NoteSane(m(pc, f))
      BY <1>1, <2>1, <2>2 DEF Notifies, NoteSane
    <2> QED
      BY <2>2, <2>3, <2>4 DEF Become
  <1>5. CASE CheckQuiet(a)
    <2> DEFINE queued == [n EXCEPT !.pc = "enqueue"]
               sent == [n EXCEPT !.pc = "active",
                                 !.fate = [n.fate EXCEPT ![n.listed[n.sub]] = "send"]]
    <2>1. queued \in Notifies /\ NoteSane(queued)
      BY <1>1, <1>5 DEF CheckQuiet, Notifies, NoteSane
    <2>2. sent \in Notifies /\ NoteSane(sent)
      BY <1>1, <1>5 DEF CheckQuiet, Notifies, NoteSane, Fates
    <2> QED
      BY <1>5, <2>1, <2>2 DEF CheckQuiet
  <1>6. CASE Enqueue(a)
    <2> DEFINE m == [n EXCEPT !.pc = "next",
                              !.fate = [n.fate EXCEPT ![n.listed[n.sub]] = "queue"]]
    <2>1. m \in Notifies /\ NoteSane(m)
      BY <1>1, <1>6 DEF Enqueue, Notifies, NoteSane, Fates
    <2> QED
      BY <1>6, <2>1 DEF Enqueue
  <1>7. CASE CheckActive(a)
    <2> DEFINE skip == [n EXCEPT !.pc = "next"]
               go == [n EXCEPT !.pc = "send", !.tries = 1]
    <2> USE Attempts
    <2>1. skip \in Notifies /\ NoteSane(skip)
      BY <1>1, <1>7 DEF CheckActive, Notifies, NoteSane
    <2>2. go \in Notifies /\ NoteSane(go)
      BY <1>1, <1>7 DEF CheckActive, Notifies, NoteSane
    <2>3. Goto(a, skip) \/ Goto(a, go)
      BY <1>7 DEF CheckActive
    <2> QED
      BY <2>1, <2>2, <2>3
  <1>8. CASE Send(a)
    <2> DEFINE m(pc, k) == [n EXCEPT !.pc = pc, !.tries = k, !.tried = n.tried \cup {n.sub}]
    <2>1. n.pc = "send" /\ n.sub \in Subs
      BY <1>1, <1>8 DEF Send, NoteSane
    <2>2. PICK pc \in {"next", "send"}, k \in 0 .. maxIntentos : Goto(a, m(pc, k))
      BY <1>1, <1>8, Attempts DEF Send, AfterSend, Notifies
    <2>3. m(pc, k) \in Notifies
      BY <1>1, <2>1, <2>2 DEF Notifies
    <2>4. NoteSane(m(pc, k))
      BY <1>1, <2>1, <2>2 DEF Notifies, NoteSane
    <2> QED
      BY <2>2, <2>3, <2>4
  <1> QED
    BY <1>3, <1>4, <1>5, <1>6, <1>7, <1>8 DEF Notify

LEMMA OnwardTypes ==
  ASSUME Sane, NEW others \in SUBSET Users
  PROVE  /\ Onward(others) \in Drains
         /\ Onward(others).left = {}
         /\ Onward(others).read = {}
         /\ Onward(others).pc \in {"idle", "users"}
  <1> USE PushAssumption
  <1>1. Asleep \in Drains
    BY DEF Asleep, Drains
  <1>2. drain.now \in 0 .. Hours - 1
    BY DEF Sane, TypeOK, Drains
  <1>3. CASE others = {}
    BY <1>1, <1>3 DEF Onward, Asleep
  <1>4. CASE others # {}
    <2>1. Onward(others) = [Asleep EXCEPT !.pc = "users", !.now = drain.now, !.users = others]
      BY <1>4 DEF Onward
    <2>2. Onward(others) \in Drains
      BY <1>1, <1>2, <2>1 DEF Drains
    <2> QED
      BY <2>1, <2>2 DEF Asleep
  <1> QED
    BY <1>3, <1>4

DrainOK(d) ==
  /\ d \in Drains
  /\ d.left # {} \/ d.pc = "send" => d.item \in Row
  /\ d.pc = "send" => d.sub \in Subs

(* Whatever becomes of the reading, what goes on are the oldest rows.      *)
LEMMA Reading ==
  ASSUME queue \in SUBSET Row, ReadRows
  PROVE  \/ drain' = Onward(drain.users)
         \/ \E rows \in SUBSET queue :
              /\ GoOnWith(rows)
              /\ \A r \in queue \ rows :
                   r.user = drain.user => \A q \in rows : q.id < r.id
  <1> DEFINE mine == {r \in queue : r.user = drain.user}
             older(bad) == {r \in mine : r.id < bad.id}
  <1>1. CASE GoOnWith(mine)
    BY <1>1
  <1>2. ASSUME NEW bad \in mine, GoOnWith(older(bad))
        PROVE  \E rows \in SUBSET queue :
                 /\ GoOnWith(rows)
                 /\ \A r \in queue \ rows :
                      r.user = drain.user => \A q \in rows : q.id < r.id
    <2>1. \A r \in queue \ older(bad) : r.user = drain.user => ~(r.id < bad.id)
      OBVIOUS
    <2>2. \A r \in queue : r.id \in Nat
      BY DEF Row
    <2>3. \A r \in queue \ older(bad) :
            r.user = drain.user => \A q \in older(bad) : q.id < r.id
      BY <2>1, <2>2
    <2>4. older(bad) \in SUBSET queue
      OBVIOUS
    <2> HIDE DEF older
    <2> QED
      BY <1>2, <2>3, <2>4
  <1> QED
    BY <1>1, <1>2 DEF ReadRows

LEMMA DrainTypes ==
  ASSUME Sane, DrainStep \/ Wake
  PROVE  drain' \in Drains /\ DrainSane'
  <1> DEFINE d == drain
  <1>1. d \in Drains /\ DrainOK(d) /\ d.users \in SUBSET Users
    BY DEF Sane, TypeOK, DrainOK, DrainSane, Drains
  <1>2. queue \in SUBSET Row /\ hour \in 0 .. Hours - 1
    BY DEF Sane, TypeOK
  <1> SUFFICES DrainOK(drain')
    BY DEF DrainOK, DrainSane
  <1>3. ASSUME NEW others \in SUBSET Users, drain' = Onward(others)
        PROVE  DrainOK(drain')
    BY <1>3, OnwardTypes DEF DrainOK
  <1>4. CASE Wake
    <2>1. PICK woken \in SUBSET {r.user : r \in queue} :
            drain' = [d EXCEPT !.pc = "users", !.now = hour, !.users = woken]
      BY <1>4 DEF Wake
    <2>2. woken \in SUBSET Users
      BY <1>2, <2>1 DEF Row
    <2> QED
      BY <1>1, <1>2, <2>1, <2>2 DEF DrainOK, Drains
  <1>5. ASSUME NEW u \in Users, Drain(u) PROVE DrainOK(drain')
    <2>1. CASE drain' = Onward(d.users \ {u})
      BY <1>1, <1>3, <2>1
    <2>2. CASE drain' = [d EXCEPT !.users = d.users \ {u}, !.user = u, !.pc = "rows"]
      BY <1>1, <1>5, <2>2 DEF Drain, DrainOK, Drains
    <2> QED
      BY <1>5, <2>1, <2>2 DEF Drain
  <1>6. CASE ReadRows
    <2>1. CASE drain' = Onward(d.users)
      BY <1>1, <1>3, <2>1
    <2>2. ASSUME NEW rows \in SUBSET queue, GoOnWith(rows) PROVE DrainOK(drain')
      <3> DEFINE pc == IF rows = {} THEN "items" ELSE "subs"
                 m == [d EXCEPT !.read = rows, !.items = rows, !.pc = pc]
      <3>1. rows \in SUBSET Row /\ pc \in {"items", "subs"} /\ d.pc = "rows"
        BY <1>2, <1>6 DEF ReadRows
      <3>2. drain' = m
        BY <2>2 DEF GoOnWith
      <3> HIDE DEF pc
      <3>3. m \in Drains
        BY <1>1, <3>1 DEF Drains
      <3>4. m.left = d.left /\ m.item = d.item /\ m.pc # "send"
        BY <1>1, <3>1 DEF Drains
      <3> QED
        BY <1>1, <3>2, <3>3, <3>4 DEF DrainOK
    <2> QED
      BY <1>2, <1>6, <2>1, <2>2, Reading
  <1>7. CASE ListUser
    <2>1. CASE drain' = Onward(d.users)
      BY <1>1, <1>3, <2>1
    <2>2. CASE drain' = [d EXCEPT !.subs = {s \in Subs : owner[s] = d.user}, !.pc = "items"]
      BY <1>1, <1>7, <2>2 DEF ListUser, DrainOK, Drains
    <2> QED
      BY <1>7, <2>1, <2>2 DEF ListUser
  <1>8. ASSUME NEW r \in d.items, NextItem(r) PROVE DrainOK(drain')
    <2> DEFINE taken == [d EXCEPT !.items = d.items \ {r}, !.item = r]
    <2>1. r \in Row /\ d.pc = "items" /\ d.left = {}
      BY <1>1, <1>8 DEF NextItem, Drains
    <2>2. taken \in Drains /\ taken.item = r /\ taken.pc = "items"
      BY <1>1, <2>1 DEF Drains
    <2>3. taken.excused = d.excused /\ taken.left = {}
      BY <1>1, <2>1 DEF Drains
    <2> HIDE DEF taken
    <2>4. CASE drain' = [taken EXCEPT !.excused = d.excused \cup {r}]
      BY <1>1, <2>1, <2>2, <2>3, <2>4 DEF DrainOK, Drains
    <2>5. CASE drain' = [taken EXCEPT !.left = d.subs]
      BY <1>1, <2>1, <2>2, <2>3, <2>5 DEF DrainOK, Drains
    <2> QED
      BY <1>8, <2>4, <2>5 DEF NextItem, taken
  <1>9. ASSUME NEW s \in Subs, NextDevice(s) PROVE DrainOK(drain')
    <2>1. d.pc = "items" /\ s \in d.left /\ d.item \in Row
      BY <1>1, <1>9 DEF NextDevice, DrainOK
    <2>2. CASE drain' = [d EXCEPT !.left = {}, !.excused = d.excused \cup {d.item}]
      BY <1>1, <2>1, <2>2 DEF DrainOK, Drains
    <2>3. CASE drain' = [d EXCEPT !.pc = "send", !.sub = s, !.left = d.left \ {s},
                                  !.tries = 1]
      BY <1>1, <2>1, <2>3, Attempts DEF DrainOK, Drains
    <2> QED
      BY <1>9, <2>2, <2>3 DEF NextDevice
  <1>10. CASE Push
    <2> DEFINE m(pc, k) == [d EXCEPT !.pc = pc, !.tries = k,
                                     !.tried = d.tried \cup {<<d.item, d.sub>>}]
    <2>1. d.pc = "send" /\ d.item \in Row /\ d.sub \in Subs
      BY <1>1, <1>10 DEF Push, DrainOK
    <2>2. PICK pc \in {"items", "send"}, k \in 0 .. maxIntentos : drain' = m(pc, k)
      BY <1>1, <1>10, Attempts DEF Push, AfterPush, Drains
    <2>3. <<d.item, d.sub>> \in Row \X Subs
      BY <2>1
    <2>4. d.tried \cup {<<d.item, d.sub>>} \in SUBSET (Row \X Subs)
      BY <1>1, <2>3 DEF Drains
    <2>5. m(pc, k) \in Drains
      BY <1>1, <2>2, <2>4 DEF Drains
    <2>6. m(pc, k).item = d.item /\ m(pc, k).sub = d.sub
      BY <1>1 DEF Drains
    <2> QED
      BY <2>1, <2>2, <2>5, <2>6 DEF DrainOK
  <1>11. CASE Clear
    BY <1>1, <1>3, <1>11 DEF Clear
  <1> QED
    BY <1>4, <1>5, <1>6, <1>7, <1>8, <1>9, <1>10, <1>11 DEF DrainStep

LEMMA SaneStep == Sane /\ [Next]_vars => Sane'
  <1> SUFFICES ASSUME Sane, [Next]_vars PROVE Sane'
    OBVIOUS
  <1>1. TypeOK /\ NotifySane /\ DrainSane
    BY DEF Sane
  <1>2. changes' \in 0 .. MaxChanges
    <2>1. \A e : Change(e) => changes' \in 0 .. MaxChanges
      BY <1>1, PushAssumption DEF Change, TypeOK
    <2>2. Undisturbed => changes' \in 0 .. MaxChanges
      BY <1>1 DEF Undisturbed, TypeOK
    <2>3. ASSUME NEW a \in Alerts, Notify(a) PROVE changes' \in 0 .. MaxChanges
      BY <2>1, <2>2, <2>3
      DEF Notify, List, Consider, CheckQuiet, Enqueue, CheckActive, Send, Forgotten
    <2>4. ASSUME Wake \/ DrainStep PROVE changes' \in 0 .. MaxChanges
      BY <2>1, <2>2, <2>4
      DEF Wake, DrainStep, Drain, ReadRows, ListUser, NextItem, NextDevice, Push, Clear, Forgotten
    <2>5. ASSUME NEW u \in Users, UserStep(u) PROVE changes' \in 0 .. MaxChanges
      BY <2>1, <2>5
      DEF UserStep, Subscribe, Unsubscribe, SetPreference, SetQuietHours, Watch
    <2>6. CASE NextHour \/ Restart
      BY <2>1, <2>2, <2>6 DEF NextHour, Restart
    <2>7. CASE UNCHANGED vars
      BY <1>1, <2>7 DEF vars, TypeOK
    <2> QED
      BY <2>3, <2>4, <2>5, <2>6, <2>7 DEF Next
  <1>3. notify' \in [Alerts -> Notifies] /\ NotifySane'
    <2>1. ASSUME UNCHANGED notify PROVE notify' \in [Alerts -> Notifies] /\ NotifySane'
      BY <1>1, <2>1 DEF TypeOK, NotifySane
    <2>2. ASSUME NEW a \in Alerts, Notify(a)
          PROVE  notify' \in [Alerts -> Notifies] /\ NotifySane'
      BY <2>2, NotifyTypes
    <2>3. ASSUME Wake \/ DrainStep PROVE UNCHANGED notify
      BY <2>3 DEF Wake, DrainStep, Drain, ReadRows, ListUser, NextItem, NextDevice, Push, Clear
    <2>4. ASSUME NEW u \in Users, UserStep(u) PROVE UNCHANGED notify
      BY <2>4 DEF UserStep, Subscribe, Unsubscribe, SetPreference, SetQuietHours, Watch
    <2>5. CASE Restart
      <3> DEFINE over == [Unborn EXCEPT !.pc = "next"]
      <3>1. over \in Notifies /\ NoteSane(over)
        BY Attempts DEF Notifies, NoteSane, Unborn, Fates
      <3>2. \A a \in Alerts : notify'[a] \in {notify[a], over}
        BY <2>5 DEF Restart
      <3> HIDE DEF over
      <3> QED
        BY <1>1, <2>5, <3>1, <3>2 DEF Restart, TypeOK, NotifySane
    <2>6. CASE NextHour \/ UNCHANGED vars
      BY <2>1, <2>6 DEF NextHour, vars
    <2> QED
      BY <2>1, <2>2, <2>3, <2>4, <2>5, <2>6 DEF Next
  <1>4. drain' \in Drains /\ DrainSane'
    <2>1. ASSUME UNCHANGED drain PROVE drain' \in Drains /\ DrainSane'
      BY <1>1, <2>1 DEF TypeOK, DrainSane
    <2>2. ASSUME NEW a \in Alerts, Notify(a) PROVE UNCHANGED drain
      BY <2>2 DEF Notify, List, Consider, CheckQuiet, Enqueue, CheckActive, Send
    <2>3. CASE Wake \/ DrainStep
      BY <2>3, DrainTypes
    <2>4. ASSUME NEW u \in Users, UserStep(u) PROVE UNCHANGED drain
      BY <2>4 DEF UserStep, Subscribe, Unsubscribe, SetPreference, SetQuietHours, Watch
    <2>5. CASE Restart
      <3>1. Asleep \in Drains
        BY PushAssumption DEF Asleep, Drains
      <3> QED
        BY <2>5, <3>1 DEF Restart, DrainSane, Asleep
    <2>6. CASE NextHour \/ UNCHANGED vars
      BY <2>1, <2>6 DEF NextHour, vars
    <2> QED
      BY <2>1, <2>2, <2>3, <2>4, <2>5, <2>6 DEF Next
  <1>5. owner' \in [Subs -> Users \cup {Nobody}] /\ deleted' \in SUBSET Subs
    <2>1. ASSUME UNCHANGED <<owner, deleted>>
          PROVE  owner' \in [Subs -> Users \cup {Nobody}] /\ deleted' \in SUBSET Subs
      BY <1>1, <2>1 DEF TypeOK
    <2>2. ASSUME NEW s \in Subs, Forget(s)
          PROVE  owner' \in [Subs -> Users \cup {Nobody}] /\ deleted' \in SUBSET Subs
      BY <1>1, <2>2 DEF TypeOK, Forget
    <2>3. ASSUME NEW a \in Alerts, Notify(a)
          PROVE  UNCHANGED <<owner, deleted>> \/ \E s \in Subs : Forget(s)
      BY <1>1, <2>3 DEF Notify, List, Consider, CheckQuiet, Enqueue, CheckActive, Send,
                       tables, Forgotten, NotifySane, NoteSane
    <2>4. ASSUME Wake \/ DrainStep
          PROVE  UNCHANGED <<owner, deleted>> \/ \E s \in Subs : Forget(s)
      BY <1>1, <2>4 DEF Wake, DrainStep, Drain, ReadRows, ListUser, NextItem, NextDevice,
                       Push, Clear, tables, Forgotten, DrainSane
    <2>5. ASSUME NEW u \in Users, UserStep(u)
          PROVE  owner' \in [Subs -> Users \cup {Nobody}] /\ deleted' \in SUBSET Subs
      BY <1>1, <2>2, <2>5
      DEF UserStep, Subscribe, Unsubscribe, SetPreference, SetQuietHours, Watch, tables, TypeOK
    <2>6. CASE NextHour \/ Restart \/ UNCHANGED vars
      BY <2>1, <2>6 DEF NextHour, Restart, vars, tables
    <2> QED
      BY <2>1, <2>2, <2>3, <2>4, <2>5, <2>6 DEF Next
  <1> DEFINE Rest == /\ muted \in [Users -> SUBSET Kinds]
                     /\ window \in [Users -> Windows \cup {NoWindow}]
                     /\ watching \in SUBSET Users
                     /\ hour \in 0 .. Hours - 1
  <1>6. Rest'
    <2>1. ASSUME UNCHANGED <<muted, window, watching, hour>> PROVE Rest'
      BY <1>1, <2>1 DEF TypeOK
    <2>2. ASSUME NEW a \in Alerts, Notify(a) PROVE UNCHANGED <<muted, window, watching, hour>>
      BY <2>2 DEF Notify, List, Consider, CheckQuiet, Enqueue, CheckActive, Send, tables
    <2>3. ASSUME Wake \/ DrainStep PROVE UNCHANGED <<muted, window, watching, hour>>
      BY <2>3 DEF Wake, DrainStep, Drain, ReadRows, ListUser, NextItem, NextDevice, Push,
                  Clear, tables
    <2>4. ASSUME NEW u \in Users, UserStep(u) PROVE Rest'
      <3>1. ASSUME NEW s \in Subs, Subscribe(u, s) \/ Unsubscribe(u, s) PROVE Rest'
        BY <2>1, <3>1 DEF Subscribe, Unsubscribe
      <3>2. ASSUME NEW k \in Kinds, SetPreference(u, k) PROVE Rest'
        BY <1>1, <3>2 DEF SetPreference, TypeOK
      <3>3. ASSUME NEW w \in Windows \cup {NoWindow}, SetQuietHours(u, w) PROVE Rest'
        BY <1>1, <3>3 DEF SetQuietHours, TypeOK
      <3>4. CASE Watch(u)
        BY <1>1, <3>4 DEF Watch, tables, TypeOK
      <3> QED
        BY <2>4, <3>1, <3>2, <3>3, <3>4 DEF UserStep
    <2>5. CASE NextHour
      BY <1>1, <2>5, PushAssumption DEF NextHour, tables, TypeOK
    <2>6. CASE Restart
      BY <1>1, <2>6 DEF Restart, tables, TypeOK
    <2>7. CASE UNCHANGED vars
      BY <2>1, <2>7 DEF vars, tables
    <2> QED
      BY <2>1, <2>2, <2>3, <2>4, <2>5, <2>6, <2>7 DEF Next
  <1>7. queue' \in SUBSET Row /\ lastRow' \in Nat /\ enqueued' \in SUBSET Row
    <2>1. ASSUME UNCHANGED queueVars
          PROVE  queue' \in SUBSET Row /\ lastRow' \in Nat /\ enqueued' \in SUBSET Row
      BY <1>1, <2>1 DEF TypeOK, queueVars
    <2>2. ASSUME NEW a \in Alerts, Enqueue(a)
          PROVE  queue' \in SUBSET Row /\ lastRow' \in Nat /\ enqueued' \in SUBSET Row
      BY <1>1, <2>1, <2>2 DEF Enqueue, TypeOK, NotifySane, NoteSane, Row
    <2>3. ASSUME NEW a \in Alerts, Notify(a), ~Enqueue(a) PROVE UNCHANGED queueVars
      BY <2>3 DEF Notify, List, Consider, CheckQuiet, CheckActive, Send
    <2>4. ASSUME Wake \/ DrainStep
          PROVE  queue' \in SUBSET Row /\ lastRow' \in Nat /\ enqueued' \in SUBSET Row
      BY <1>1, <2>1, <2>4
      DEF Wake, DrainStep, Drain, ReadRows, ListUser, NextItem, NextDevice, Push, Clear, TypeOK
    <2>5. ASSUME NEW u \in Users, UserStep(u) PROVE UNCHANGED queueVars
      BY <2>5 DEF UserStep, Subscribe, Unsubscribe, SetPreference, SetQuietHours, Watch
    <2>6. CASE NextHour \/ Restart \/ UNCHANGED vars
      BY <2>1, <2>6 DEF NextHour, Restart, vars
    <2> QED
      BY <2>1, <2>2, <2>3, <2>4, <2>5, <2>6 DEF Next
  <1> QED
    BY <1>2, <1>3, <1>4, <1>5, <1>6, <1>7 DEF Sane, TypeOK

(* Every table, every goroutine's working set and the number of attempts   *)
(* of a send keep their types, for any users, subscriptions and alerts.    *)
THEOREM PushTypes == Spec => []TypeOK
  <1>1. Sane => TypeOK
    BY DEF Sane
  <1> QED
    BY SaneInit, SaneStep, <1>1, PTL DEF Spec

-----------------------------------------------------------------------------
(* The fate of an alert for a user is decided once.  While a goroutine is  *)
(* deciding it, it is still open; what was tried was decided "send"; and   *)
(* a critical alert is only ever sent, to each device that was listed.     *)
FateNote(n, a) ==
  /\ n.pc \in {"quiet", "enqueue"}
       => n.fate[n.listed[n.sub]] = "none" /\ a \notin Critical
  /\ n.pc \in {"active", "send"} => n.fate[n.listed[n.sub]] = "send"
  /\ \A s \in n.tried : n.listed[s] \in Users /\ n.fate[n.listed[s]] = "send"
  /\ a \in Critical =>
       /\ \A u \in Users : n.fate[u] \in {"none", "send"}
       /\ \A s \in Subs :
            n.listed[s] # Nobody =>
              s \in n.todo \cup n.tried \/ (n.pc \in {"active", "send"} /\ s = n.sub)

(* The goroutine of an alert after a restart.                              *)
Over == [Unborn EXCEPT !.pc = "next"]

FateInv ==
  /\ \A a \in Alerts : FateNote(notify[a], a)
  /\ \A r \in enqueued :
       /\ r.alert \notin Critical
       /\ notify[r.alert].fate[r.user] = "queue" \/ notify[r.alert] = Over
  /\ \A r, q \in enqueued : r.user = q.user /\ r.alert = q.alert => r = q

LEMMA FateInit == Init => FateInv
  BY DEF Init, FateInv, FateNote, Unborn

LEMMA FateImplies == Sane /\ FateInv => OneFate /\ CritReachesAll
  <1> SUFFICES ASSUME Sane, FateInv PROVE OneFate /\ CritReachesAll
    OBVIOUS
  <1>1. enqueued \in SUBSET Row
    BY DEF Sane, TypeOK
  <1>2. ASSUME NEW r \in enqueued, NEW s \in notify[r.alert].tried
        PROVE  notify[r.alert].listed[s] # r.user
    <2>1. r.alert \in Alerts
      BY <1>1 DEF Row
    <2>2. notify[r.alert].fate[notify[r.alert].listed[s]] = "send"
      BY <1>2, <2>1 DEF FateInv, FateNote
    <2>3. notify[r.alert] # Over
      BY <1>2 DEF Over, Unborn
    <2> QED
      BY <2>2, <2>3 DEF FateInv
  <1>3. CritReachesAll
    <2> SUFFICES ASSUME NEW a \in Critical, notify[a].pc = "next", notify[a].todo = {},
                        NEW s \in Subs, notify[a].listed[s] # Nobody
                 PROVE  s \in notify[a].tried
      BY DEF CritReachesAll, FateInv
    <2> QED
      BY PushAssumption DEF FateInv, FateNote
  <1> QED
    BY <1>2, <1>3 DEF OneFate, FateInv

(* One step of Notify keeps the note, and never reopens a queued fate.     *)
LEMMA NotifyFates ==
  ASSUME Sane, FateInv, NEW a \in Alerts, Notify(a)
  PROVE  \E m \in Notifies :
           /\ Goto(a, m)
           /\ FateNote(m, a)
           /\ notify[a] # Over
           /\ \A u \in Users : notify[a].fate[u] = "queue" => m.fate[u] = "queue"
           /\ Enqueue(a) =>
                /\ m.fate[notify[a].listed[notify[a].sub]] = "queue"
                /\ notify[a].fate[notify[a].listed[notify[a].sub]] = "none"
                /\ a \notin Critical
  <1> DEFINE n == notify[a]
             Kept(m) == /\ FateNote(m, a)
                        /\ \A u \in Users : n.fate[u] = "queue" => m.fate[u] = "queue"
  <1>1. n \in Notifies /\ NoteSane(n) /\ FateNote(n, a) /\ notify' \in [Alerts -> Notifies]
    BY NotifyTypes DEF Sane, TypeOK, NotifySane, FateInv
  <1>2. n # Over
    BY DEF Over, Unborn, Notify, List, Consider, CheckQuiet, Enqueue, CheckActive, Send
  <1>3. \A m : Goto(a, m) => m = notify'[a] /\ m \in Notifies
    BY <1>1 DEF Goto, Sane, TypeOK
  <1>4. CASE List(a)
    <2>1. n = Unborn
      BY <1>1, <1>4 DEF List, NoteSane
    <2>2. ~Enqueue(a)
      BY <2>1 DEF Enqueue, Unborn
    <2> DEFINE listed == [Unborn EXCEPT !.pc = "next", !.listed = owner,
                                        !.todo = {s \in Subs : owner[s] # Nobody}]
    <2>3. Kept(listed) /\ Kept([Unborn EXCEPT !.pc = "next"])
      BY <2>1 DEF FateNote, Unborn
    <2> QED
      BY <1>2, <1>3, <1>4, <2>2, <2>3 DEF List
  <1>5. ASSUME NEW s \in Subs, Consider(a, s)
        PROVE  \E m \in Notifies : Goto(a, m) /\ Kept(m)
    <2> DEFINE u == n.listed[s]
               m(pc, f) == [n EXCEPT !.pc = pc, !.sub = s, !.todo = n.todo \ {s},
                                     !.fate = [n.fate EXCEPT ![n.listed[s]] = f]]
    <2>1. s \in n.todo /\ u \in Users /\ n.pc = "next" /\ n.fate \in [Users -> Fates]
      BY <1>1, <1>5 DEF Consider, NoteSane, Notifies
    <2>2. PICK pc \in {"next", "quiet", "active"}, f \in Fates :
            /\ Become(a, s, pc, f)
            /\ n.fate[u] \in {"none", f}
            /\ pc = "quiet" => f = "none" /\ a \notin Critical
            /\ pc = "active" => f = "send"
            /\ a \in Critical => pc = "active"
      <3>1. a \in Critical => n.fate[u] \in {"none", "send"}
        BY <1>1, <2>1 DEF FateNote
      <3>2. CASE n.fate[u] = "none"
        BY <1>5, <2>1, <3>2 DEF Consider, Fates
      <3>3. CASE n.fate[u] # "none" /\ n.fate[u] = "send"
        <4>1. Become(a, s, "active", "send")
          BY <1>5, <3>3 DEF Consider
        <4> QED
          BY <3>3, <4>1 DEF Fates
      <3>4. CASE n.fate[u] # "none" /\ n.fate[u] # "send"
        <4>1. Become(a, s, "next", n.fate[u])
          BY <1>5, <3>4 DEF Consider
        <4> QED
          BY <2>1, <3>1, <3>4, <4>1
      <3> QED
        BY <3>2, <3>3, <3>4
    <2> DEFINE k == m(pc, f)
    <2>3. /\ k.pc = pc /\ k.sub = s /\ k.todo = n.todo \ {s} /\ k.listed = n.listed
          /\ k.tried = n.tried /\ k.fate = [n.fate EXCEPT ![u] = f]
      BY <1>1 DEF Notifies
    <2>4. Goto(a, k)
      BY <2>2 DEF Become
    <2> HIDE DEF k, m
    <2>5. \A v \in Users : k.fate[v] = IF v = u THEN f ELSE n.fate[v]
      BY <2>1, <2>3
    <2>6. Kept(k)
      BY <1>1, <2>1, <2>2, <2>3, <2>5 DEF FateNote
    <2> QED
      BY <1>3, <2>4, <2>6
  <1>6. CASE CheckQuiet(a)
    <2> DEFINE u == n.listed[n.sub]
               queued == [n EXCEPT !.pc = "enqueue"]
               sent == [n EXCEPT !.pc = "active", !.fate = [n.fate EXCEPT ![u] = "send"]]
    <2>1. n.pc = "quiet" /\ n.sub \in Subs /\ u \in Users /\ n.fate[u] = "none" /\ a \notin Critical
      BY <1>1, <1>6 DEF CheckQuiet, NoteSane, FateNote
    <2>2. Kept(queued)
      BY <1>1, <2>1 DEF FateNote, Notifies
    <2>3. Kept(sent)
      <3>1. \A v \in Users : sent.fate[v] = IF v = u THEN "send" ELSE n.fate[v]
        BY <1>1, <2>1 DEF Notifies
      <3>2. sent.pc = "active" /\ sent.sub = n.sub /\ sent.listed = n.listed /\ sent.tried = n.tried
        BY <1>1 DEF Notifies
      <3> HIDE DEF sent
      <3> QED
        BY <1>1, <2>1, <3>1, <3>2 DEF FateNote
    <2>4. ~Enqueue(a)
      BY <2>1 DEF Enqueue
    <2> QED
      BY <1>2, <1>3, <1>6, <2>2, <2>3, <2>4 DEF CheckQuiet
  <1>7. CASE Enqueue(a)
    <2> DEFINE u == n.listed[n.sub]
               m == [n EXCEPT !.pc = "next", !.fate = [n.fate EXCEPT ![u] = "queue"]]
    <2>1. n.pc = "enqueue" /\ n.sub \in Subs /\ u \in Users /\ n.fate[u] = "none" /\ a \notin Critical
      BY <1>1, <1>7 DEF Enqueue, NoteSane, FateNote
    <2>2. \A v \in Users : m.fate[v] = IF v = u THEN "queue" ELSE n.fate[v]
      BY <1>1, <2>1 DEF Notifies
    <2>3. m.pc = "next" /\ m.listed = n.listed /\ m.tried = n.tried
      BY <1>1 DEF Notifies
    <2>4. Goto(a, m)
      BY <1>7 DEF Enqueue
    <2> HIDE DEF m
    <2>5. Kept(m)
      BY <1>1, <2>1, <2>2, <2>3 DEF FateNote
    <2> QED
      BY <1>2, <1>3, <2>1, <2>2, <2>4, <2>5
  <1>8. CASE CheckActive(a)
    <2> DEFINE skip == [n EXCEPT !.pc = "next"]
               go == [n EXCEPT !.pc = "send", !.tries = 1]
    <2>1. n.pc = "active"
      BY <1>8 DEF CheckActive
    <2>2. a \notin Critical => Kept(skip)
      BY <1>1, <2>1 DEF FateNote, Notifies
    <2>3. Kept(go)
      BY <1>1, <2>1 DEF FateNote, Notifies
    <2>4. (a \notin Critical /\ Goto(a, skip)) \/ Goto(a, go)
      BY <1>8 DEF CheckActive
    <2>5. ~Enqueue(a)
      BY <2>1 DEF Enqueue
    <2> QED
      BY <1>2, <1>3, <2>2, <2>3, <2>4, <2>5
  <1>9. CASE Send(a)
    <2> DEFINE m(pc, k) == [n EXCEPT !.pc = pc, !.tries = k, !.tried = n.tried \cup {n.sub}]
    <2>1. n.pc = "send" /\ n.sub \in Subs /\ n.listed[n.sub] \in Users
      BY <1>1, <1>9 DEF Send, NoteSane
    <2>2. PICK pc \in {"next", "send"}, k \in 0 .. maxIntentos : Goto(a, m(pc, k))
      BY <1>1, <1>9, Attempts DEF Send, AfterSend, Notifies
    <2>3. Kept(m(pc, k))
      BY <1>1, <2>1, <2>2 DEF FateNote, Notifies
    <2>4. ~Enqueue(a)
      BY <2>1 DEF Enqueue
    <2> QED
      BY <1>2, <1>3, <2>2, <2>3, <2>4
  <1> QED
    BY <1>2, <1>4, <1>5, <1>6, <1>7, <1>8, <1>9 DEF Notify, Consider, Enqueue

LEMMA FateStep == Sane /\ FateInv /\ [Next]_vars => FateInv'
  <1> SUFFICES ASSUME Sane, FateInv, [Next]_vars PROVE FateInv'
    OBVIOUS
  <1>1. ASSUME UNCHANGED <<notify, enqueued>> PROVE FateInv'
    BY <1>1 DEF FateInv
  <1>2. ASSUME NEW a \in Alerts, Notify(a) PROVE FateInv'
    <2> DEFINE n == notify[a]
               u == n.listed[n.sub]
    <2>1. PICK m \in Notifies :
            /\ Goto(a, m)
            /\ FateNote(m, a)
            /\ n # Over
            /\ \A v \in Users : n.fate[v] = "queue" => m.fate[v] = "queue"
            /\ Enqueue(a) => m.fate[u] = "queue" /\ n.fate[u] = "none" /\ a \notin Critical
      BY <1>2, NotifyFates
    <2>2. \A b \in Alerts : notify'[b] = IF b = a THEN m ELSE notify[b]
      BY <2>1 DEF Goto, Sane, TypeOK
    <2>3. \A b \in Alerts : FateNote(notify'[b], b)
      BY <2>1, <2>2 DEF FateInv
    <2>4. enqueued \in SUBSET Row
      BY DEF Sane, TypeOK
    <2>5. \A r \in enqueued :
            /\ r.alert \notin Critical
            /\ notify'[r.alert].fate[r.user] = "queue" \/ notify'[r.alert] = Over
      BY <2>1, <2>2, <2>4 DEF FateInv, Row
    <2>6. CASE UNCHANGED enqueued
      BY <2>3, <2>5, <2>6 DEF FateInv
    <2>7. CASE Enqueue(a) /\ enqueued' # enqueued
      <3> DEFINE row == [id |-> lastRow + 1, user |-> u, alert |-> a]
      <3>1. enqueued' = enqueued \cup {row} /\ row.user = u /\ row.alert = a
        BY <2>7 DEF Enqueue, queueVars
      <3>2. \A r \in enqueued : ~(r.user = u /\ r.alert = a)
        BY <2>1, <2>7 DEF FateInv
      <3>3. notify'[a].fate[u] = "queue" /\ a \notin Critical
        BY <2>1, <2>2, <2>7
      <3> HIDE DEF row, u, n
      <3> QED
        BY <2>3, <2>5, <3>1, <3>2, <3>3 DEF FateInv
    <2>8. UNCHANGED enqueued \/ Enqueue(a)
      BY <1>2 DEF Notify, List, Consider, CheckQuiet, CheckActive, Send, queueVars
    <2> QED
      BY <2>6, <2>7, <2>8
  <1>3. CASE Wake \/ DrainStep
    BY <1>1, <1>3 DEF Wake, DrainStep, Drain, ReadRows, ListUser, NextItem, NextDevice, Push,
                      Clear, queueVars
  <1>4. ASSUME NEW u \in Users, UserStep(u) PROVE FateInv'
    BY <1>1, <1>4
    DEF UserStep, Subscribe, Unsubscribe, SetPreference, SetQuietHours, Watch, queueVars
  <1>5. CASE Restart
    <2>1. \A a \in Alerts : notify'[a] = IF notify[a].pc = "none" THEN notify[a] ELSE Over
      BY <1>5 DEF Restart, Over
    <2>2. \A a \in Alerts : FateNote(Over, a)
      BY DEF FateNote, Over, Unborn
    <2>3. \A a \in Alerts : notify[a].pc = "none" => notify[a] = Unborn
      BY DEF Sane, NotifySane, NoteSane
    <2>4. \A r \in enqueued : r.alert \in Alerts /\ r.user \in Users
      BY DEF Sane, TypeOK, Row
    <2>5. \A r \in enqueued : notify[r.alert].pc # "none"
      BY <2>3, <2>4 DEF FateInv, Unborn, Over
    <2> QED
      BY <1>5, <2>1, <2>2, <2>4, <2>5 DEF FateInv, Restart, queueVars
  <1>6. CASE NextHour \/ UNCHANGED vars
    BY <1>1, <1>6 DEF NextHour, vars, queueVars
  <1> QED
    BY <1>2, <1>3, <1>4, <1>5, <1>6 DEF Next

(* However preferences, quiet hours and devices change while Notify runs,  *)
(* a user gets an alert queued at most once and never both queued and      *)
(* pushed; and a critical alert is tried on every device that was listed.  *)
THEOREM PushFates == Spec => [](OneFate /\ CritReachesAll)
  <1>1. Init => Sane /\ FateInv
    BY SaneInit, FateInit
  <1>2. (Sane /\ FateInv) /\ [Next]_vars => (Sane /\ FateInv)'
    BY SaneStep, FateStep
  <1> QED
    BY <1>1, <1>2, FateImplies, PTL DEF Spec

(* A critical alert is never queued, and no preference, no quiet hour and  *)
(* no open application keeps Notify from trying it on a device it listed.  *)
THEOREM PushCritical == Spec => []CritReachesAll
  BY PushFates, PTL

-----------------------------------------------------------------------------
(* Where a row that the drain read is: still to come, excused, or with     *)
(* every device tried but those the drain is about to try.                 *)
Ahead(d, r, s) == r = d.item /\ (s \in d.left \/ (d.pc = "send" /\ s = d.sub))

Progress(d) ==
  /\ d.pc \in {"idle", "users", "rows"} => d.read = {}
  /\ d.pc = "subs" => d.read = d.items
  /\ d.pc \in {"items", "send"} =>
       \A r \in d.read :
         \/ r \in d.items \cup d.excused
         \/ \A s \in d.subs : <<r, s>> \in d.tried \/ Ahead(d, r, s)

LEMMA ProgressStep == Sane /\ Progress(drain) /\ [Next]_vars => Progress(drain')
  <1> SUFFICES ASSUME Sane, Progress(drain), [Next]_vars PROVE Progress(drain')
    OBVIOUS
  <1> DEFINE d == drain
  <1>1. d \in Drains /\ d.users \in SUBSET Users
    BY DEF Sane, TypeOK, Drains
  <1>2. ASSUME UNCHANGED drain PROVE Progress(drain')
    BY <1>2
  <1>3. ASSUME NEW others \in SUBSET Users, drain' = Onward(others) PROVE Progress(drain')
    BY <1>3, OnwardTypes DEF Progress
  <1>4. CASE Wake
    <2>1. d.pc = "idle" /\ drain'.pc = "users" /\ drain'.read = d.read
      BY <1>1, <1>4 DEF Wake, Drains
    <2> QED
      BY <2>1 DEF Progress
  <1>5. ASSUME NEW u \in Users, Drain(u) PROVE Progress(drain')
    <2>1. CASE drain' = Onward(d.users \ {u})
      BY <1>1, <1>3, <2>1
    <2>2. CASE drain' = [d EXCEPT !.users = d.users \ {u}, !.user = u, !.pc = "rows"]
      BY <1>1, <1>5, <2>2 DEF Drain, Progress, Drains
    <2> QED
      BY <1>5, <2>1, <2>2 DEF Drain
  <1>6. CASE ReadRows
    <2>1. CASE drain' = Onward(d.users)
      BY <1>1, <1>3, <2>1
    <2>2. ASSUME NEW rows \in SUBSET queue, GoOnWith(rows) PROVE Progress(drain')
      <3>1. /\ drain'.read = rows /\ drain'.items = rows
            /\ drain'.pc = IF rows = {} THEN "items" ELSE "subs"
        BY <1>1, <2>2 DEF GoOnWith, Drains
      <3> QED
        BY <3>1 DEF Progress
    <2> QED
      BY <1>6, <2>1, <2>2, Reading DEF Sane, TypeOK
  <1>7. CASE ListUser
    <2>1. CASE drain' = Onward(d.users)
      BY <1>1, <1>3, <2>1
    <2>2. CASE drain' = [d EXCEPT !.subs = {s \in Subs : owner[s] = d.user}, !.pc = "items"]
      <3>1. drain'.read = d.read /\ drain'.items = d.items /\ drain'.pc = "items"
        BY <1>1, <2>2 DEF Drains
      <3>2. d.read = d.items
        BY <1>7 DEF ListUser, Progress
      <3> QED
        BY <3>1, <3>2 DEF Progress
    <2> QED
      BY <1>7, <2>1, <2>2 DEF ListUser
  <1>8. ASSUME NEW r \in d.items, NextItem(r) PROVE Progress(drain')
    <2> DEFINE taken == [d EXCEPT !.items = d.items \ {r}, !.item = r]
    <2>1. d.pc = "items" /\ d.left = {}
      BY <1>8 DEF NextItem
    <2>2. \A q \in d.read : \/ q \in d.items \cup d.excused
                            \/ \A s \in d.subs : <<q, s>> \in d.tried
      BY <2>1 DEF Progress, Ahead
    <2>3. CASE drain' = [taken EXCEPT !.excused = d.excused \cup {r}]
      <3>1. /\ drain'.read = d.read /\ drain'.items = d.items \ {r} /\ drain'.pc = "items"
            /\ drain'.excused = d.excused \cup {r}
            /\ drain'.subs = d.subs /\ drain'.tried = d.tried
        BY <1>1, <2>1, <2>3 DEF Drains
      <3> QED
        BY <2>2, <3>1 DEF Progress
    <2>4. CASE drain' = [taken EXCEPT !.left = d.subs]
      <3>1. /\ drain'.read = d.read /\ drain'.items = d.items \ {r} /\ drain'.pc = "items"
            /\ drain'.excused = d.excused /\ drain'.item = r
            /\ drain'.subs = d.subs /\ drain'.tried = d.tried /\ drain'.left = d.subs
        BY <1>1, <2>1, <2>4 DEF Drains
      <3> QED
        BY <2>2, <3>1 DEF Progress, Ahead
    <2> QED
      BY <1>8, <2>3, <2>4 DEF NextItem
  <1>9. ASSUME NEW t \in Subs, NextDevice(t) PROVE Progress(drain')
    <2>1. d.pc = "items" /\ t \in d.left
      BY <1>9 DEF NextDevice
    <2>2. CASE drain' = [d EXCEPT !.left = {}, !.excused = d.excused \cup {d.item}]
      <3>1. /\ drain'.read = d.read /\ drain'.items = d.items /\ drain'.pc = "items"
            /\ drain'.excused = d.excused \cup {d.item}
            /\ drain'.subs = d.subs /\ drain'.tried = d.tried
        BY <1>1, <2>1, <2>2 DEF Drains
      <3> QED
        BY <2>1, <3>1 DEF Progress, Ahead
    <2>3. CASE drain' = [d EXCEPT !.pc = "send", !.sub = t, !.left = d.left \ {t},
                                  !.tries = 1]
      <3>1. /\ drain'.read = d.read /\ drain'.items = d.items /\ drain'.pc = "send"
            /\ drain'.excused = d.excused /\ drain'.item = d.item /\ drain'.sub = t
            /\ drain'.subs = d.subs /\ drain'.tried = d.tried /\ drain'.left = d.left \ {t}
        BY <1>1, <2>3 DEF Drains
      <3> QED
        BY <2>1, <3>1 DEF Progress, Ahead
    <2> QED
      BY <1>9, <2>2, <2>3 DEF NextDevice
  <1>10. CASE Push
    <2> DEFINE m(pc, k) == [d EXCEPT !.pc = pc, !.tries = k,
                                     !.tried = d.tried \cup {<<d.item, d.sub>>}]
    <2>1. d.pc = "send"
      BY <1>10 DEF Push
    <2>2. PICK pc \in {"items", "send"}, k \in 0 .. maxIntentos : drain' = m(pc, k)
      BY <1>1, <1>10, Attempts DEF Push, AfterPush, Drains
    <2>3. /\ drain'.read = d.read /\ drain'.items = d.items /\ drain'.pc = pc
          /\ drain'.excused = d.excused /\ drain'.item = d.item /\ drain'.sub = d.sub
          /\ drain'.subs = d.subs /\ drain'.left = d.left
          /\ drain'.tried = d.tried \cup {<<d.item, d.sub>>}
      BY <1>1, <2>2 DEF Drains
    <2> QED
      BY <2>1, <2>3 DEF Progress, Ahead
  <1>11. CASE Clear
    BY <1>1, <1>3, <1>11 DEF Clear
  <1>12. ASSUME NEW a \in Alerts, Notify(a) PROVE UNCHANGED drain
    BY <1>12 DEF Notify, List, Consider, CheckQuiet, Enqueue, CheckActive, Send
  <1>13. ASSUME NEW u \in Users, UserStep(u) PROVE UNCHANGED drain
    BY <1>13 DEF UserStep, Subscribe, Unsubscribe, SetPreference, SetQuietHours, Watch
  <1>14. CASE Restart
    BY <1>14 DEF Restart, Progress, Asleep
  <1>15. CASE NextHour \/ UNCHANGED vars
    BY <1>2, <1>15 DEF NextHour, vars
  <1> QED
    BY <1>2, <1>4, <1>5, <1>6, <1>7, <1>8, <1>9, <1>10, <1>11, <1>12, <1>13, <1>14, <1>15
    DEF Next, DrainStep

(* Rows leave the queue in Clear alone ...                                 *)
LEMMA OnlyClearDeletes ==
  ASSUME [Next]_vars, NEW r \in queue \ queue'
  PROVE  Clear
  <1>1. ASSUME NEW a \in Alerts, Notify(a) PROVE queue \subseteq queue'
    BY <1>1 DEF Notify, List, Consider, CheckQuiet, Enqueue, CheckActive, Send, queueVars
  <1>2. ASSUME Wake \/ DrainStep, ~Clear PROVE UNCHANGED queue
    BY <1>2 DEF Wake, DrainStep, Drain, ReadRows, ListUser, NextItem, NextDevice, Push,
                queueVars
  <1>3. ASSUME NEW u \in Users, UserStep(u) PROVE UNCHANGED queue
    BY <1>3
    DEF UserStep, Subscribe, Unsubscribe, SetPreference, SetQuietHours, Watch, queueVars
  <1>4. NextHour \/ Restart \/ UNCHANGED vars => UNCHANGED queue
    BY DEF NextHour, Restart, vars, queueVars
  <1> QED
    BY <1>1, <1>2, <1>3, <1>4 DEF Next

(* ... and Clear finds the drain through.                                  *)
LEMMA ProcessedStep ==
  ASSUME Sane, Progress(drain), [Next]_vars, NEW r \in queue \ queue', r \in drain.read
  PROVE  r \in drain.excused \/ \A s \in drain.subs : <<r, s>> \in drain.tried
  BY OnlyClearDeletes DEF Clear, Progress, Ahead

-----------------------------------------------------------------------------
(* What the queue holds besides what a drain read is newer: AUTOINCREMENT  *)
(* numbers a row above all there were, and a reading takes the oldest.     *)
QueueInv ==
  /\ \A r \in queue \cup drain.read : r.id <= lastRow
  /\ drain.pc \in {"subs", "items", "send"} =>
       \A r \in queue \ drain.read :
         r.user = drain.user => \A q \in drain.read : q.id < r.id

(* A user dealt with, or left for the next tick.                           *)
LEMMA OnwardQueue ==
  ASSUME Sane, QueueInv, NEW others \in SUBSET Users, drain' = Onward(others),
         queue' \subseteq queue, UNCHANGED lastRow
  PROVE  QueueInv'
  BY OnwardTypes DEF QueueInv

(* A step of the drain that neither reads nor clears.                      *)
LEMMA WithinQueue ==
  ASSUME QueueInv, UNCHANGED <<queue, lastRow>>,
         drain.pc \in {"subs", "items", "send"}, drain'.pc \in {"items", "send"},
         drain'.read = drain.read, drain'.user = drain.user
  PROVE  QueueInv'
  BY DEF QueueInv

LEMMA QueueStep == Sane /\ QueueInv /\ [Next]_vars => QueueInv'
  <1> SUFFICES ASSUME Sane, QueueInv, [Next]_vars PROVE QueueInv'
    OBVIOUS
  <1> DEFINE d == drain
  <1>1. /\ d \in Drains /\ d.users \in SUBSET Users /\ d.read \in SUBSET Row
        /\ queue \in SUBSET Row /\ lastRow \in Nat
    BY DEF Sane, TypeOK, Drains
  <1>2. ASSUME UNCHANGED <<drain, queue, lastRow>> PROVE QueueInv'
    BY <1>2 DEF QueueInv
  <1>3. ASSUME NEW others \in SUBSET d.users, drain' = Onward(others), UNCHANGED queueVars
        PROVE  QueueInv'
    BY <1>1, <1>3, OnwardQueue DEF queueVars
  <1>4. ASSUME NEW a \in Alerts, Notify(a) PROVE QueueInv'
    <2>1. UNCHANGED drain
      BY <1>4 DEF Notify, List, Consider, CheckQuiet, Enqueue, CheckActive, Send
    <2>2. CASE UNCHANGED queueVars
      BY <1>2, <2>1, <2>2 DEF queueVars
    <2>3. CASE Enqueue(a) /\ ~UNCHANGED queueVars
      <3>1. PICK row : /\ queue' = queue \cup {row}
                       /\ row.id = lastRow + 1
                       /\ lastRow' = lastRow + 1
        BY <2>3 DEF Enqueue
      <3>2. \A r \in queue \cup d.read : r.id \in Nat /\ r.id <= lastRow
        BY <1>1 DEF QueueInv, Row
      <3>3. \A r \in queue' \cup d.read : r.id <= lastRow'
        BY <1>1, <3>1, <3>2
      <3>4. \A q \in d.read : q.id < row.id
        BY <1>1, <3>1, <3>2
      <3> QED
        BY <2>1, <3>1, <3>3, <3>4 DEF QueueInv
    <2> QED
      BY <1>4, <2>2, <2>3 DEF Notify, List, Consider, CheckQuiet, CheckActive, Send
  <1>5. CASE Wake
    <2>1. drain'.pc = "users" /\ drain'.read = d.read
      BY <1>1, <1>5 DEF Wake, Drains
    <2>2. UNCHANGED <<queue, lastRow>>
      BY <1>5 DEF Wake, queueVars
    <2> QED
      BY <2>1, <2>2 DEF QueueInv
  <1>6. ASSUME NEW u \in Users, Drain(u) PROVE QueueInv'
    <2>1. CASE drain' = Onward(d.users \ {u})
      BY <1>3, <1>6, <2>1 DEF Drain
    <2>2. CASE drain' = [d EXCEPT !.users = d.users \ {u}, !.user = u, !.pc = "rows"]
      <3>1. drain'.pc = "rows" /\ drain'.read = d.read
        BY <1>1, <2>2 DEF Drains
      <3>2. UNCHANGED <<queue, lastRow>>
        BY <1>6 DEF Drain, queueVars
      <3> QED
        BY <3>1, <3>2 DEF QueueInv
    <2> QED
      BY <1>6, <2>1, <2>2 DEF Drain
  <1>7. CASE ReadRows
    <2>1. CASE drain' = Onward(d.users)
      BY <1>3, <1>7, <2>1 DEF ReadRows
    <2>2. ASSUME NEW rows \in SUBSET queue, GoOnWith(rows),
                 \A r \in queue \ rows : r.user = d.user => \A q \in rows : q.id < r.id
          PROVE  QueueInv'
      <3>1. drain'.read = rows /\ drain'.user = d.user
        BY <1>1, <2>2 DEF GoOnWith, Drains
      <3>2. UNCHANGED <<queue, lastRow>>
        BY <1>7 DEF ReadRows, queueVars
      <3> QED
        BY <2>2, <3>1, <3>2 DEF QueueInv
    <2> QED
      BY <1>1, <1>7, <2>1, <2>2, Reading
  <1>8. CASE ListUser
    <2>1. CASE drain' = Onward(d.users)
      BY <1>3, <1>8, <2>1 DEF ListUser
    <2>2. CASE drain' = [d EXCEPT !.subs = {s \in Subs : owner[s] = d.user}, !.pc = "items"]
      <3>1. /\ drain'.pc = "items" /\ drain'.read = d.read
            /\ drain'.user = d.user
        BY <1>1, <2>2 DEF Drains
      <3> QED
        BY <1>8, <3>1, WithinQueue DEF ListUser, queueVars
    <2> QED
      BY <1>8, <2>1, <2>2 DEF ListUser
  <1>9. ASSUME NEW r \in d.items, NextItem(r) PROVE QueueInv'
    <2>1. /\ drain'.pc = d.pc /\ drain'.read = d.read
          /\ drain'.user = d.user
      BY <1>1, <1>9 DEF NextItem, Drains
    <2> QED
      BY <1>9, <2>1, WithinQueue DEF NextItem, queueVars
  <1>10. ASSUME NEW t \in Subs, NextDevice(t) PROVE QueueInv'
    <2>1. /\ drain'.pc \in {"items", "send"} /\ drain'.read = d.read
          /\ drain'.user = d.user
      BY <1>1, <1>10 DEF NextDevice, Drains
    <2> QED
      BY <1>10, <2>1, WithinQueue DEF NextDevice, queueVars
  <1>11. CASE Push
    <2>1. /\ drain'.pc \in {"items", "send"} /\ drain'.read = d.read
          /\ drain'.user = d.user
      BY <1>1, <1>11 DEF Push, AfterPush, Drains
    <2> QED
      BY <1>11, <2>1, WithinQueue DEF Push, queueVars
  <1>12. CASE Clear
    BY <1>1, <1>12, OnwardQueue DEF Clear
  <1>13. ASSUME NEW u \in Users, UserStep(u) PROVE QueueInv'
    BY <1>2, <1>13
    DEF UserStep, Subscribe, Unsubscribe, SetPreference, SetQuietHours, Watch, queueVars
  <1>14. CASE Restart
    BY <1>14 DEF Restart, QueueInv, Asleep, queueVars
  <1>15. CASE NextHour \/ UNCHANGED vars
    BY <1>2, <1>15 DEF NextHour, vars, queueVars
  <1> QED
    BY <1>4, <1>5, <1>6, <1>7, <1>8, <1>9, <1>10, <1>11, <1>12, <1>13, <1>14, <1>15
    DEF Next, DrainStep

LEMMA UnreadStep ==
  ASSUME QueueInv, [Next]_vars, NEW r \in queue \ queue'
  PROVE  /\ r.user = drain.user
         /\ r \notin drain.read => \A q \in drain.read : q.id < r.id
  BY OnlyClearDeletes DEF Clear, QueueInv

(* Through failing statements, readings cut short, restarts and a push     *)
(* service that does not answer, a row that a drain read is deleted only   *)
(* after every device was tried or its user excused it; and of those it    *)
(* did not read, clearQueue takes none that is older than one it read.     *)
THEOREM PushProcessed == Spec => ReadThenProcessed
  <1>1. Init => Sane /\ Progress(drain) /\ QueueInv
    BY SaneInit DEF Init, Progress, QueueInv, Asleep
  <1>2. Sane /\ Progress(drain) /\ [Next]_vars => Progress(drain)'
    BY ProgressStep
  <1>3. Sane /\ QueueInv /\ [Next]_vars => QueueInv'
    BY QueueStep
  <1>4. Sane /\ Progress(drain) /\ QueueInv /\ [Next]_vars
          => [\A r \in queue \ queue' :
                /\ r.user = drain.user
                /\ r \in drain.read =>
                     r \in drain.excused \/ \A s \in drain.subs : <<r, s>> \in drain.tried
                /\ r \notin drain.read => \A q \in drain.read : q.id < r.id]_vars
    BY ProcessedStep, UnreadStep
  <1> QED
    BY <1>1, <1>2, <1>3, <1>4, SaneStep, PTL DEF Spec, ReadThenProcessed
=============================================================================
