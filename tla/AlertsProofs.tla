---------------------------- MODULE AlertsProofs ----------------------------
(***************************************************************************)
(* What holds of the alerts for any pools, disks, events and bounds.  The  *)
(* argument is ownership: each source and kind belongs to one goroutine,   *)
(* so that between its SELECT and its INSERT nobody else inserts a row of  *)
(* them, and a SELECT that found none leaves only acknowledged ones.       *)
(***************************************************************************)
EXTENDS Alerts, TLAPS

(* The goroutine that raises alerts of a source.                           *)
Owner(key) ==
  IF key.source[1] \in {"pool", "scrub"} THEN "zpool"
  ELSE IF key.source[1] \in {"disk", "smart"} THEN "smart" ELSE "events"

Owned == \A r \in Raisers : \A c \in About(r) : Owner(c.key) = r

(* What a goroutine in the middle of RaiseKind knows of the table.         *)
Inserting ==
  \A r \in Raisers :
    raiser[r].pc = "insert" /\ ~raiser[r].blind => Active(raiser[r].call.key) = {}

Holding ==
  \A r \in Raisers : raiser[r].pc \in {"update", "notify"} =>
    /\ raiser[r].row \in DOMAIN rows[raiser[r].call.key]
    /\ raiser[r].pc = "notify" => Row(r).heard = <<>>

(* An older alert was acknowledged before a later one was inserted.        *)
AckedFirst ==
  \A k \in Keys : \A i, j \in DOMAIN rows[k] :
    i < j => rows[k][i].acked \/ rows[k][j].blind

HeardOnce == \A k \in Keys : \A i \in DOMAIN rows[k] : Len(rows[k][i].heard) <= 1

(* The part of the invariant about the goroutines and the table.           *)
TableInv ==
  /\ raiser \in [Raisers -> Workers]
  /\ rows \in [Keys -> Seq(Rows)]
  /\ Owned /\ Inserting /\ Holding /\ AckedFirst /\ HeardOnce

IInv == TypeOK /\ TableInv

-----------------------------------------------------------------------------
(* The calls of the evaluations are calls, each of its owner.              *)
LEMMA PoolKeyTypes ==
  ASSUME NEW p \in Pools
  PROVE  /\ [source |-> <<"pool", p>>, kind |-> "pool_capacity"] \in Keys
         /\ [source |-> <<"pool", p>>, kind |-> "pool_status"] \in Keys
         /\ [source |-> <<"pool", p>>, kind |-> "pool_missing"] \in Keys
         /\ [source |-> <<"scrub", p>>, kind |-> "scrub_errors"] \in Keys
  BY DEF Keys, PollKeys

LEMMA DiskKeyTypes ==
  ASSUME NEW d \in Devs
  PROVE  /\ [source |-> <<"disk", d>>, kind |-> "disk_temp"] \in Keys
         /\ [source |-> <<"smart", d>>, kind |-> "smart_status"] \in Keys
  BY DEF Keys, PollKeys

LEMMA PoolCallsOwned ==
  ASSUME TypeOK, NEW p \in Pools
  PROVE  /\ PoolCalls(p) \in SUBSET Calls
         /\ \A c \in PoolCalls(p) : Owner(c.key) = "zpool"
<1>1. CASE pool[p] = Absent
  BY <1>1 DEF PoolCalls
<1>2. CASE pool[p] # Absent
  <2>1. pool[p] \in AnyPoolReading
    BY <1>2, AlertsAssumption DEF TypeOK
  <2>2. pool[p].cap \in Grades
    BY <2>1 DEF AnyPoolReading, Grades
  <2>3. \A c \in PoolCalls(p) :
          \/ c = Call("pool", p, "pool_capacity", pool[p].cap)
          \/ c.level \in Grades /\ c = Call("pool", p, "pool_status", c.level)
          \/ c.level \in Grades /\ c = Call("scrub", p, "scrub_errors", c.level)
    BY <1>2 DEF PoolCalls, Call, Grades
  <2>4. \A l \in Grades :
          /\ Call("pool", p, "pool_capacity", l) \in Calls
          /\ Call("pool", p, "pool_status", l) \in Calls
          /\ Call("scrub", p, "scrub_errors", l) \in Calls
    BY PoolKeyTypes DEF Call, Calls, Things
  <2>5. \A l \in Grades :
          /\ Owner(Call("pool", p, "pool_capacity", l).key) = "zpool"
          /\ Owner(Call("pool", p, "pool_status", l).key) = "zpool"
          /\ Owner(Call("scrub", p, "scrub_errors", l).key) = "zpool"
    BY DEF Call, Owner
  <2>. QED  BY <2>2, <2>3, <2>4, <2>5
<1>. QED  BY <1>1, <1>2

LEMMA DiskCallsOwned ==
  ASSUME TypeOK, NEW d \in Devs
  PROVE  /\ DiskCalls(d) \in SUBSET Calls
         /\ \A c \in DiskCalls(d) : Owner(c.key) = "smart"
<1>1. disk[d] \in AnyDiskReading
  BY AlertsAssumption DEF TypeOK
<1>2. disk[d].smart \in Grades
  BY <1>1 DEF AnyDiskReading, Grades
<1>3. \A c \in DiskCalls(d) :
        \/ c.level \in Grades /\ c = Call("disk", d, "disk_temp", c.level)
        \/ c = Call("smart", d, "smart_status", disk[d].smart)
  BY DEF DiskCalls, Call, Grades
<1>4. \A l \in Grades :
        /\ Call("disk", d, "disk_temp", l) \in Calls
        /\ Call("smart", d, "smart_status", l) \in Calls
  BY DiskKeyTypes DEF Call, Calls, Things
<1>5. \A l \in Grades :
        /\ Owner(Call("disk", d, "disk_temp", l).key) = "smart"
        /\ Owner(Call("smart", d, "smart_status", l).key) = "smart"
  BY DEF Call, Owner
<1>. QED  BY <1>2, <1>3, <1>4, <1>5

LEMMA MissingCallOwned ==
  ASSUME NEW p \in Pools
  PROVE  MissingCall(p) \in Calls /\ Owner(MissingCall(p).key) = "zpool"
<1>1. MissingCall(p).key = [source |-> <<"pool", p>>, kind |-> "pool_missing"]
  BY DEF MissingCall, Call
<1>2. Owner(MissingCall(p).key) = "zpool"
  BY <1>1 DEF Owner
<1>3. MissingCall(p) \in Calls
  BY PoolKeyTypes DEF MissingCall, Call, Calls, Grades, Things
<1>. QED  BY <1>2, <1>3

LEMMA EventCallOwned ==
  ASSUME NEW ev \in Events
  PROVE  EventCall(ev) \in Calls /\ Owner(EventCall(ev).key) = "events"
<1>1. ev \in AnyEvent
  BY AlertsAssumption
<1>2. Grade[ev.class] \in Grades
  BY <1>1 DEF AnyEvent, Classes, Grade, Grades
<1>3. EventKey(ev) \in Keys
  BY DEF Keys
<1>4. EventKey(ev).source[1] = "zed"
  BY DEF EventKey, EventSource
<1>5. ev.pool \in Things /\ ev.dev \in Things
  BY <1>1 DEF AnyEvent, Things
<1>6. EventCall(ev) \in Calls
  BY <1>2, <1>3, <1>5 DEF EventCall, Calls
<1>7. Owner(EventCall(ev).key) = "events"
  BY <1>4 DEF EventCall, Owner
<1>. QED  BY <1>6, <1>7

-----------------------------------------------------------------------------
(* What each outcome of a step does to the invariant of the table.         *)

(* A goroutine begins a pass, or leaves RaiseKind without a statement.     *)
LEMMA ReadyKeeps ==
  ASSUME TableInv, NEW r \in Raisers, NEW todo \in SUBSET Calls,
         \A c \in todo : Owner(c.key) = r,
         raiser' = [raiser EXCEPT ![r] = Ready(todo)],
         UNCHANGED rows
  PROVE  TableInv'
<1>. USE DEF TableInv
<1>1. raiser'[r] = Ready(todo) /\ \A s \in Raisers \ {r} : raiser'[s] = raiser[s]
  OBVIOUS
<1>2. Ready(todo).pc = "ready" /\ Ready(todo).todo = todo /\ Ready(todo) \in Workers
  BY DEF Ready, Workers
<1>3. raiser' \in [Raisers -> Workers]
  BY <1>2
<1>4. Owned'
  BY <1>1, <1>2 DEF Owned, About
<1>5. Inserting'
  BY <1>1, <1>2 DEF Inserting, Active
<1>6. Holding'
  BY <1>1, <1>2 DEF Holding, Row
<1>7. AckedFirst' /\ HeardOnce'
  BY DEF AckedFirst, HeardOnce
<1>. QED  BY <1>3, <1>4, <1>5, <1>6, <1>7

(* A SELECT answers.                                                       *)
LEMMA EnterKeeps ==
  ASSUME TableInv, NEW r \in Raisers, NEW pc \in {"update", "insert"},
         raiser[r].pc = "ready", NEW c \in raiser[r].todo,
         NEW i \in Nat, NEW blind \in BOOLEAN,
         pc = "update" => i \in DOMAIN rows[c.key],
         pc = "insert" /\ ~blind => Active(c.key) = {},
         Enter(r, pc, c, i, blind),
         UNCHANGED rows
  PROVE  TableInv'
<1>. USE DEF TableInv
<1>. DEFINE w == [pc |-> pc, todo |-> raiser[r].todo \ {c}, call |-> c, row |-> i, blind |-> blind]
<1>1. raiser' = [raiser EXCEPT ![r] = w]
  BY DEF Enter
<1>2. raiser[r].todo \in SUBSET Calls
  BY DEF Workers
<1>3. w \in Workers
  BY <1>2 DEF Workers
<1>4. w.pc = pc /\ w.todo = raiser[r].todo \ {c} /\ w.call = c /\ w.row = i /\ w.blind = blind
  OBVIOUS
<1>. HIDE DEF w
<1>5. raiser'[r] = w /\ \A s \in Raisers \ {r} : raiser'[s] = raiser[s]
  BY <1>1
<1>6. raiser' \in [Raisers -> Workers]
  BY <1>1, <1>3
<1>7. Owned'
  BY <1>4, <1>5 DEF Owned, About
<1>8. Inserting'
  BY <1>4, <1>5 DEF Inserting, Active
<1>9. Holding'
  BY <1>4, <1>5 DEF Holding, Row
<1>10. AckedFirst' /\ HeardOnce'
  BY DEF AckedFirst, HeardOnce
<1>. QED  BY <1>6, <1>7, <1>8, <1>9, <1>10

(* A row is rewritten, by a goroutine that leaves RaiseKind with it or by  *)
(* an acknowledgement.                                                     *)
LEMMA RewriteKeeps ==
  ASSUME TableInv, NEW k \in Keys, NEW i \in DOMAIN rows[k], NEW row \in Rows,
         row.blind = rows[k][i].blind, rows[k][i].acked => row.acked,
         Len(row.heard) <= 1,
         rows' = [rows EXCEPT ![k][i] = row],
         \/ UNCHANGED raiser /\ row.heard = rows[k][i].heard
         \/ \E r \in Raisers :
              /\ Owner(k) = r
              /\ raiser' = [raiser EXCEPT ![r] = Ready(raiser[r].todo)]
  PROVE  TableInv'
<1>. USE DEF TableInv
<1>1. rows[k] \in Seq(Rows)
  OBVIOUS
<1>2. /\ rows' \in [Keys -> Seq(Rows)]
      /\ \A l \in Keys : DOMAIN rows'[l] = DOMAIN rows[l]
      /\ \A l \in Keys : \A j \in DOMAIN rows[l] :
           rows'[l][j] = IF l = k /\ j = i THEN row ELSE rows[l][j]
  BY <1>1
<1>3. AckedFirst'
  BY <1>2 DEF AckedFirst
<1>4. HeardOnce'
  BY <1>2 DEF HeardOnce
<1>5. \A l \in Keys : Active(l)' \subseteq Active(l)
  BY <1>2 DEF Active
<1>6. \A s \in Raisers : raiser[s].pc # "ready" => raiser[s].call \in Calls /\ raiser[s].call.key \in Keys
  BY DEF Workers, Calls
<1>7. CASE UNCHANGED raiser /\ row.heard = rows[k][i].heard
  <2>1. Owned'
    BY <1>7 DEF Owned, About
  <2>2. Inserting'
    BY <1>5, <1>6, <1>7 DEF Inserting
  <2>3. Holding'
    BY <1>2, <1>6, <1>7 DEF Holding, Row
  <2>. QED  BY <1>2, <1>3, <1>4, <1>7, <2>1, <2>2, <2>3
<1>8. ASSUME NEW r \in Raisers, Owner(k) = r,
             raiser' = [raiser EXCEPT ![r] = Ready(raiser[r].todo)]
      PROVE  TableInv'
  <2>1. raiser'[r] = Ready(raiser[r].todo) /\ \A s \in Raisers \ {r} : raiser'[s] = raiser[s]
    BY <1>8
  <2>2. raiser[r].todo \in SUBSET Calls
    BY DEF Workers
  <2>3. /\ Ready(raiser[r].todo) \in Workers
        /\ Ready(raiser[r].todo).pc = "ready"
        /\ Ready(raiser[r].todo).todo = raiser[r].todo
    BY <2>2 DEF Ready, Workers
  <2>4. raiser' \in [Raisers -> Workers]
    BY <1>8, <2>3
  <2>5. Owned'
    BY <2>1, <2>3 DEF Owned, About
  <2>6. Inserting'
    BY <1>5, <1>6, <2>1, <2>3 DEF Inserting
  <2>7. \A s \in Raisers \ {r} : raiser[s].pc # "ready" => raiser[s].call.key # k
    BY <1>8 DEF Owned, About
  <2>8. Holding'
    BY <1>2, <1>6, <2>1, <2>3, <2>7 DEF Holding, Row
  <2>. QED  BY <1>2, <1>3, <1>4, <2>4, <2>5, <2>6, <2>8
<1>. QED  BY <1>7, <1>8

(* A row is inserted.                                                      *)
LEMMA InsertKeeps ==
  ASSUME TableInv, NEW r \in Raisers, raiser[r].pc = "insert",
         NEW k, k = raiser[r].call.key,
         NEW row, row = NewRow(raiser[r].call, raiser[r].blind),
         rows' = [rows EXCEPT ![k] = Append(rows[k], row)],
         raiser' = [raiser EXCEPT ![r].pc = "notify", ![r].row = Len(rows[k]) + 1]
  PROVE  TableInv'
<1>. USE DEF TableInv
<1>1. /\ raiser[r].todo \in SUBSET Calls /\ raiser[r].call \in Calls
      /\ raiser[r].blind \in BOOLEAN
    BY DEF Workers
<1>2. k \in Keys /\ Owner(k) = r
  BY <1>1 DEF Calls, Owned, About
<1>3. row \in Rows /\ row.blind = raiser[r].blind /\ row.heard = <<>>
  BY <1>1 DEF NewRow, Rows, Calls
<1>4. rows[k] \in Seq(Rows)
  BY <1>2
<1>. DEFINE n == Len(rows[k]) + 1
<1>5. /\ rows'[k] = Append(rows[k], row)
      /\ rows' \in [Keys -> Seq(Rows)]
      /\ \A l \in Keys \ {k} : rows'[l] = rows[l]
  BY <1>2, <1>3, <1>4
<1>6. /\ DOMAIN rows'[k] = DOMAIN rows[k] \cup {n}
      /\ rows'[k][n] = row
      /\ \A j \in DOMAIN rows[k] : j < n /\ rows'[k][j] = rows[k][j]
  BY <1>3, <1>4, <1>5
<1>. HIDE DEF n
<1>7. /\ raiser'[r].pc = "notify" /\ raiser'[r].row = n /\ raiser'[r].todo = raiser[r].todo
      /\ raiser'[r].call = raiser[r].call
      /\ \A s \in Raisers \ {r} : raiser'[s] = raiser[s]
  BY <1>1 DEF n, Workers
<1>8. raiser' \in [Raisers -> Workers]
  <2>1. n \in Nat
    BY <1>4 DEF n
  <2>2. [raiser[r] EXCEPT !.pc = "notify", !.row = n] \in Workers
    BY <1>1, <2>1 DEF Workers
  <2>. QED  BY <2>2 DEF n
<1>9. \A s \in Raisers \ {r} : raiser[s].pc # "ready" =>
        raiser[s].call.key # k /\ raiser[s].call.key \in Keys
  BY <1>2 DEF Owned, About, Workers, Calls
<1>10. Owned'
  BY <1>7 DEF Owned, About
<1>11. Inserting'
  BY <1>5, <1>7, <1>9 DEF Inserting, Active
<1>12. Holding'
  <2>1. raiser'[r].row \in DOMAIN rows'[raiser'[r].call.key] /\ Row(r)'.heard = <<>>
    BY <1>3, <1>6, <1>7 DEF Row
  <2>2. ASSUME NEW s \in Raisers \ {r}, raiser'[s].pc \in {"update", "notify"}
        PROVE  /\ raiser'[s].row \in DOMAIN rows'[raiser'[s].call.key]
               /\ raiser'[s].pc = "notify" => Row(s)'.heard = <<>>
    <3>1. raiser'[s] = raiser[s] /\ rows'[raiser[s].call.key] = rows[raiser[s].call.key]
      BY <1>5, <1>7, <1>9, <2>2
    <3>. QED  BY <2>2, <3>1 DEF Holding, Row
  <2>. QED  BY <2>1, <2>2 DEF Holding
<1>13. \A i \in DOMAIN rows[k] : rows[k][i].acked \/ row.blind
  BY <1>3 DEF Inserting, Active
<1>14. AckedFirst'
  <2>1. SUFFICES ASSUME NEW l \in Keys, NEW i \in DOMAIN rows'[l], NEW j \in DOMAIN rows'[l], i < j
                 PROVE  rows'[l][i].acked \/ rows'[l][j].blind
    BY DEF AckedFirst
  <2>2. CASE l # k
    BY <1>5, <2>1, <2>2 DEF AckedFirst
  <2>3. CASE l = k /\ j = n
    BY <1>6, <1>13, <2>1, <2>3
  <2>4. CASE l = k /\ j \in DOMAIN rows[k]
    <3>1. i # n
      BY <1>4, <1>6, <2>1, <2>4 DEF n
    <3>. QED  BY <1>2, <1>6, <2>1, <2>4, <3>1 DEF AckedFirst
  <2>. QED  BY <1>6, <2>2, <2>3, <2>4
<1>15. HeardOnce'
  BY <1>3, <1>5, <1>6 DEF HeardOnce
<1>. QED  BY <1>5, <1>8, <1>10, <1>11, <1>12, <1>14, <1>15

-----------------------------------------------------------------------------
(* Every step keeps the invariant of the table.                            *)
LEMMA TableInit ==
  ASSUME Init
  PROVE  TableInv
<1>1. Ready({}) \in Workers /\ Ready({}).pc = "ready" /\ Ready({}).todo = {}
  BY DEF Ready, Workers
<1>2. raiser \in [Raisers -> Workers] /\ rows \in [Keys -> Seq(Rows)]
  BY <1>1 DEF Init
<1>3. Owned
  BY <1>1 DEF Init, Owned, About
<1>4. Inserting /\ Holding
  BY <1>1 DEF Init, Inserting, Holding
<1>5. AckedFirst /\ HeardOnce
  BY DEF Init, AckedFirst, HeardOnce
<1>. QED  BY <1>2, <1>3, <1>4, <1>5 DEF TableInv

LEMMA TableStep ==
  ASSUME IInv, [Next]_vars
  PROVE  TableInv'
<1>. USE DEF IInv
<1>1. "zpool" \in Raisers /\ "smart" \in Raisers /\ "events" \in Raisers
  BY DEF Raisers
<1>2. \A r \in Raisers :
        /\ raiser[r].todo \in SUBSET Calls
        /\ \A c \in raiser[r].todo : Owner(c.key) = r
  BY DEF TableInv, Owned, About, Workers
<1>3. \A r \in Raisers : raiser[r].pc # "ready" =>
        /\ raiser[r].call \in Calls /\ raiser[r].row \in Nat
        /\ raiser[r].call.key \in Keys /\ Owner(raiser[r].call.key) = r
        /\ raiser[r].call.level \in Grades /\ raiser[r].call.target \in Things
  BY DEF TableInv, Owned, About, Workers, Calls
<1>4. CASE Poll
  <2>. DEFINE todo == UNION {PoolCalls(p) : p \in Pools}
  <2>1. todo \in SUBSET Calls /\ \A c \in todo : Owner(c.key) = "zpool"
    BY PoolCallsOwned
  <2>2. raiser' = [raiser EXCEPT !["zpool"] = Ready(todo)] /\ UNCHANGED rows
    BY <1>4 DEF Poll
  <2>. QED  BY <1>1, <2>1, <2>2, ReadyKeeps
<1>5. ASSUME NEW ages, NEW missing \in SUBSET Pools, TrackBy(ages, missing)
      PROVE  TableInv'
  <2>. DEFINE todo == {MissingCall(p) : p \in missing}
  <2>1. todo \in SUBSET Calls /\ \A c \in todo : Owner(c.key) = "zpool"
    BY MissingCallOwned
  <2>2. raiser' = [raiser EXCEPT !["zpool"] = Ready(todo)] /\ UNCHANGED rows
    BY <1>5 DEF TrackBy
  <2>. QED  BY <1>1, <2>1, <2>2, ReadyKeeps
<1>6. CASE Track
  <2>1. \A ages : Missing(ages) \ listed \in SUBSET Pools
    BY DEF Missing
  <2>. QED  BY <1>5, <1>6, <2>1 DEF Track
<1>7. CASE Scan
  <2>. DEFINE todo == UNION {DiskCalls(d) : d \in Devs}
  <2>1. todo \in SUBSET Calls /\ \A c \in todo : Owner(c.key) = "smart"
    BY DiskCallsOwned
  <2>2. raiser' = [raiser EXCEPT !["smart"] = Ready(todo)] /\ UNCHANGED rows
    BY <1>7 DEF Scan
  <2>. QED  BY <1>1, <2>1, <2>2, ReadyKeeps
<1>8. CASE Dispatch
  <2>. DEFINE ev == log[follower.pos + 1]
              todo == IF Alarming(ev) THEN {EventCall(ev)} ELSE {}
  <2>1. ev \in Events
    BY <1>8 DEF Dispatch, TypeOK
  <2>2. raiser' = [raiser EXCEPT !["events"] = Ready(todo)] /\ UNCHANGED rows
    BY <1>8 DEF Dispatch
  <2>. HIDE DEF ev
  <2>3. todo \in SUBSET Calls /\ \A c \in todo : Owner(c.key) = "events"
    BY <2>1, EventCallOwned
  <2>. QED  BY <1>1, <2>2, <2>3, ReadyKeeps
<1>9. ASSUME NEW r \in Raisers, Select(r)
      PROVE  TableInv'
  <2>1. PICK c \in raiser[r].todo :
          \/ \E i \in Active(c.key) : Enter(r, "update", c, i, FALSE)
          \/ Active(c.key) = {} /\ Enter(r, "insert", c, 0, FALSE)
          \/ Enter(r, "insert", c, 0, TRUE)
    BY <1>9 DEF Select
  <2>2. raiser[r].pc = "ready" /\ UNCHANGED rows
    BY <1>9 DEF Select
  <2>3. rows[c.key] \in Seq(Rows)
    BY <1>2, <2>1 DEF TableInv, Calls
  <2>4. ASSUME NEW i \in Active(c.key), Enter(r, "update", c, i, FALSE)
        PROVE  TableInv'
    <3>1. i \in DOMAIN rows[c.key] /\ i \in Nat
      BY <2>3, <2>4 DEF Active
    <3>. QED  BY <2>2, <2>4, <3>1, EnterKeeps
  <2>5. CASE Active(c.key) = {} /\ Enter(r, "insert", c, 0, FALSE)
    BY <2>2, <2>5, EnterKeeps
  <2>6. CASE Enter(r, "insert", c, 0, TRUE)
    BY <2>2, <2>6, EnterKeeps
  <2>. QED  BY <2>1, <2>4, <2>5, <2>6
<1>10. ASSUME NEW r \in Raisers, Leave(r), UNCHANGED rows
       PROVE  TableInv'
  BY <1>2, <1>10, ReadyKeeps DEF Leave
<1>11. ASSUME NEW r \in Raisers, raiser[r].pc \in {"update", "notify"}, Leave(r),
              NEW row \in Rows, SetRow(r, row),
              row.blind = Row(r).blind, row.acked = Row(r).acked, Len(row.heard) <= 1
       PROVE  TableInv'
  <2>. DEFINE k == raiser[r].call.key
              i == raiser[r].row
  <2>1. k \in Keys /\ Owner(k) = r /\ i \in DOMAIN rows[k]
    BY <1>3, <1>11 DEF TableInv, Holding
  <2>2. /\ rows' = [rows EXCEPT ![k][i] = row]
        /\ row.blind = rows[k][i].blind /\ row.acked = rows[k][i].acked
    BY <1>11 DEF SetRow, Row
  <2>3. raiser' = [raiser EXCEPT ![r] = Ready(raiser[r].todo)]
    BY <1>11 DEF Leave
  <2>. HIDE DEF k, i
  <2>. QED  BY <1>11, <2>1, <2>2, <2>3, RewriteKeeps
<1>12. ASSUME NEW r \in Raisers, raiser[r].pc \in {"update", "notify"}
       PROVE  Row(r) \in Rows /\ Len(Row(r).heard) <= 1 /\ (raiser[r].pc = "notify" => Row(r).heard = <<>>)
  BY <1>3, <1>12 DEF TableInv, Holding, HeardOnce, Row
<1>13. ASSUME NEW r \in Raisers, Update(r)
       PROVE  TableInv'
  <2>1. CASE UNCHANGED rows
    BY <1>10, <1>13, <2>1 DEF Update
  <2>2. CASE Refreshed(r)
    <3>. DEFINE row == [Row(r) EXCEPT !.level = raiser[r].call.level,
                                      !.about = raiser[r].call.target]
    <3>1. raiser[r].pc = "update" /\ Leave(r) /\ SetRow(r, row)
      BY <1>13, <2>2 DEF Update, Refreshed
    <3>2. row \in Rows /\ row.blind = Row(r).blind /\ row.acked = Row(r).acked
          /\ row.heard = Row(r).heard
      BY <1>3, <1>12, <3>1 DEF Rows
    <3>. HIDE DEF row
    <3>. QED  BY <1>11, <1>12, <3>1, <3>2
  <2>. QED  BY <1>13, <2>1, <2>2 DEF Update
<1>14. ASSUME NEW r \in Raisers, Insert(r)
       PROVE  TableInv'
  <2>1. CASE UNCHANGED rows /\ Leave(r)
    BY <1>10, <2>1
  <2>. DEFINE k == raiser[r].call.key
  <2>2. CASE /\ rows' = [rows EXCEPT ![k] = Append(rows[k], NewRow(raiser[r].call, raiser[r].blind))]
             /\ raiser' = [raiser EXCEPT ![r].pc = "notify", ![r].row = Len(rows[k]) + 1]
    BY <1>14, <2>2, InsertKeeps DEF Insert
  <2>. QED  BY <1>14, <2>1, <2>2 DEF Insert
<1>15. ASSUME NEW r \in Raisers, Notify(r)
       PROVE  TableInv'
  <2>. DEFINE heard == Append(Row(r).heard, Said(raiser[r].call))
              row == [Row(r) EXCEPT !.heard = heard]
  <2>1. raiser[r].pc = "notify" /\ Leave(r) /\ SetRow(r, row)
    BY <1>15 DEF Notify
  <2>2. Row(r) \in Rows /\ Row(r).heard = <<>>
    BY <1>12, <2>1
  <2>3. Said(raiser[r].call) \in [level : Grades, about : Things]
    BY <1>3, <2>1 DEF Said
  <2>4. heard \in Seq([level : Grades, about : Things]) /\ Len(heard) = 1
    BY <2>2, <2>3
  <2>. HIDE DEF heard
  <2>5. row \in Rows
    BY <2>2, <2>4 DEF Rows
  <2>6. row.blind = Row(r).blind /\ row.acked = Row(r).acked /\ row.heard = heard
    BY <2>2 DEF Rows
  <2>. HIDE DEF row
  <2>7. Len(row.heard) = 1
    BY <2>4, <2>6, Zenon
  <2>8. Len(row.heard) <= 1
    BY <2>7
  <2>. QED  BY <1>11, <2>1, <2>5, <2>6, <2>8
<1>16. ASSUME NEW k \in Keys, NEW i \in Active(k), Ack(k, i)
       PROVE  TableInv'
  <2>. DEFINE row == [rows[k][i] EXCEPT !.acked = TRUE]
  <2>1. i \in DOMAIN rows[k] /\ rows[k][i] \in Rows
    BY <1>16 DEF TableInv, Active
  <2>2. rows' = [rows EXCEPT ![k][i] = row] /\ UNCHANGED raiser
    BY <1>16 DEF Ack
  <2>3. row \in Rows /\ row.blind = rows[k][i].blind /\ row.acked
        /\ row.heard = rows[k][i].heard
    BY <2>1 DEF Rows
  <2>4. Len(row.heard) <= 1
    BY <2>1, <2>3 DEF TableInv, HeardOnce
  <2>. HIDE DEF row
  <2>. QED  BY <2>1, <2>2, <2>3, <2>4, RewriteKeeps
<1>17. CASE UNCHANGED <<raiser, rows>>
  <2>1. \A r \in Raisers : raiser'[r] = raiser[r]
    BY <1>17
  <2>. QED  BY <1>17 DEF TableInv, Owned, About, Inserting, Active, Holding, Row, AckedFirst, HeardOnce
<1>18. CASE Restart
  <2>1. Ready({}) \in Workers /\ Ready({}).pc = "ready" /\ Ready({}).todo = {}
    BY DEF Ready, Workers
  <2>2. raiser' = [r \in Raisers |-> Ready({})] /\ UNCHANGED rows
    BY <1>18 DEF Restart
  <2>3. Owned' /\ Inserting' /\ Holding'
    BY <2>1, <2>2 DEF Owned, About, Inserting, Holding
  <2>. QED  BY <2>1, <2>2, <2>3 DEF TableInv, AckedFirst, HeardOnce
<1>19. ASSUME NEW r \in Raisers, RaiseKind(r)
       PROVE  TableInv'
  BY <1>9, <1>13, <1>14, <1>15, <1>19 DEF RaiseKind
<1>20. CASE Die \/ Change \/ (\E ev \in Events : Happen(ev)) \/ Tick \/ UNCHANGED vars
  <2>1. UNCHANGED <<raiser, rows>>
    BY <1>20 DEF Die, Change, Happen, Tick, vars
  <2>. QED  BY <1>17, <2>1
<1>. QED
  BY <1>1, <1>4, <1>6, <1>7, <1>8, <1>16, <1>18, <1>19, <1>20
     DEF Next, ZpoolCollector, SmartCollector, EventsCollector

-----------------------------------------------------------------------------
(* Type correctness.                                                       *)
LEMMA CountSpent ==
  ASSUME TypeOK, NEW c \in {"change", "ack", "mishap"}, NEW max, Spend(c, max)
  PROVE  count' \in [{"change", "ack", "mishap"} -> Nat]
  BY DEF TypeOK, Spend

LEMMA CountTypes ==
  ASSUME TypeOK, [Next]_vars
  PROVE  count' \in [{"change", "ack", "mishap"} -> Nat]
<1>1. Mishap => count' \in [{"change", "ack", "mishap"} -> Nat]
  BY CountSpent DEF Mishap
<1>2. \A max : Spend("change", max) \/ Spend("ack", max) =>
        count' \in [{"change", "ack", "mishap"} -> Nat]
  BY CountSpent
<1>3. UNCHANGED count => count' \in [{"change", "ack", "mishap"} -> Nat]
  BY DEF TypeOK
<1>4. \A r \in Raisers : RaiseKind(r) => Mishap \/ UNCHANGED count
  BY DEF RaiseKind, Select, Update, Insert, Notify
<1>5. Poll \/ Track \/ Scan \/ Dispatch => Mishap \/ UNCHANGED count
  BY DEF Poll, Track, Scan, Dispatch
<1>6. Die \/ Restart => Mishap
  BY DEF Die, Restart
<1>7. Change => Spend("change", MaxChanges)
  BY DEF Change
<1>8. \A k, i : Ack(k, i) => Spend("ack", MaxAcks)
  BY DEF Ack
<1>9. (\E ev \in Events : Happen(ev)) \/ Tick \/ UNCHANGED vars => UNCHANGED count
  BY DEF Happen, Tick, vars
<1>10. "zpool" \in Raisers /\ "smart" \in Raisers /\ "events" \in Raisers
  BY DEF Raisers
<1>. QED
  BY <1>1, <1>2, <1>3, <1>4, <1>5, <1>6, <1>7, <1>8, <1>9, <1>10
     DEF Next, ZpoolCollector, SmartCollector, EventsCollector

(* The part of the state that neither the table nor the bounds are about.  *)
World ==
  /\ pool \in [Pools -> PoolReadings \cup {Absent}]
  /\ disk \in [Devs -> DiskReadings]
  /\ log \in Seq(Events)
  /\ known \in [Pools -> 0 .. MissingAfter + 1 \cup {Never}]
  /\ listed \in SUBSET Pools
  /\ tracked \in BOOLEAN
  /\ follower \in [pos : Nat, bad : 0 .. 2, on : BOOLEAN]
  /\ (follower.on <=> follower.bad < 2)

LEMMA WorldStep ==
  ASSUME TypeOK, [Next]_vars
  PROVE  World'
<1>. USE AlertsAssumption DEF TypeOK, World
<1>1. CASE Poll
  BY <1>1 DEF Poll
<1>2. ASSUME NEW failed \in SUBSET listed, NEW missing, TrackBy(Seen(failed), missing)
      PROVE  World'
  BY <1>2 DEF TrackBy, Seen
<1>3. CASE Track
  BY <1>2, <1>3 DEF Track
<1>4. CASE Scan
  BY <1>4 DEF Scan
<1>5. CASE Dispatch
  <2>1. follower' = [follower EXCEPT !.pos = follower.pos + 1]
    BY <1>5 DEF Dispatch
  <2>2. /\ follower' \in [pos : Nat, bad : 0 .. 2, on : BOOLEAN]
        /\ (follower'.on <=> follower'.bad < 2)
    BY <2>1
  <2>. QED  BY <1>5, <2>2 DEF Dispatch
<1>6. CASE Die
  <2>1. PICK bad \in {0, follower.bad + 1} :
          follower' = [pos |-> 0, bad |-> bad, on |-> bad < 2]
    BY <1>6 DEF Die
  <2>2. follower.bad < 2
    BY <1>6 DEF Die
  <2>3. bad \in 0 .. 2
    BY <2>1, <2>2
  <2>4. follower'.on <=> follower'.bad < 2
    BY <2>1
  <2>5. follower' \in [pos : Nat, bad : 0 .. 2, on : BOOLEAN]
    BY <2>1, <2>3
  <2>. QED  BY <1>6, <2>4, <2>5 DEF Die
<1>7. ASSUME NEW r \in Raisers, RaiseKind(r)
      PROVE  World'
  BY <1>7 DEF RaiseKind, Select, Update, Insert, Notify
<1>8. ASSUME NEW k, NEW i, Ack(k, i)
      PROVE  World'
  BY <1>8 DEF Ack
<1>9. CASE Change
  BY <1>9 DEF Change
<1>10. ASSUME NEW ev \in Events, Happen(ev)
       PROVE  World'
  BY <1>10 DEF Happen
<1>11. CASE Tick
  <2>1. \A p \in Pools : Older(known[p]) \in 0 .. MissingAfter + 1 \cup {Never}
    <3>1. SUFFICES ASSUME NEW p \in Pools, known[p] # Never, known[p] <= MissingAfter
                   PROVE  known[p] + 1 \in 0 .. MissingAfter + 1
      BY DEF Older
    <3>2. known[p] \in 0 .. MissingAfter + 1
      BY <3>1
    <3>. QED  BY <3>1, <3>2
  <2>2. known' \in [Pools -> 0 .. MissingAfter + 1 \cup {Never}]
    BY <1>11, <2>1 DEF Tick
  <2>. QED  BY <1>11, <2>2 DEF Tick
<1>12. CASE Restart
  BY <1>12 DEF Restart
<1>13. CASE UNCHANGED vars
  BY <1>13 DEF vars
<1>14. "zpool" \in Raisers /\ "smart" \in Raisers /\ "events" \in Raisers
  BY DEF Raisers
<1>. HIDE DEF TypeOK, World
<1>. QED
  BY <1>1, <1>3, <1>4, <1>5, <1>6, <1>7, <1>8, <1>9, <1>10, <1>11, <1>12, <1>13, <1>14
     DEF Next, ZpoolCollector, SmartCollector, EventsCollector

LEMMA IInvInit == Init => IInv
<1>. SUFFICES ASSUME Init PROVE IInv
  OBVIOUS
<1>1. World /\ count \in [{"change", "ack", "mishap"} -> Nat]
  <2>1. count \in [{"change", "ack", "mishap"} -> Nat] /\ log \in Seq(Events)
    BY DEF Init
  <2>2. /\ follower \in [pos : Nat, bad : 0 .. 2, on : BOOLEAN]
        /\ (follower.on <=> follower.bad < 2)
    BY DEF Init
  <2>. QED  BY <2>1, <2>2 DEF Init, World
<1>2. TableInv
  BY TableInit
<1>. QED  BY <1>1, <1>2 DEF IInv, TypeOK, World, TableInv

LEMMA IInvStep == IInv /\ [Next]_vars => IInv'
<1>. SUFFICES ASSUME IInv, [Next]_vars PROVE IInv'
  OBVIOUS
<1>1. World' /\ count' \in [{"change", "ack", "mishap"} -> Nat]
  BY WorldStep, CountTypes DEF IInv
<1>2. TableInv'
  BY TableStep
<1>. QED  BY <1>1, <1>2 DEF IInv, TypeOK, World, TableInv

(* The inductive invariant.                                                *)
THEOREM AlertsInvariant == Spec => []IInv
  BY IInvInit, IInvStep, PTL DEF Spec

(* Type correctness, for any pools, disks, events and bounds.              *)
THEOREM AlertsTypes == Spec => []TypeOK
<1>1. IInv => TypeOK
  BY DEF IInv
<1>. QED  BY <1>1, AlertsInvariant, PTL

(* Dedupe: one active alert of a source and kind, but for blind inserts.   *)
THEOREM AlertsOneActive == Spec => []OneActive
<1>1. IInv => OneActive
  BY DEF IInv, TableInv, AckedFirst, OneActive, Active
<1>. QED  BY <1>1, AlertsInvariant, PTL

(* A storm of one source and kind is announced once.                       *)
THEOREM AlertsNoStorm == Spec => []NoStorm
<1>1. IInv => NoStorm
  BY DEF IInv, TableInv, AckedFirst, HeardOnce, NoStorm
<1>. QED  BY <1>1, AlertsInvariant, PTL

-----------------------------------------------------------------------------
(* Pools reported missing: what the zpool collector holds of them is made  *)
(* by Track alone and only goes away; what Track saw stays true until the  *)
(* next pass.                                                              *)
LEMMA HeldShrinks ==
  ASSUME TypeOK, NEW r \in Raisers, RaiseKind(r)
  PROVE  About("zpool")' \subseteq About("zpool")
<1>1. /\ \A s \in Raisers : raiser[s] \in Workers
      /\ "zpool" \in Raisers
  BY DEF TypeOK, Raisers
<1>2. CASE Leave(r)
  <2>1. raiser' = [raiser EXCEPT ![r] = Ready(raiser[r].todo)]
    BY <1>2 DEF Leave
  <2>2. raiser'["zpool"] = raiser["zpool"] \/ raiser'["zpool"] = Ready(raiser["zpool"].todo)
    BY <1>1, <2>1 DEF TypeOK
  <2>. QED  BY <2>2 DEF Ready, About
<1>3. ASSUME NEW pc \in {"update", "insert"}, NEW c \in raiser[r].todo, NEW i, NEW blind,
             Enter(r, pc, c, i, blind)
      PROVE  About("zpool")' \subseteq About("zpool")
  <2>1. /\ raiser'[r].pc = pc /\ raiser'[r].call = c
        /\ raiser'[r].todo = raiser[r].todo \ {c}
        /\ r # "zpool" => raiser'["zpool"] = raiser["zpool"]
    BY <1>1, <1>3 DEF Enter, TypeOK
  <2>. QED  BY <1>3, <2>1 DEF About
<1>4. CASE Select(r)
  BY <1>3, <1>4 DEF Select
<1>5. ASSUME NEW i, raiser[r].pc = "insert",
             raiser' = [raiser EXCEPT ![r].pc = "notify", ![r].row = i]
      PROVE  About("zpool")' \subseteq About("zpool")
  <2>1. /\ raiser'[r].pc = "notify" /\ raiser'[r].call = raiser[r].call
        /\ raiser'[r].todo = raiser[r].todo
        /\ r # "zpool" => raiser'["zpool"] = raiser["zpool"]
    BY <1>1, <1>5 DEF TypeOK, Workers
  <2>. QED  BY <1>5, <2>1 DEF About
<1>6. CASE Insert(r)
  BY <1>2, <1>5, <1>6 DEF Insert
<1>7. CASE Update(r) \/ Notify(r)
  BY <1>2, <1>7 DEF Update, Notify
<1>. QED  BY <1>4, <1>6, <1>7 DEF RaiseKind

LEMMA MissingStep ==
  ASSUME TypeOK, NoFalseMissing, [Next]_vars
  PROVE  NoFalseMissing'
<1>1. "zpool" \in Raisers /\ "smart" \in Raisers /\ "events" \in Raisers
  BY DEF Raisers
<1>2. CASE Poll
  <2>. DEFINE todo == UNION {PoolCalls(p) : p \in Pools}
  <2>1. \A p \in Pools : \A c \in PoolCalls(p) : c.key.kind # "pool_missing"
    BY DEF PoolCalls, Call
  <2>2. About("zpool")' = todo
    BY <1>1, <1>2 DEF Poll, Ready, About, TypeOK
  <2>. QED  BY <2>1, <2>2 DEF NoFalseMissing
<1>3. ASSUME NEW ages, NEW missing, missing \subseteq Missing(ages) \ listed,
             TrackBy(ages, missing)
      PROVE  NoFalseMissing'
  <2>1. About("zpool")' = {MissingCall(p) : p \in missing}
    BY <1>1, <1>3 DEF TrackBy, Ready, About, TypeOK
  <2>2. \A p \in missing :
          MissingCall(p).target = p /\ p \in Pools \ listed /\ ages[p] # Never /\ ages[p] > MissingAfter
    BY <1>3 DEF MissingCall, Call, Missing
  <2>3. known' = ages /\ listed' = listed
    BY <1>3 DEF TrackBy
  <2>. QED  BY <2>1, <2>2, <2>3 DEF NoFalseMissing
<1>4. CASE Track
  BY <1>3, <1>4 DEF Track
<1>5. CASE About("zpool")' \subseteq About("zpool") /\ UNCHANGED <<known, listed>>
  BY <1>5 DEF NoFalseMissing
<1>6. ASSUME NEW r \in Raisers, RaiseKind(r)
      PROVE  NoFalseMissing'
  <2>1. UNCHANGED <<known, listed>>
    BY <1>6 DEF RaiseKind, Select, Update, Insert, Notify
  <2>. QED  BY <1>5, <1>6, <2>1, HeldShrinks
<1>7. CASE Scan \/ Dispatch
  <2>1. raiser'["zpool"] = raiser["zpool"] /\ UNCHANGED <<known, listed>>
    BY <1>1, <1>7 DEF Scan, Dispatch, TypeOK
  <2>. QED  BY <1>5, <2>1 DEF About
<1>8. CASE Die \/ Change \/ (\E ev \in Events : Happen(ev)) \/ UNCHANGED vars
           \/ (\E k \in Keys : \E i \in Active(k) : Ack(k, i))
  <2>1. UNCHANGED <<raiser, known, listed>>
    BY <1>8 DEF Die, Change, Happen, Ack, vars
  <2>. QED  BY <1>5, <2>1 DEF About
<1>9. CASE Tick
  <2>1. About("zpool")' = About("zpool") /\ UNCHANGED listed
    BY <1>9 DEF Tick, About
  <2>2. \A p \in Pools : known[p] # Never /\ known[p] > MissingAfter => known'[p] = known[p]
    BY <1>9 DEF Tick, Older
  <2>3. \A c \in About("zpool") : c.key.kind = "pool_missing" =>
          c.target \in Pools \ listed /\ known[c.target] # Never /\ known[c.target] > MissingAfter
    BY DEF NoFalseMissing
  <2>. QED  BY <2>1, <2>2, <2>3 DEF NoFalseMissing
<1>10. CASE Restart
  <2>1. About("zpool")' = {}
    BY <1>1, <1>10 DEF Restart, About, Ready
  <2>. QED  BY <2>1 DEF NoFalseMissing
<1>. QED
  BY <1>1, <1>2, <1>4, <1>6, <1>7, <1>8, <1>9, <1>10
     DEF Next, ZpoolCollector, SmartCollector, EventsCollector

(* No pool is reported missing that the pass listed, that no pass listed   *)
(* before, or that was written within the window.                          *)
THEOREM AlertsNoFalseMissing == Spec => []NoFalseMissing
<1>1. Init => NoFalseMissing
  BY DEF Init, NoFalseMissing, About, Ready, Raisers
<1>. QED  BY <1>1, MissingStep, AlertsTypes, PTL DEF Spec
=============================================================================
