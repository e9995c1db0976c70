--------------------------- MODULE SessionProofs ----------------------------
(***************************************************************************)
(* What holds of the session for any streams, slots and bounds: the types, *)
(* among them that a tab gives up by the third refusal, and that a stream  *)
(* that is not stopped always has something that will bring it back.       *)
(***************************************************************************)
EXTENDS Session, TLAPS

SseStates == [stopped : BOOLEAN, timer : BOOLEAN, fails : 0 .. MaxAuthFails,
              es : Streams \cup {None}, live : [Streams -> {"closed", "opening", "open"}]]
Nets == [Slots -> Requests \cup {None}]

(* Three refusals in a row stop the stream, so there is never a fourth.    *)
SseOK(x) == x \in SseStates /\ (x.fails = MaxAuthFails => x.stopped)

ProbingIn(n) == \E s \in Slots : s[1] = "probe" /\ n[s] # None
Alive(n, x) == x.stopped \/ x.es # None \/ x.timer \/ ProbingIn(n)

IInv == TypeOK /\ (sse.fails = MaxAuthFails => sse.stopped) /\ NeverSilent

LEMMA IInvParts ==
  IInv <=> /\ TypeOK
           /\ SseOK(sse)
           /\ Alive(net, sse)
  BY DEF IInv, TypeOK, NeverSilent, Probing, SseOK, SseStates, Alive, ProbingIn

-----------------------------------------------------------------------------
(* The functions of events.ts.                                             *)
LEMMA ClosedSse ==
  ASSUME NEW x, SseOK(x)
  PROVE  /\ SseOK(Closed(x))
         /\ Closed(x).stopped = x.stopped
         /\ Closed(x).timer = x.timer
         /\ Closed(x).fails = x.fails
  BY DEF SseOK, SseStates, Closed

LEMMA DisconnectSse ==
  ASSUME NEW x, SseOK(x)
  PROVE  SseOK(Disconnect(x)) /\ Disconnect(x).stopped /\ Disconnect(x).fails = x.fails
<1>1. Closed(x) \in SseStates
  BY ClosedSse DEF SseOK
<1> QED
  BY <1>1, ClosedSse DEF SseOK, SseStates, Disconnect

LEMMA OpenSse ==
  ASSUME NEW x, SseOK(x), NEW y \in OpenStream(x)
  PROVE  SseOK(y) /\ (y.stopped \/ y.es # None)
<1>1. CASE x.stopped
  BY <1>1 DEF OpenStream
<1>2. CASE ~x.stopped
  <2>1. PICK s \in Streams : y = [x EXCEPT !.live[s] = "opening", !.es = s]
    BY <1>2 DEF OpenStream
  <2>2. [x.live EXCEPT ![s] = "opening"] \in [Streams -> {"closed", "opening", "open"}]
    BY DEF SseOK, SseStates
  <2>3. y = [x EXCEPT !.live = [x.live EXCEPT ![s] = "opening"], !.es = s]
    BY <2>1 DEF SseOK, SseStates
  <2>4. y \in SseStates /\ y.es = s /\ y.fails = x.fails /\ y.stopped = x.stopped
    BY <2>2, <2>3 DEF SseOK, SseStates
  <2> QED
    BY <2>4, SessionAssumption DEF SseOK, SessionAssumption
<1> QED
  BY <1>1, <1>2

LEMMA ConnectSse ==
  ASSUME NEW x, SseOK(x), NEW y \in Connect(x)
  PROVE  SseOK(y) /\ (y.stopped \/ y.es # None)
<1> DEFINE z == [stopped |-> FALSE, timer |-> FALSE, fails |-> 0, es |-> None,
                 live |-> Closed(x).live]
<1>1. SseOK(z)
  <2>1. Closed(x).live \in [Streams -> {"closed", "opening", "open"}]
    BY ClosedSse DEF SseOK, SseStates
  <2> QED
    BY <2>1 DEF SseOK, SseStates, MaxAuthFails
<1>2. y \in OpenStream(z)
  BY DEF Connect
<1> HIDE DEF z
<1> QED
  BY <1>1, <1>2, OpenSse

LEMMA ScheduleRetrySse ==
  ASSUME NEW x, SseOK(x)
  PROVE  LET y == ScheduleRetry(x) IN SseOK(y) /\ (y.stopped \/ y.timer)
  BY DEF SseOK, SseStates, ScheduleRetry

(* A probe that comes back stops the stream or leaves a retry behind.      *)
LEMMA ProbedSse ==
  ASSUME NEW x, SseOK(x), NEW answer
  PROVE  LET y == Probed(x, answer).sse IN SseOK(y) /\ (y.stopped \/ y.timer)
<1>1. CASE x.stopped
  BY <1>1 DEF Probed, SseOK, SseStates, MaxAuthFails
<1>2. CASE ~x.stopped
  <2> DEFINE fails == IF answer = "ok" THEN 0
                      ELSE IF answer = "denied" THEN x.fails + 1 ELSE x.fails
             known == [x EXCEPT !.fails = fails]
  <2>1. fails \in 0 .. MaxAuthFails
    BY <1>2 DEF SseOK, SseStates, MaxAuthFails
  <2>2. /\ known \in SseStates /\ known.fails = fails
        /\ known.stopped = FALSE /\ known.timer = x.timer
    BY <1>2, <2>1 DEF SseOK, SseStates
  <2>3. Probed(x, answer).sse = IF answer = "denied" /\ known.fails >= MaxAuthFails
                                THEN Disconnect(known) ELSE ScheduleRetry(known)
    BY <1>2 DEF Probed
  <2>4. CASE answer = "denied" /\ known.fails >= MaxAuthFails
    <3>1. Closed(known) \in SseStates
      BY <2>2 DEF Closed, SseStates
    <3>2. Disconnect(known) \in SseStates /\ Disconnect(known).stopped
      BY <3>1 DEF Disconnect, SseStates
    <3> QED
      BY <2>3, <2>4, <3>2 DEF SseOK
  <2>5. CASE ~(answer = "denied" /\ known.fails >= MaxAuthFails)
    <3>1. known.fails # MaxAuthFails
      BY <1>2, <2>1, <2>2, <2>5 DEF SseOK, SseStates, MaxAuthFails
    <3>2. SseOK(known)
      BY <2>2, <3>1 DEF SseOK
    <3> HIDE DEF known
    <3> QED
      BY <2>3, <2>5, <3>2, ScheduleRetrySse
  <2> QED
    BY <2>4, <2>5
<1> QED
  BY <1>1, <1>2

(* A request put on the network takes a free slot.                         *)
LEMMA PutNet ==
  ASSUME cookie \in 0 .. MaxIssued, demo \in BOOLEAN,
         NEW n \in Nets, NEW kind, NEW mock \in Nat, NEW m \in Put(n, kind, mock)
  PROVE  /\ m \in Nets
         /\ ProbingIn(n) => ProbingIn(m)
         /\ kind = "probe" => ProbingIn(m)
<1> DEFINE leaves == kind = "logout" /\ demo
           request == [cookie |-> cookie, answer |-> "none", mock |-> mock, demo |-> leaves]
<1>1. PICK s \in Slots : s[1] = kind /\ n[s] = None /\ m = [n EXCEPT ![s] = request]
  BY DEF Put
<1>2. request \in Requests /\ request # None
  <2>1. leaves \in BOOLEAN
    OBVIOUS
  <2> HIDE DEF leaves
  <2>2. request \in Requests
    BY <2>1 DEF Requests
  <2>3. Requests \subseteq [cookie : Nat, answer : {"none", "ok", "code", "denied", "error"},
                           mock : Nat, demo : BOOLEAN]
    BY DEF Requests
  <2> HIDE DEF request
  <2> QED
    BY <2>2, <2>3, SessionAssumption DEF SessionAssumption
<1> HIDE DEF request
<1> QED
  BY <1>1, <1>2 DEF Nets, ProbingIn

LEMMA ProviderNat ==
  ASSUME mocks \in [made : Nat, signed : SUBSET Nat]
  PROVE  Provider \in Nat
  BY DEF Provider

LEMMA ExpiredOK ==
  ASSUME cookie \in 0 .. MaxIssued, demo \in BOOLEAN, Provider \in Nat, NEW n \in Nets, NEW x, SseOK(x), Alive(n, x), Expired(n, x)
  PROVE  net' \in Nets /\ SseOK(sse') /\ Alive(net', sse')
<1>1. CASE net' = n /\ sse' = x
  BY <1>1
<1>2. CASE net' \in Put(n, "logout", Provider) /\ sse' = Disconnect(x)
  BY <1>2, PutNet, DisconnectSse DEF Alive
<1> QED
  BY <1>1, <1>2 DEF Expired

LEMMA FreedNet ==
  ASSUME net \in Nets, NEW s \in Slots
  PROVE  /\ Freed(s) \in Nets
         /\ s[1] # "probe" /\ Alive(net, sse) => Alive(Freed(s), sse)
  BY DEF Freed, Nets, Alive, ProbingIn

-----------------------------------------------------------------------------
(* The rest of the state keeps its type.                                   *)
ClientOK ==
  /\ provider \in {"http", "mock"} /\ saved \in BOOLEAN /\ demo \in BOOLEAN /\ ready \in BOOLEAN
  /\ user \in {"none", "real", "demo"}
  /\ form \in {"password", "code", "busy"}

ServerOK ==
  /\ cookie \in 0 .. MaxIssued /\ issued \in 0 .. MaxIssued
  /\ sessions \in SUBSET (1 .. issued)
  /\ mocks \in [made : Nat, signed : SUBSET Nat]
  /\ count \in [{"mishap", "gesture"} -> Nat]

Parts ==
  /\ ClientOK /\ ServerOK
  /\ net \in Nets /\ SseOK(sse) /\ Alive(net, sse)

LEMMA IInvIsParts == IInv <=> Parts
  BY IInvParts DEF Parts, ClientOK, ServerOK, TypeOK, Nets, SseOK, SseStates

LEMMA SpendType ==
  ASSUME ServerOK, NEW c \in {"mishap", "gesture"}, NEW max, Spend(c, max)
  PROVE  count' \in [{"mishap", "gesture"} -> Nat]
  BY DEF ServerOK, Spend

(* A blank network and a stream not yet started.                           *)
LEMMA StartOK ==
  LET blank == [s \in Slots |-> None]
      start == [stopped |-> TRUE, timer |-> FALSE, fails |-> 0, es |-> None,
                live |-> [s \in Streams |-> "closed"]]
  IN  blank \in Nets /\ SseOK(start) /\ start.stopped
  BY DEF Nets, SseOK, SseStates, MaxAuthFails

LEMMA InitIInv == Init => IInv
<1> SUFFICES ASSUME Init PROVE Parts
  BY IInvIsParts
<1> USE DEF Init
<1> DEFINE blank == [s \in Slots |-> None]
           start == [stopped |-> TRUE, timer |-> FALSE, fails |-> 0, es |-> None,
                     live |-> [s \in Streams |-> "closed"]]
<1>1. blank \in Nets /\ SseOK(start) /\ start.stopped
  BY StartOK
<1>2. ClientOK
  <2>1. provider \in {"http", "mock"}
    OBVIOUS
  <2> QED
    BY <2>1 DEF ClientOK
<1>3. ServerOK
  <2>1. cookie \in 0 .. MaxIssued /\ issued \in 0 .. MaxIssued
    BY SessionAssumption DEF SessionAssumption
  <2>2. ASSUME NEW t \in sessions PROVE t = 1
    <3>1. cookie \in {0, 1} /\ sessions # {0}
      OBVIOUS
    <3>2. sessions \subseteq {cookie}
      OBVIOUS
    <3> QED
      BY <3>1, <3>2
  <2>3. count \in [{"mishap", "gesture"} -> Nat]
    OBVIOUS
  <2>4. mocks \in [made : Nat, signed : SUBSET Nat]
    <3>1. mocks \in {[made |-> 1, signed |-> {}], [made |-> 0, signed |-> {}]}
      OBVIOUS
    <3> QED
      BY <3>1
  <2> QED
    BY <2>1, <2>2, <2>3, <2>4 DEF ServerOK
<1>4. cookie \in 0 .. MaxIssued /\ demo \in BOOLEAN
  BY <1>3 DEF ServerOK
<1>5. CASE saved
  <2>1. sse = start /\ net \in Put(blank, "enter", 1)
    BY <1>5
  <2> HIDE DEF start, blank, Init
  <2>2. net \in Nets /\ SseOK(sse) /\ Alive(net, sse)
    BY <1>1, <1>4, <2>1, PutNet DEF Alive
  <2> QED
    BY <1>2, <1>3, <2>2 DEF Parts
<1>6. CASE ~saved
  <2>1. sse \in Connect(start) /\ net \in Put(blank, "me", 0)
    BY <1>6
  <2> HIDE DEF start, blank, Init
  <2>2. net \in Nets
    BY <1>1, <1>4, <2>1, PutNet
  <2>3. SseOK(sse) /\ (sse.stopped \/ sse.es # None)
    BY <1>1, <2>1, ConnectSse
  <2> QED
    BY <1>2, <1>3, <2>2, <2>3 DEF Parts, Alive
<1> QED
  BY <1>5, <1>6

(* A page that loads starts again from nothing.                            *)
LEMMA BootOK ==
  ASSUME Parts, Boot, saved' = saved
  PROVE  /\ ClientOK' /\ net' \in Nets /\ SseOK(sse') /\ Alive(net', sse')
         /\ mocks' \in [made : Nat, signed : SUBSET Nat]
<1> DEFINE blank == [s \in Slots |-> None]
           start == [stopped |-> TRUE, timer |-> FALSE, fails |-> 0, es |-> None,
                     live |-> [s \in Streams |-> "closed"]]
<1>1. blank \in Nets /\ SseOK(start) /\ start.stopped
  BY StartOK
<1>2. ClientOK'
  <2>1. provider' \in {"http", "mock"}
    BY DEF Boot
  <2> QED
    BY <2>1 DEF Boot, ClientOK, Parts
<1>3. cookie \in 0 .. MaxIssued /\ demo \in BOOLEAN
  BY DEF Parts, ServerOK, ClientOK
<1>m. mocks' \in [made : Nat, signed : SUBSET Nat]
  <2>1. mocks' \in {[made |-> 1, signed |-> {}], [made |-> 0, signed |-> {}]}
    BY DEF Boot
  <2> QED
    BY <2>1
<1>4. CASE saved
  <2>1. sse' = start /\ net' \in Put(blank, "enter", 1)
    BY <1>4 DEF Boot
  <2> HIDE DEF start, blank
  <2> QED
    BY <1>1, <1>2, <1>3, <1>m, <2>1, PutNet DEF Alive
<1>5. CASE ~saved
  <2>1. sse' \in Connect(start) /\ net' \in Put(blank, "me", 0)
    BY <1>5 DEF Boot
  <2> HIDE DEF start, blank
  <2>2. SseOK(sse') /\ (sse'.stopped \/ sse'.es # None)
    BY <1>1, <2>1, ConnectSse
  <2> QED
    BY <1>1, <1>2, <1>3, <1>m, <2>1, <2>2, PutNet DEF Alive
<1> QED
  BY <1>4, <1>5

LEMMA UserStep == ASSUME Parts, User PROVE Parts'
<1>0. /\ cookie \in 0 .. MaxIssued /\ net \in Nets /\ SseOK(sse) /\ Alive(net, sse)
      /\ demo \in BOOLEAN /\ Provider \in Nat /\ mocks.made + 1 \in Nat
  BY ProviderNat DEF Parts, ServerOK, ClientOK
<1>s. ASSUME Gesture PROVE count' \in [{"mishap", "gesture"} -> Nat]
  BY <1>s, SpendType DEF Gesture, Parts
<1>1. CASE Reload
  <2>1. /\ ClientOK' /\ net' \in Nets /\ SseOK(sse') /\ Alive(net', sse')
        /\ mocks' \in [made : Nat, signed : SUBSET Nat]
    BY <1>1, BootOK DEF Reload, Parts, ClientOK
  <2>2. ServerOK'
    BY <1>1, <1>s, <2>1 DEF Reload, Parts, ServerOK
  <2> QED
    BY <2>1, <2>2 DEF Parts, Nets, Alive, SseOK, SseStates, ProbingIn, Requests
<1>2. CASE SubmitPassword
  <2>1. net' \in Nets /\ Alive(net', sse)
    BY <1>0, <1>2, PutNet DEF SubmitPassword, Alive
  <2>2. ServerOK' /\ ClientOK'
    BY <1>2, <1>s DEF SubmitPassword, Parts, ServerOK, ClientOK, server
  <2> QED
    BY <1>0, <1>2, <2>1, <2>2
    DEF SubmitPassword, Parts, Alive, SseOK, SseStates, ProbingIn, Nets, Requests
<1>3. CASE SubmitCode
  <2>1. net' \in Nets /\ Alive(net', sse)
    BY <1>0, <1>3, PutNet DEF SubmitCode, Alive
  <2>2. ServerOK' /\ ClientOK'
    BY <1>3, <1>s DEF SubmitCode, Parts, ServerOK, ClientOK, server
  <2> QED
    BY <1>0, <1>3, <2>1, <2>2
    DEF SubmitCode, Parts, Alive, SseOK, SseStates, ProbingIn, Nets, Requests
<1>4. CASE EnterDemo
  <2>1. net' \in Nets /\ SseOK(sse') /\ Alive(net', sse')
    BY <1>0, <1>4, PutNet, DisconnectSse DEF EnterDemo, Alive
  <2>2. ServerOK' /\ ClientOK'
    BY <1>4, <1>s DEF EnterDemo, Parts, ServerOK, ClientOK, server
  <2> QED
    BY <2>1, <2>2 DEF Parts, Alive, SseOK, SseStates, ProbingIn, Nets, Requests
<1>5. CASE ExitDemo
  <2>1. SseOK(sse') /\ Alive(net', sse') /\ net' = net
    BY <1>0, <1>5, ConnectSse DEF ExitDemo, Alive
  <2>2. ServerOK' /\ ClientOK'
    BY <1>5, <1>s DEF ExitDemo, Parts, ServerOK, ClientOK, server
  <2> QED
    BY <1>0, <2>1, <2>2 DEF Parts, Alive, SseOK, SseStates, ProbingIn, Nets, Requests
<1>6. CASE Logout
  <2>1. net' \in Nets /\ SseOK(sse') /\ Alive(net', sse')
    BY <1>0, <1>6, PutNet, DisconnectSse DEF Logout, Alive
  <2>2. ServerOK' /\ ClientOK'
    BY <1>6, <1>s DEF Logout, Parts, ServerOK, ClientOK, client, server
  <2> QED
    BY <2>1, <2>2 DEF Parts, Alive, SseOK, SseStates, ProbingIn, Nets, Requests
<1>7. CASE ReloadUser
  <2>1. net' \in Nets /\ Alive(net', sse)
    BY <1>0, <1>7, PutNet DEF ReloadUser, Alive
  <2>2. ServerOK' /\ ClientOK'
    BY <1>7, <1>s DEF ReloadUser, Parts, ServerOK, ClientOK, client, server
  <2> QED
    BY <1>0, <1>7, <2>1, <2>2
    DEF ReloadUser, Parts, Alive, SseOK, SseStates, ProbingIn, Nets, Requests
<1>8. CASE BackToPassword
  <2>1. ServerOK' /\ ClientOK'
    BY <1>8, <1>s DEF BackToPassword, Parts, ServerOK, ClientOK, server
  <2> QED
    BY <1>0, <1>8, <2>1
    DEF BackToPassword, Parts, Alive, SseOK, SseStates, ProbingIn, Nets, Requests
<1> QED
  BY <1>1, <1>2, <1>3, <1>4, <1>5, <1>6, <1>7, <1>8 DEF User

LEMMA AnswerNet ==
  ASSUME net \in Nets, Alive(net, sse), NEW s \in Slots, net[s] # None,
         NEW a \in {"none", "ok", "code", "denied", "error"}, Answer(s, a)
  PROVE  net' \in Nets /\ Alive(net', sse)
<1>1. net[s] \in Requests
  BY DEF Nets
<1>2. [net[s] EXCEPT !.answer = a] \in Requests
  BY <1>1 DEF Requests
<1>3. net' = [net EXCEPT ![s] = [net[s] EXCEPT !.answer = a]]
  BY DEF Answer
<1>4. [net[s] EXCEPT !.answer = a] # None
  BY <1>2, SessionAssumption DEF Requests, SessionAssumption
<1> HIDE DEF Requests, Answer
<1> QED
  BY <1>2, <1>3, <1>4 DEF Nets, Alive, ProbingIn

(* A session issued: the answer carries it.                                *)
LEMMA IssuedNet ==
  ASSUME net \in Nets, Alive(net, sse), NEW s \in Slots, net[s] # None,
         NEW c \in 0 .. MaxIssued,
         net' = [net EXCEPT ![s] = [cookie |-> c, answer |-> "ok", mock |-> 0, demo |-> FALSE]]
  PROVE  net' \in Nets /\ Alive(net', sse)
<1> DEFINE request == [cookie |-> c, answer |-> "ok", mock |-> 0, demo |-> FALSE]
<1>1. request \in Requests
  BY DEF Requests
<1>2. Requests \subseteq [cookie : Nat, answer : {"none", "ok", "code", "denied", "error"},
                         mock : Nat, demo : BOOLEAN]
  BY DEF Requests
<1>3. request # None
  BY <1>1, <1>2, SessionAssumption DEF SessionAssumption
<1>4. net' = [net EXCEPT ![s] = request]
  OBVIOUS
<1> HIDE DEF request
<1>5. net' \in Nets
  BY <1>1, <1>4 DEF Nets
<1>6. ProbingIn(net) => ProbingIn(net')
  BY <1>3, <1>4 DEF Nets, ProbingIn
<1> QED
  BY <1>5, <1>6 DEF Alive

(* The sessions of the mocks keep their type.                              *)
LEMMA ServeMockType ==
  ASSUME Parts, NEW s \in Slots, net[s] # None, ServeMock(s)
  PROVE  mocks' \in [made : Nat, signed : SUBSET Nat]
<1> DEFINE m == net[s].mock
<1>1. m \in Nat
  BY DEF Parts, Nets, Requests
<1>2. PICK x : x \in {mocks.signed \cup {m}, mocks.signed \ {m}, mocks.signed}
                 /\ mocks' = [mocks EXCEPT !.signed = x]
  BY DEF ServeMock
<1> HIDE DEF m
<1>3. x \in SUBSET Nat
  BY <1>1, <1>2 DEF Parts, ServerOK
<1> QED
  BY <1>2, <1>3 DEF Parts, ServerOK

LEMMA ServeStep == ASSUME Parts, NEW s \in Slots, Serve(s) PROVE Parts'
<1>0. /\ net \in Nets /\ SseOK(sse) /\ Alive(net, sse) /\ net[s] # None
      /\ ClientOK /\ UNCHANGED <<client, sse, cookie>>
  BY DEF Parts, Serve
<1>1. ClientOK' /\ SseOK(sse')
  BY <1>0 DEF client, ClientOK, SseOK, SseStates
<1> DEFINE Served == net' \in Nets /\ Alive(net', sse) /\ ServerOK'
<1>a. ASSUME NEW a \in {"none", "ok", "code", "denied", "error"}, Answer(s, a)
      PROVE  net' \in Nets /\ Alive(net', sse)
  BY <1>0, <1>a, AnswerNet
<1>2. ASSUME ServeMock(s) PROVE Served
  <2>1. PICK a \in {"ok", "denied"} : Answer(s, a)
    BY <1>2 DEF ServeMock
  <2>2. UNCHANGED <<sessions, issued, count>>
    BY <1>2 DEF ServeMock
  <2>3. mocks' \in [made : Nat, signed : SUBSET Nat]
    BY <1>0, <1>2, ServeMockType
  <2> QED
    BY <1>0, <1>a, <2>1, <2>2, <2>3 DEF Parts, ServerOK
<1>3. ASSUME ServeHttp(s) PROVE Served
  <2>1. UNCHANGED mocks
    BY <1>3 DEF ServeHttp
  <2>2. CASE /\ UNCHANGED <<sessions, issued, count>>
             /\ \E a \in {"ok", "code", "denied"} : Answer(s, a)
    BY <1>0, <1>a, <2>1, <2>2 DEF Parts, ServerOK
  <2>3. CASE /\ issued < MaxIssued
             /\ issued' = issued + 1 /\ sessions' = sessions \cup {issued'}
             /\ net' = [net EXCEPT ![s] = [cookie |-> issued', answer |-> "ok", mock |-> 0,
                                           demo |-> FALSE]]
             /\ UNCHANGED count
    <3>1. issued' \in 0 .. MaxIssued /\ sessions' \in SUBSET (1 .. issued')
      BY <2>3, SessionAssumption DEF Parts, ServerOK, SessionAssumption
    <3>2. net' \in Nets /\ Alive(net', sse)
      BY <1>0, <2>3, <3>1, IssuedNet
    <3> QED
      BY <1>0, <2>1, <2>3, <3>1, <3>2 DEF Parts, ServerOK
  <2>4. CASE /\ sessions' = sessions \ {net[s].cookie}
             /\ Answer(s, "ok") /\ UNCHANGED <<issued, count>>
    BY <1>0, <1>a, <2>1, <2>4 DEF Parts, ServerOK
  <2>5. CASE Mishap /\ Answer(s, "error") /\ UNCHANGED <<sessions, issued>>
    BY <1>0, <1>a, <2>1, <2>5, SpendType DEF Parts, ServerOK, Mishap
  <2>6. (IF net[s].cookie \in sessions THEN "ok" ELSE "denied") \in {"ok", "code", "denied"}
    OBVIOUS
  <2> QED
    BY <1>3, <2>2, <2>3, <2>4, <2>5, <2>6 DEF ServeHttp
<1>4. Served
  <2> HIDE DEF Served
  <2> QED
    BY <1>2, <1>3 DEF Serve
<1> QED
  BY <1>0, <1>1, <1>4 DEF Parts, Alive, SseOK, SseStates, ProbingIn, Nets, Requests

LEMMA DeliverStep == ASSUME Parts, NEW s \in Slots, Deliver(s) PROVE Parts'
<1>0. /\ cookie \in 0 .. MaxIssued /\ net \in Nets /\ SseOK(sse) /\ Alive(net, sse)
      /\ Freed(s) \in Nets /\ demo \in BOOLEAN /\ Provider \in Nat
  BY FreedNet, ProviderNat DEF Parts, ServerOK, ClientOK
<1>f. s[1] # "probe" => Alive(Freed(s), sse)
  BY <1>0, FreedNet
<1> DEFINE Done == net' \in Nets /\ SseOK(sse') /\ Alive(net', sse')
<1>e. ASSUME s[1] # "probe",
             Expired(Freed(s), sse) \/ (net' = Freed(s) /\ UNCHANGED sse)
      PROVE  Done
  BY <1>0, <1>f, <1>e, ExpiredOK
<1>p. ASSUME Done, ClientOK', ServerOK' PROVE Parts'
  BY <1>p DEF Parts, Alive, SseOK, SseStates, ProbingIn, Nets, Requests
<1>1. CASE GotMe(s)
  <2>1. Done
    BY <1>1, <1>e DEF GotMe, Delivered
  <2>2. ServerOK'
    BY <1>1 DEF GotMe, Parts, ServerOK, server
  <2>3. user' \in {"none", "real", "demo"}
    BY <1>1 DEF GotMe, SignedIn, Parts, ClientOK
  <2>4. ClientOK'
    BY <1>1, <2>3 DEF GotMe, Parts, ClientOK
  <2> QED
    BY <2>1, <2>2, <2>4, <1>p
<1>2. CASE GotData(s)
  <2>1. Done
    BY <1>2, <1>e DEF GotData, Delivered
  <2>2. ServerOK' /\ ClientOK'
    BY <1>2 DEF GotData, Parts, ServerOK, ClientOK, client, server
  <2> QED
    BY <2>1, <2>2, <1>p
<1>3. CASE GotLogin(s)
  <2>0. s[1] # "probe" /\ net[s] \in Requests
    BY <1>0, <1>3 DEF GotLogin, Delivered, Nets
  <2>1. CASE net[s].answer = "ok"
    <3>1. net' = Freed(s) /\ sse' \in Connect(sse)
      BY <1>3, <2>1 DEF GotLogin
    <3>2. Done
      BY <1>0, <3>1, ConnectSse DEF Alive
    <3>3. cookie' \in 0 .. MaxIssued /\ user' \in {"none", "real", "demo"} /\ form' = form
      BY <1>0, <1>3, <2>0, <2>1 DEF GotLogin, SignedIn, Requests
    <3>4. ClientOK' /\ ServerOK'
      BY <1>3, <3>3 DEF GotLogin, Parts, ClientOK, ServerOK, server
    <3> QED
      BY <3>2, <3>4, <1>p
  <2>2. CASE net[s].answer # "ok"
    <3>1. Expired(Freed(s), sse) \/ (net' = Freed(s) /\ UNCHANGED sse)
      BY <1>3, <2>2 DEF GotLogin
    <3>2. Done
      BY <1>e, <2>0, <3>1
    <3>3. form' \in {"password", "code", "busy"} /\ UNCHANGED <<user, cookie>>
      BY <1>3, <2>2 DEF GotLogin
    <3>4. ClientOK' /\ ServerOK'
      BY <1>3, <3>3 DEF GotLogin, Parts, ClientOK, ServerOK, server
    <3> QED
      BY <3>2, <3>4, <1>p
  <2> QED
    BY <2>1, <2>2
<1>4. CASE GotLogout(s)
  <2>1. net' = Freed(s) /\ (sse' \in Connect(sse) \/ sse' = sse) /\ s[1] # "probe"
    BY <1>4 DEF GotLogout, Delivered
  <2>2. Done
    <3>1. CASE sse' \in Connect(sse)
      BY <1>0, <2>1, <3>1, ConnectSse DEF Alive
    <3>2. CASE sse' = sse
      BY <1>0, <1>f, <2>1, <3>2
    <3> QED
      BY <2>1, <3>1, <3>2
  <2>3. cookie' \in 0 .. MaxIssued
    BY <1>0, <1>4, SessionAssumption DEF GotLogout, SessionAssumption
  <2>4. ServerOK'
    BY <1>4, <2>3 DEF GotLogout, Parts, ServerOK, server
  <2>5. provider' \in {"http", "mock"} /\ saved' \in BOOLEAN /\ demo' \in BOOLEAN
    BY <1>4 DEF GotLogout, Parts, ClientOK
  <2>6. form' \in {"password", "code", "busy"}
    BY <1>4 DEF GotLogout, Parts, ClientOK
  <2>7. ClientOK'
    BY <1>4, <2>5, <2>6 DEF GotLogout, Parts, ClientOK
  <2> QED
    BY <2>2, <2>4, <2>7, <1>p
<1>5. CASE GotEnter(s)
  <2>1. Done
    <3>1. net' \in Nets /\ (ProbingIn(Freed(s)) => ProbingIn(net'))
      BY <1>0, <1>5, PutNet DEF GotEnter
    <3>2. Alive(Freed(s), sse) /\ sse' = sse
      BY <1>5, <1>f DEF GotEnter, Delivered
    <3> QED
      BY <1>0, <3>1, <3>2 DEF Alive
  <2>2. ServerOK' /\ ClientOK'
    BY <1>5 DEF GotEnter, Parts, ServerOK, ClientOK, server
  <2> QED
    BY <2>1, <2>2, <1>p
<1>6. CASE GotDemoMe(s)
  <2>1. Done
    BY <1>6, <1>e DEF GotDemoMe, Delivered
  <2>2. user' \in {"none", "real", "demo"} /\ form' \in {"password", "code", "busy"}
    BY <1>6 DEF GotDemoMe, SignedIn, Parts, ClientOK
  <2>3. ServerOK' /\ ClientOK'
    BY <1>6, <2>2 DEF GotDemoMe, Parts, ServerOK, ClientOK, server
  <2> QED
    BY <2>1, <2>3, <1>p
<1>7. CASE GotProbe(s)
  <2> DEFINE p == Probed(sse, net[s].answer)
  <2>1. SseOK(p.sse) /\ (p.sse.stopped \/ p.sse.timer)
    BY <1>0, ProbedSse
  <2>2. IF p.gaveUp THEN Expired(Freed(s), p.sse) ELSE net' = Freed(s) /\ sse' = p.sse
    BY <1>7 DEF GotProbe
  <2> HIDE DEF p
  <2>3. Done
    BY <1>0, <2>1, <2>2, ExpiredOK DEF Alive
  <2>4. ServerOK' /\ ClientOK'
    BY <1>7 DEF GotProbe, Parts, ServerOK, ClientOK, client, server
  <2> QED
    BY <2>3, <2>4, <1>p
<1> QED
  BY <1>1, <1>2, <1>3, <1>4, <1>5, <1>6, <1>7 DEF Deliver

(* The steps of the stream, and a session that runs out.                   *)
LEMMA FailedOK ==
  ASSUME Parts, NEW s \in Streams, NEW after \in {"closed", "opening"}, Failed(s, after)
  PROVE  net' \in Nets /\ SseOK(sse') /\ Alive(net', sse')
<1> DEFINE x == [sse EXCEPT !.live[s] = after]
<1>1. SseOK(x)
  <2>1. x = [sse EXCEPT !.live = [sse.live EXCEPT ![s] = after]]
    BY DEF Parts, SseOK, SseStates
  <2>2. [sse.live EXCEPT ![s] = after] \in [Streams -> {"closed", "opening", "open"}]
    BY DEF Parts, SseOK, SseStates
  <2> QED
    BY <2>1, <2>2 DEF Parts, SseOK, SseStates
<1>2. sse' = Closed(x)
  BY DEF Failed
<1> HIDE DEF x
<1>3. SseOK(sse')
  BY <1>1, <1>2, ClosedSse
<1>4. cookie \in 0 .. MaxIssued /\ net \in Nets /\ demo \in BOOLEAN
  BY DEF Parts, ServerOK, ClientOK
<1>5. CASE sse'.stopped
  BY <1>3, <1>4, <1>5 DEF Failed, Alive
<1>6. CASE ~sse'.stopped
  BY <1>3, <1>4, <1>6, PutNet DEF Failed, Alive
<1> QED
  BY <1>5, <1>6

LEMMA StreamStep ==
  ASSUME Parts,
         Ask \/ Expire \/ Fire \/ (\E s \in Streams : Opened(s) \/ Refused(s) \/ Cut(s))
  PROVE  Parts'
<1>0. /\ cookie \in 0 .. MaxIssued /\ net \in Nets /\ SseOK(sse) /\ Alive(net, sse)
      /\ demo \in BOOLEAN /\ Provider \in Nat
  BY ProviderNat DEF Parts, ServerOK, ClientOK
<1> DEFINE Done == net' \in Nets /\ SseOK(sse') /\ Alive(net', sse')
<1>p. ASSUME Done, ClientOK', ServerOK' PROVE Parts'
  BY <1>p DEF Parts, Alive, SseOK, SseStates, ProbingIn, Nets, Requests
<1>1. CASE Ask
  <2>2. Done
    BY <1>0, <1>1, PutNet DEF Ask, Alive
  <2>3. ServerOK' /\ ClientOK'
    BY <1>1 DEF Ask, Parts, ServerOK, ClientOK, client, server
  <2> QED
    BY <2>2, <2>3, <1>p
<1>2. CASE Expire
  <2>1. Done
    BY <1>0, <1>2 DEF Expire
  <2>2. ServerOK' /\ ClientOK'
    BY <1>2, SpendType DEF Expire, Mishap, Parts, ServerOK, ClientOK, client, server
  <2> QED
    BY <2>1, <2>2, <1>p
<1>3. CASE Fire
  <2> DEFINE x == [sse EXCEPT !.timer = FALSE]
  <2>1. SseOK(x)
    BY <1>0 DEF SseOK, SseStates
  <2>2. sse' \in OpenStream(x) /\ net' = net
    BY <1>3 DEF Fire
  <2> HIDE DEF x
  <2>3. Done
    BY <1>0, <2>1, <2>2, OpenSse DEF Alive
  <2>4. ServerOK' /\ ClientOK'
    BY <1>3 DEF Fire, Parts, ServerOK, ClientOK, client, server
  <2> QED
    BY <2>3, <2>4, <1>p
<1>4. ASSUME NEW s \in Streams, Opened(s) PROVE Parts'
  <2>1. [sse.live EXCEPT ![s] = "open"] \in [Streams -> {"closed", "opening", "open"}]
    BY <1>0 DEF SseOK, SseStates
  <2>2. sse' = [stopped |-> sse.stopped, timer |-> sse.timer, fails |-> 0, es |-> sse.es,
                live |-> [sse.live EXCEPT ![s] = "open"]]
    BY <1>0, <1>4 DEF Opened, SseOK, SseStates
  <2>3. SseOK(sse') /\ sse'.stopped = sse.stopped /\ sse'.es = sse.es /\ sse'.timer = sse.timer
    BY <1>0, <2>1, <2>2 DEF SseOK, SseStates, MaxAuthFails
  <2>4. Done
    BY <1>0, <1>4, <2>3 DEF Opened, Alive
  <2>5. ServerOK' /\ ClientOK'
    BY <1>4 DEF Opened, Parts, ServerOK, ClientOK, client, server
  <2> QED
    BY <2>4, <2>5, <1>p
<1>5. ASSUME NEW s \in Streams, Refused(s) PROVE Parts'
  <2>1. Done
    BY <1>5, FailedOK DEF Refused
  <2>2. ServerOK' /\ ClientOK'
    BY <1>5 DEF Refused, Failed, Parts, ServerOK, ClientOK, client, server
  <2> QED
    BY <2>1, <2>2, <1>p
<1>6. ASSUME NEW s \in Streams, Cut(s) PROVE Parts'
  <2>1. Done
    BY <1>6, FailedOK DEF Cut
  <2>2. ServerOK' /\ ClientOK'
    BY <1>6, SpendType DEF Cut, Mishap, Failed, Parts, ServerOK, ClientOK, client, server
  <2> QED
    BY <2>1, <2>2, <1>p
<1> QED
  BY <1>1, <1>2, <1>3, <1>4, <1>5, <1>6

-----------------------------------------------------------------------------
LEMMA NextIInv == IInv /\ [Next]_vars => IInv'
<1>1. ASSUME Parts, UNCHANGED vars PROVE Parts'
  BY <1>1 DEF vars, client, server, Parts, ClientOK, ServerOK, Alive, SseOK, SseStates, ProbingIn, Nets, Requests
<1>2. Parts' => IInv'
  BY IInvIsParts, PTL
<1> QED
  BY <1>1, <1>2, IInvIsParts, UserStep, StreamStep, ServeStep, DeliverStep DEF Next

(* The types hold, with the bound on refusals: a tab gives up its stream   *)
(* at the third (events.ts, probeAndRetry).                                *)
THEOREM SessionTypeOK == Spec => []TypeOK
<1>1. IInv => TypeOK
  BY DEF IInv
<1> QED
  BY InitIInv, NextIInv, <1>1, PTL DEF Spec

(* A stream that was not stopped never falls silent: an EventSource, a     *)
(* retry or a probe is always there to go on (events.ts).                  *)
THEOREM SessionNeverSilent == Spec => []NeverSilent
<1>1. IInv => NeverSilent
  BY DEF IInv
<1> QED
  BY InitIInv, NextIInv, <1>1, PTL DEF Spec
=============================================================================
