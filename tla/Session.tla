------------------------------ MODULE Session -------------------------------
(***************************************************************************)
(* A tab of the web client and its session: web/src/ui/store.tsx with the  *)
(* event stream of web/src/data/events.ts, the choice of provider in       *)
(* data/index.ts and what data/http.ts does with a 401.  Everything the    *)
(* tab asks of the server is a request in flight: sent with the cookie of  *)
(* that moment, served later, delivered later still, in any order; what    *)
(* the tab does then it does to the state it finds.                        *)
(*                                                                         *)
(* Abstracted: who the user is, languages, themes, routes, the back-off's  *)
(* length, capabilities.  A slot of the network takes a request of its     *)
(* kind; that there are so many of a kind is a bound.                      *)
(***************************************************************************)
EXTENDS Naturals, FiniteSets

CONSTANTS
  Slots,        \* pairs <<kind, number>>: what may be in flight together
  Streams,      \* EventSource objects
  None,         \* no stream, no request
  MaxIssued,    \* bound on the sessions the server issues
  MaxMishaps,   \* bound on requests lost, streams cut, sessions expired
  MaxGestures   \* bound on what the user does

Kinds == {"me", "data", "login", "code", "logout", "probe", "enter", "demo_me"}

ASSUME SessionAssumption ==
  /\ Slots \subseteq Kinds \X Nat
  /\ None \notin Streams
  /\ None \notin [cookie : Nat, answer : {"none", "ok", "code", "denied", "error"}, mock : Nat,
                  demo : BOOLEAN]
  /\ {MaxIssued, MaxMishaps, MaxGestures} \subseteq Nat /\ MaxIssued > 0

VARIABLES
  provider,  \* "http" or "mock"
  saved,     \* localStorage: a demo session
  demo,      \* store: demo
  user,      \* store: user; "none", "real" or "demo"
  ready,     \* store: ready
  form,      \* Login: "password", "code" or "busy"
  sse,       \* events.ts: stopped, timer (retryTimer), fails (authFails), es, live
  net,       \* the request in each slot
  cookie,    \* the browser's cookie: the number of a session, 0 for none
  sessions,  \* server: the sessions that are valid
  issued,    \* server: how many it has issued
  mocks,     \* the MockProviders of this page: how many, which have a session
  count      \* bounds used up

client == <<provider, saved, demo, user, ready, form>>
server == <<sessions, issued, mocks>>
vars == <<client, sse, net, cookie, server, count>>

MaxAuthFails == 3

Requests == [cookie : 0 .. MaxIssued, answer : {"none", "ok", "code", "denied", "error"},
             mock : Nat, demo : BOOLEAN]

TypeOK ==
  /\ provider \in {"http", "mock"} /\ saved \in BOOLEAN /\ demo \in BOOLEAN /\ ready \in BOOLEAN
  /\ user \in {"none", "real", "demo"}
  /\ form \in {"password", "code", "busy"}
  /\ sse \in [stopped : BOOLEAN, timer : BOOLEAN, fails : 0 .. MaxAuthFails,
              es : Streams \cup {None}, live : [Streams -> {"closed", "opening", "open"}]]
  /\ net \in [Slots -> Requests \cup {None}]
  /\ cookie \in 0 .. MaxIssued /\ issued \in 0 .. MaxIssued
  /\ sessions \in SUBSET (1 .. issued)
  /\ mocks \in [made : Nat, signed : SUBSET Nat]
  /\ count \in [{"mishap", "gesture"} -> Nat]

Spend(c, max) == count[c] < max /\ count' = [count EXCEPT ![c] = count[c] + 1]
Mishap == Spend("mishap", MaxMishaps)
Gesture == Spend("gesture", MaxGestures)

-----------------------------------------------------------------------------
(* events.ts, as functions of its state.                                   *)
Closed(x) ==
  IF x.es = None THEN x ELSE [x EXCEPT !.live[x.es] = "closed", !.es = None]

Disconnect(x) == [Closed(x) EXCEPT !.stopped = TRUE, !.timer = FALSE]

(* openStream: a new EventSource takes the place of es, whatever it was.   *)
OpenStream(x) ==
  IF x.stopped THEN {x}
  ELSE {[x EXCEPT !.live[s] = "opening", !.es = s] : s \in {t \in Streams : x.live[t] = "closed"}}

Connect(x) ==
  OpenStream([stopped |-> FALSE, timer |-> FALSE, fails |-> 0, es |-> None,
              live |-> Closed(x).live])

ScheduleRetry(x) == IF x.stopped THEN x ELSE [x EXCEPT !.timer = TRUE]

ProbedForever(x, answer) ==
  [sse |-> ScheduleRetry(IF answer = "denied" THEN [x EXCEPT !.fails = x.fails + 1] ELSE x),
   gaveUp |-> FALSE]

(* probeAndRetry after its fetch: TRUE in gaveUp means notifyAuthExpired.  *)
Probed(x, answer) ==
  LET known == [x EXCEPT !.fails = IF answer = "ok" THEN 0
                                   ELSE IF answer = "denied" THEN x.fails + 1 ELSE x.fails]
  IN  IF x.stopped THEN [sse |-> [x EXCEPT !.fails = IF answer = "ok" THEN 0 ELSE x.fails],
                         gaveUp |-> FALSE]
      ELSE IF answer = "denied" /\ known.fails >= MaxAuthFails
      THEN [sse |-> Disconnect(known), gaveUp |-> TRUE]
      ELSE [sse |-> ScheduleRetry(known), gaveUp |-> FALSE]

(* The request of a kind, put on a free slot of a network, to the provider *)
(* named: 0 is the server, another number a MockProvider.  A logout goes   *)
(* on with the demo of the moment it was called.                           *)
Put(n, kind, mock) ==
  {[n EXCEPT ![s] = [cookie |-> cookie, answer |-> "none", mock |-> mock,
                     demo |-> kind = "logout" /\ demo]] :
     s \in {t \in Slots : t[1] = kind /\ n[t] = None}}

(* getProvider().                                                          *)
Provider == IF provider = "mock" THEN mocks.made ELSE 0

ExpiredWhileStreaming(n, x) ==
  IF demo \/ user = "none" \/ x.stopped THEN net' = n /\ sse' = x
  ELSE net' \in Put(n, "logout", Provider) /\ sse' = Disconnect(x)

(* The store's listener of AUTH_EXPIRED_EVENT; logout cuts the stream,     *)
(* then asks the provider there is, which is a mock while the demo is      *)
(* being entered.                                                          *)
Expired(n, x) ==
  IF demo \/ user = "none" THEN net' = n /\ sse' = x
  ELSE net' \in Put(n, "logout", Provider) /\ sse' = Disconnect(x)

-----------------------------------------------------------------------------
(* What the user does.                                                     *)

(* A page that loads: initProvider, then me.                               *)
Boot ==
  /\ user' = "none" /\ ready' = FALSE /\ demo' = FALSE /\ form' = "password"
  /\ LET blank == [s \in Slots |-> None]
         start == [stopped |-> TRUE, timer |-> FALSE, fails |-> 0, es |-> None,
                   live |-> [s \in Streams |-> "closed"]]
     IN  IF saved
         THEN /\ provider' = "mock" /\ sse' = start /\ net' \in Put(blank, "enter", 1)
              /\ mocks' = [made |-> 1, signed |-> {}]
         ELSE /\ provider' = "http" /\ sse' \in Connect(start) /\ net' \in Put(blank, "me", 0)
              /\ mocks' = [made |-> 0, signed |-> {}]

Reload == Gesture /\ Boot /\ UNCHANGED <<saved, cookie, sessions, issued>>

(* The login form: it is shown when nobody is signed in, and its buttons   *)
(* are off while it is busy.                                               *)
AtForm(f) == ready /\ user = "none" /\ form = f

SubmitPassword ==
  /\ AtForm("password") /\ Gesture
  /\ form' = "busy"
  /\ net' \in Put(net, "login", Provider)
  /\ UNCHANGED <<provider, saved, demo, user, ready, sse, cookie, server>>

SubmitCode ==
  /\ AtForm("code") /\ Gesture
  /\ form' = "busy"
  /\ net' \in Put(net, "code", Provider)
  /\ UNCHANGED <<provider, saved, demo, user, ready, sse, cookie, server>>

BackToPassword ==
  /\ AtForm("code") /\ Gesture
  /\ form' = "password"
  /\ UNCHANGED <<provider, saved, demo, user, ready, sse, net, cookie, server>>

(* Nobody leaves the demo and enters it again in the 80 ms that the logout *)
(* of a mock takes.                                                        *)
EnterDemo ==
  /\ AtForm("password") /\ Gesture
  /\ \A s \in Slots : s[1] = "logout" /\ net[s] # None => net[s].mock = 0
  /\ form' = "busy" /\ saved' = TRUE /\ provider' = "mock"
  /\ sse' = Disconnect(sse)
  /\ mocks' = [mocks EXCEPT !.made = mocks.made + 1]
  /\ net' \in Put(net, "enter", mocks.made + 1)
  /\ UNCHANGED <<demo, user, ready, cookie, sessions, issued>>

ExitDemo ==
  /\ ready /\ user # "none" /\ demo /\ Gesture
  /\ saved' = FALSE /\ provider' = "http" /\ demo' = FALSE /\ user' = "none" /\ form' = "password"
  /\ sse' \in Connect(sse)
  /\ UNCHANGED <<ready, net, cookie, server>>

Logout ==
  /\ ready /\ user # "none" /\ Gesture
  /\ sse' = Disconnect(sse)
  /\ net' \in Put(net, "logout", Provider)
  /\ UNCHANGED <<client, cookie, server>>

(* Saving the profile reads me again.                                      *)
ReloadUser ==
  /\ ready /\ user # "none" /\ Gesture
  /\ net' \in Put(net, "me", Provider)
  /\ UNCHANGED <<client, sse, cookie, server>>

(* The views and the timers of the shell ask for data all the time.        *)
Ask ==
  /\ ready /\ user # "none"
  /\ net' \in Put(net, "data", Provider)
  /\ UNCHANGED <<client, sse, cookie, server, count>>

-----------------------------------------------------------------------------
(* The server (auth_handlers.go), the providers of the demo, the network.  *)
Answer(s, a) == net' = [net EXCEPT ![s].answer = a]

(* A MockProvider (mock.ts) has a session from its login to its logout.    *)
ServeMock(s) ==
  LET m == net[s].mock
  IN  /\ m # 0
      /\ Answer(s, IF s[1] \in {"me", "demo_me", "code"} /\ m \notin mocks.signed
                   THEN "denied" ELSE "ok")
      /\ mocks' = [mocks EXCEPT !.signed = CASE s[1] \in {"enter", "login"} -> @ \cup {m}
                                            [] s[1] = "logout" -> @ \ {m}
                                            [] OTHER -> @]
      /\ UNCHANGED <<sessions, issued, count>>

ServeHttp(s) ==
  /\ net[s].mock = 0
  /\ \/ /\ s[1] \in {"me", "demo_me", "data", "probe"}
        /\ Answer(s, IF net[s].cookie \in sessions THEN "ok" ELSE "denied")
        /\ UNCHANGED <<sessions, issued, count>>
     \/ /\ s[1] = "login"
        /\ \E a \in {"code", "denied"} : Answer(s, a)
        /\ UNCHANGED <<sessions, issued, count>>
     \/ /\ s[1] \in {"login", "code"} /\ issued < MaxIssued
        /\ issued' = issued + 1 /\ sessions' = sessions \cup {issued'}
        /\ net' = [net EXCEPT ![s] = [cookie |-> issued', answer |-> "ok", mock |-> 0,
                                      demo |-> FALSE]]
        /\ UNCHANGED count
     \/ /\ s[1] = "code"
        /\ Answer(s, "denied") /\ UNCHANGED <<sessions, issued, count>>
     \/ /\ s[1] = "logout"
        /\ sessions' = sessions \ {net[s].cookie}
        /\ Answer(s, "ok") /\ UNCHANGED <<issued, count>>
     \/ /\ Mishap
        /\ Answer(s, "error") /\ UNCHANGED <<sessions, issued>>
  /\ UNCHANGED mocks

Serve(s) ==
  /\ net[s] # None /\ net[s].answer = "none"
  /\ ServeMock(s) \/ ServeHttp(s)
  /\ UNCHANGED <<client, sse, cookie>>

(* A session runs out, or an administrator closes it.                      *)
Expire ==
  /\ Mishap
  /\ \E t \in sessions : sessions' = sessions \ {t}
  /\ UNCHANGED <<client, sse, net, cookie, issued, mocks>>

-----------------------------------------------------------------------------
(* What the tab does with the answers.                                     *)
Freed(s) == [net EXCEPT ![s] = None]
Delivered(s, kind) == s[1] = kind /\ net[s] # None /\ net[s].answer # "none"
SignedIn(s) == IF net[s].mock # 0 THEN "demo" ELSE "real"

(* A 401 that http.ts tells of; a mock's is an error and no more.          *)
Unauthorized(s) == net[s].answer = "denied" /\ net[s].mock = 0 /\ s[1] # "login"

(* me: at start, where it also ends the splash, and after a profile.       *)
GotMe(s) ==
  /\ Delivered(s, "me")
  /\ ready' = TRUE
  /\ user' = IF net[s].answer = "ok" THEN SignedIn(s) ELSE IF ready THEN user ELSE "none"
  /\ IF Unauthorized(s) THEN Expired(Freed(s), sse)
     ELSE net' = Freed(s) /\ UNCHANGED sse
  /\ UNCHANGED <<provider, saved, demo, form, cookie, server, count>>

GotData(s) ==
  /\ Delivered(s, "data")
  /\ IF Unauthorized(s) THEN Expired(Freed(s), sse)
     ELSE net' = Freed(s) /\ UNCHANGED sse
  /\ UNCHANGED <<client, cookie, server, count>>

(* login and login2FA: a session, the second step, or a message.  A code   *)
(* refused is a 401 like any other for http.ts, which excepts /login only. *)
GotLogin(s) ==
  /\ Delivered(s, "login") \/ Delivered(s, "code")
  /\ \/ /\ net[s].answer = "ok"
        /\ user' = SignedIn(s)
        /\ cookie' = IF net[s].mock # 0 THEN cookie ELSE net[s].cookie
        /\ net' = Freed(s) /\ sse' \in Connect(sse)
        /\ UNCHANGED form
     \/ /\ net[s].answer # "ok"
        /\ form' = IF net[s].answer = "code" \/ s[1] = "code" THEN "code" ELSE "password"
        /\ IF Unauthorized(s) THEN Expired(Freed(s), sse)
           ELSE net' = Freed(s) /\ UNCHANGED sse
        /\ UNCHANGED <<user, cookie>>
  /\ UNCHANGED <<provider, saved, demo, ready, server, count>>

(* logout, whatever the answer; the answer expires the cookie.  What it    *)
(* leaves depends on the demo of the moment it was called, and not on the  *)
(* provider it asked.                                                      *)
GotLogout(s) ==
  /\ Delivered(s, "logout")
  /\ net' = Freed(s)
  /\ cookie' = IF net[s].answer = "ok" /\ net[s].mock = 0 THEN 0 ELSE cookie
  /\ IF net[s].demo
     THEN saved' = FALSE /\ provider' = "http" /\ demo' = FALSE /\ sse' \in Connect(sse)
     ELSE UNCHANGED <<saved, provider, demo, sse>>
  /\ user' = "none"
  /\ form' = IF user = "none" THEN form ELSE "password"
  /\ UNCHANGED <<ready, server, count>>

(* startMock's login has been simulated, then the store reads me, of the   *)
(* provider there is by then; a refusal leaves nobody signed in.           *)
GotEnter(s) ==
  /\ Delivered(s, "enter")
  /\ demo' = TRUE
  /\ net' \in Put(Freed(s), "demo_me", Provider)
  /\ UNCHANGED <<provider, saved, user, ready, form, sse, cookie, server, count>>

GotDemoMe(s) ==
  /\ Delivered(s, "demo_me")
  /\ ready' = TRUE
  /\ user' = IF net[s].answer = "ok" THEN SignedIn(s) ELSE "none"
  /\ form' = IF user = "none" THEN form ELSE "password"
  /\ IF Unauthorized(s) THEN Expired(Freed(s), sse)
     ELSE net' = Freed(s) /\ UNCHANGED sse
  /\ UNCHANGED <<provider, saved, demo, cookie, server, count>>

GotProbe(s) ==
  /\ Delivered(s, "probe")
  /\ LET p == Probed(sse, net[s].answer)
     IN  IF p.gaveUp THEN Expired(Freed(s), p.sse) ELSE net' = Freed(s) /\ sse' = p.sse
  /\ UNCHANGED <<client, cookie, server, count>>

Deliver(s) ==
  GotMe(s) \/ GotData(s) \/ GotLogin(s) \/ GotLogout(s) \/ GotEnter(s) \/ GotDemoMe(s) \/ GotProbe(s)

-----------------------------------------------------------------------------
(* The event stream.                                                       *)
Fire ==
  /\ sse.timer
  /\ sse' \in OpenStream([sse EXCEPT !.timer = FALSE])
  /\ UNCHANGED <<client, net, cookie, server, count>>

(* onopen, when the server accepts the cookie.                             *)
Opened(s) ==
  /\ sse.live[s] = "opening" /\ cookie \in sessions
  /\ sse' = [sse EXCEPT !.live[s] = "open", !.fails = 0]
  /\ UNCHANGED <<client, net, cookie, server, count>>

FailedUnprobed(s, after) ==
  /\ sse' = Closed([sse EXCEPT !.live[s] = after])
  /\ UNCHANGED <<client, net, cookie, server>>

FailedTrusting(s, after) ==
  /\ sse' = [sse EXCEPT !.live[s] = after]
  /\ UNCHANGED <<client, net, cookie, server>>

(* onerror of any EventSource closes the one in es.  Refused by the        *)
(* server, or by a proxy, an EventSource is closed for good; cut, it opens *)
(* again by itself unless it was closed.                                   *)
Failed(s, after) ==
  /\ sse' = Closed([sse EXCEPT !.live[s] = after])
  /\ IF sse'.stopped THEN UNCHANGED net ELSE net' \in Put(net, "probe", 0)
  /\ UNCHANGED <<client, cookie, server>>

Refused(s) ==
  /\ sse.live[s] = "opening" /\ cookie \notin sessions
  /\ Failed(s, "closed") /\ UNCHANGED count

Cut(s) ==
  /\ sse.live[s] # "closed" /\ Mishap
  /\ \E after \in {"opening", "closed"} : Failed(s, after)

-----------------------------------------------------------------------------
Init ==
  /\ saved \in BOOLEAN
  /\ issued = 1 /\ cookie \in {0, 1} /\ sessions \in (SUBSET {cookie}) \ {{0}}
  /\ count = [c \in {"mishap", "gesture"} |-> 0]
  /\ user = "none" /\ ready = FALSE /\ demo = FALSE /\ form = "password"
  /\ LET blank == [s \in Slots |-> None]
         start == [stopped |-> TRUE, timer |-> FALSE, fails |-> 0, es |-> None,
                   live |-> [s \in Streams |-> "closed"]]
     IN  IF saved
         THEN /\ provider = "mock" /\ sse = start /\ net \in Put(blank, "enter", 1)
              /\ mocks = [made |-> 1, signed |-> {}]
         ELSE /\ provider = "http" /\ sse \in Connect(start) /\ net \in Put(blank, "me", 0)
              /\ mocks = [made |-> 0, signed |-> {}]

User ==
  \/ Reload \/ SubmitPassword \/ SubmitCode \/ BackToPassword
  \/ EnterDemo \/ ExitDemo \/ Logout \/ ReloadUser

Next ==
  \/ User \/ Ask \/ Expire \/ Fire
  \/ \E s \in Slots : Serve(s) \/ Deliver(s)
  \/ \E s \in Streams : Opened(s) \/ Refused(s) \/ Cut(s)

Spec == Init /\ [][Next]_vars

(* Requests are answered or fail, timers fire, the views go on asking.     *)
Fairness ==
  /\ WF_vars(Ask) /\ WF_vars(Fire)
  /\ \A s \in Slots : WF_vars(Serve(s)) /\ WF_vars(Deliver(s))
  /\ \A s \in Streams : WF_vars(Opened(s)) /\ WF_vars(Refused(s))

FairSpec == Spec /\ Fairness

-----------------------------------------------------------------------------
(* events.ts:38-43, the stream that is not stopped never falls silent: it  *)
(* has an EventSource, a retry to come, or a probe that will schedule one. *)
Probing == \E s \in Slots : s[1] = "probe" /\ net[s] # None

NeverSilent == sse.stopped \/ sse.es # None \/ sse.timer \/ Probing

(* store.tsx:193-206, a session that is gone is noticed: a tab outside the *)
(* demo does not show a user for ever whose cookie the server refuses.     *)
ExpiredSeen == []<>(user # "real" \/ provider = "mock" \/ cookie \in sessions)

(* events.ts:31-37, the stream comes back: a tab whose session lasts and   *)
(* that did not stop its stream has it open in the end, whatever failed.   *)
StreamBack ==
  <>[](user = "real" /\ cookie \in sessions /\ ~sse.stopped)
    => <>[](sse.es # None /\ sse.live[sse.es] = "open")
=============================================================================
