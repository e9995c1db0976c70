------------------------------ MODULE Webhook -------------------------------
(***************************************************************************)
(* The outgoing webhook: internal/webhook, with main's shutdown.  Whoever  *)
(* raises an alert calls Notify, which never waits; one worker takes the   *)
(* events from a bounded channel, sends each with retries and leaves those *)
(* it could not deliver in the dead-letter table.  On shutdown main closes *)
(* the notifier, waits for its worker and closes the database.             *)
(*                                                                         *)
(* Abstracted: the payload, its signature, the time between attempts.      *)
(***************************************************************************)
EXTENDS Naturals, Sequences

CONSTANTS
  Events,    \* alerts raised in one behaviour; the id is the alert's
  queueCap,  \* room in the channel; 64 in the code
  Retries,   \* WEBHOOK_RETRIES; envInt accepts positive values only
  NoEvent

ASSUME WebhookAssumption ==
  /\ queueCap \in Nat \ {0}
  /\ Retries \in Nat \ {0}
  /\ NoEvent \notin Events

VARIABLES
  notify,   \* each call of Notify: not begun, past the check of done, back
  ch,       \* the channel
  done,     \* the channel done was closed
  worker,   \* pc, event in hand, attempt
  url,      \* settings: TRUE when a URL is set
  dlq,      \* webhook_events
  main,     \* main's goroutine
  fate,     \* history: what became of each event
  tries,    \* history: attempts to send it
  refused   \* history: events the receiver refused for good

vars == <<notify, ch, done, worker, url, dlq, main, fate, tries, refused>>

Workers ==
  [pc : {"select", "url", "send", "save", "stopped"},
   ev : Events \cup {NoEvent}, attempt : 0 .. Retries]

TypeOK ==
  /\ notify \in [Events -> {"none", "offer", "back"}]
  /\ ch \in Seq(Events) /\ Len(ch) <= queueCap
  /\ done \in BOOLEAN
  /\ worker \in Workers
  /\ url \in BOOLEAN
  /\ dlq \in SUBSET Events
  /\ main \in {"serving", "closing", "closed", "exit"}
  /\ fate \in [Events -> {"none", "accepted", "lost", "delivered", "dead", "skipped"}]
  /\ tries \in [Events -> 0 .. Retries + 1]
  /\ refused \in SUBSET Events

Waiting == [pc |-> "select", ev |-> NoEvent, attempt |-> 0]

Init ==
  /\ notify = [e \in Events |-> "none"]
  /\ ch = <<>>
  /\ done = FALSE
  /\ worker = Waiting
  /\ url \in BOOLEAN
  /\ dlq = {}
  /\ main = "serving"
  /\ fate = [e \in Events |-> "none"]
  /\ tries = [e \in Events |-> 0]
  /\ refused = {}

Become(e, f) == fate' = [fate EXCEPT ![e] = f]

-----------------------------------------------------------------------------
(* Notify: done is looked at first, the channel afterwards; the notifier   *)
(* may be closed in between.                                               *)
CheckDone(e) ==
  /\ notify[e] = "none"
  /\ \/ ~done /\ notify' = [notify EXCEPT ![e] = "offer"] /\ UNCHANGED fate
     \/ done /\ notify' = [notify EXCEPT ![e] = "back"] /\ Become(e, "lost")
  /\ UNCHANGED <<ch, done, worker, url, dlq, main, tries, refused>>

OfferToFull(e) ==
  /\ notify[e] = "offer"
  /\ notify' = [notify EXCEPT ![e] = "back"]
  /\ ch' = IF Len(ch) < queueCap THEN Append(ch, e) ELSE Append(Tail(ch), e)
  /\ Become(e, "accepted")
  /\ UNCHANGED <<done, worker, url, dlq, main, tries, refused>>

OfferBeyond(e) ==
  /\ notify[e] = "offer"
  /\ notify' = [notify EXCEPT ![e] = "back"]
  /\ \/ Len(ch) <= queueCap /\ ch' = Append(ch, e) /\ Become(e, "accepted")
     \/ Len(ch) > queueCap /\ UNCHANGED ch /\ Become(e, "lost")
  /\ UNCHANGED <<done, worker, url, dlq, main, tries, refused>>

Offer(e) ==
  /\ notify[e] = "offer"
  /\ notify' = [notify EXCEPT ![e] = "back"]
  /\ \/ Len(ch) < queueCap /\ ch' = Append(ch, e) /\ Become(e, "accepted")
     \/ Len(ch) = queueCap /\ UNCHANGED ch /\ Become(e, "lost")
  /\ UNCHANGED <<done, worker, url, dlq, main, tries, refused>>

-----------------------------------------------------------------------------
(* The worker's select: when both are ready it picks either.               *)
Stop ==
  /\ worker.pc = "select"
  /\ done
  /\ worker' = [worker EXCEPT !.pc = "stopped"]
  /\ UNCHANGED <<notify, ch, done, url, dlq, main, fate, tries, refused>>

Take ==
  /\ worker.pc = "select"
  /\ ch # <<>>
  /\ worker' = [pc |-> "url", ev |-> Head(ch), attempt |-> 0]
  /\ ch' = Tail(ch)
  /\ UNCHANGED <<notify, done, url, dlq, main, fate, tries, refused>>

(* getURL: no URL, or settings that cannot be read, and the event is       *)
(* dropped.  The URL read serves all the attempts.                         *)
GetURL ==
  /\ worker.pc = "url"
  /\ \/ url /\ worker' = [worker EXCEPT !.pc = "send"] /\ UNCHANGED fate
     \/ worker' = Waiting /\ Become(worker.ev, "skipped")
  /\ UNCHANGED <<notify, ch, done, url, dlq, main, tries, refused>>

(* One attempt.  Answers: 2xx; 4xx other than 429, for good; anything      *)
(* else, a lost connection included, is tried again while attempts last.   *)
Delivered ==
  /\ worker' = Waiting
  /\ Become(worker.ev, "delivered")
  /\ UNCHANGED refused

Refused ==
  /\ refused' = refused \cup {worker.ev}
  /\ worker' = [worker EXCEPT !.pc = "save"]
  /\ UNCHANGED fate

Failed ==
  /\ worker' = IF worker.attempt < Retries
                 THEN [worker EXCEPT !.attempt = worker.attempt + 1]
                 ELSE [worker EXCEPT !.pc = "save"]
  /\ UNCHANGED <<fate, refused>>

SendOneLess ==
  /\ worker.pc = "send"
  /\ tries' = [tries EXCEPT ![worker.ev] = tries[worker.ev] + 1]
  /\ \/ Delivered
     \/ Refused
     \/ worker.attempt + 1 < Retries /\ Failed
     \/ /\ worker.attempt + 1 >= Retries
        /\ worker' = [worker EXCEPT !.pc = "save"]
        /\ UNCHANGED <<fate, refused>>
  /\ UNCHANGED <<notify, ch, done, url, dlq, main>>

SendForEver ==
  LET next == IF worker.attempt < Retries THEN worker.attempt + 1 ELSE 0 IN
  /\ worker.pc = "send"
  /\ \/ Delivered
     \/ Refused
     \/ worker' = [worker EXCEPT !.attempt = next] /\ UNCHANGED <<fate, refused>>
  /\ UNCHANGED <<notify, ch, done, url, dlq, main, tries>>

Send ==
  /\ worker.pc = "send"
  /\ tries' = [tries EXCEPT ![worker.ev] = tries[worker.ev] + 1]
  /\ Delivered \/ Refused \/ Failed
  /\ UNCHANGED <<notify, ch, done, url, dlq, main>>

(* saveDLQ; a failed INSERT is logged and the event is gone.               *)
Save ==
  /\ worker.pc = "save"
  /\ worker' = Waiting
  /\ \/ dlq' = dlq \cup {worker.ev} /\ Become(worker.ev, "dead")
     \/ UNCHANGED dlq /\ Become(worker.ev, "skipped")
  /\ UNCHANGED <<notify, ch, done, url, main, tries, refused>>

-----------------------------------------------------------------------------
(* PUT settings.                                                           *)
SetURL ==
  /\ main # "exit"
  /\ url' = ~url
  /\ UNCHANGED <<notify, ch, done, worker, dlq, main, fate, tries, refused>>

(* Shutdown: close(done); wait for the worker; close the database.         *)
CloseDone ==
  /\ main = "serving"
  /\ main' = "closing"
  /\ done' = TRUE
  /\ UNCHANGED <<notify, ch, worker, url, dlq, fate, tries, refused>>

CloseAtOnce ==
  /\ main = "closing"
  /\ main' = "closed"
  /\ UNCHANGED <<notify, ch, done, worker, url, dlq, fate, tries, refused>>

CloseWait ==
  /\ main = "closing"
  /\ worker.pc = "stopped"
  /\ main' = "closed"
  /\ UNCHANGED <<notify, ch, done, worker, url, dlq, fate, tries, refused>>

CloseDB ==
  /\ main = "closed"
  /\ main' = "exit"
  /\ UNCHANGED <<notify, ch, done, worker, url, dlq, fate, tries, refused>>

Work == Stop \/ Take \/ GetURL \/ Send \/ Save

Next ==
  \/ \E e \in Events : CheckDone(e) \/ Offer(e)
  \/ Work
  \/ SetURL
  \/ CloseDone \/ CloseWait \/ CloseDB

Spec == Init /\ [][Next]_vars

(* Goroutines that can go on do (an attempt ends: the client has a         *)
(* timeout).  Nobody has to raise an alert or to shut the daemon down.     *)
Fairness ==
  /\ WF_vars(Work)
  /\ \A e \in Events : WF_vars(Offer(e))
  /\ WF_vars(CloseWait \/ CloseDB)

FairSpec == Spec /\ Fairness

-----------------------------------------------------------------------------
(* The notifier keeps the promise of an Outbox: one fate per event, in the *)
(* order accepted, and no event turned away with room left.                *)
InHand == IF worker.ev = NoEvent THEN <<>> ELSE <<worker.ev>>

Service ==
  IF main = "serving" THEN "open" ELSE IF main = "closing" THEN "closing" ELSE "closed"

Promise == INSTANCE Outbox WITH
  Room <- queueCap,
  pending <- InHand \o ch,
  service <- Service

OutboxImplemented == Promise!Spec

(* main.go:275, "para el worker del webhook ANTES de cerrar SQLite": once  *)
(* Close is back no settings are read and no dead letter is written, for   *)
(* all that an event was in the middle of its retries or just taken.       *)
QuietAfterClose ==
  main \in {"closed", "exit"} => worker.pc = "stopped" /\ worker.ev = NoEvent

(* webhook.go:148-149: a dead letter was refused for good or tried once    *)
(* and Retries times more, and nobody answered that it had been accepted.  *)
DeadForAReason ==
  \A e \in dlq : fate[e] = "dead" /\ (e \in refused \/ tries[e] = Retries + 1)

(* No event stays for ever: each one accepted is settled unless the daemon *)
(* shuts down first, and a shutdown is not held up for ever by retries.    *)
AcceptedSettled == \A e \in Events : fate[e] = "accepted" ~> fate[e] # "accepted" \/ done
CloseReturns == main = "closing" ~> main = "exit"
=============================================================================
