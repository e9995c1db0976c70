--------------------------- MODULE WebhookProofs ----------------------------
(***************************************************************************)
(* Proofs about Webhook: its types, that it is quiet once closed, what a   *)
(* dead letter means, and that it implements Outbox.  The invariant says   *)
(* what the channel and the worker's hand hold: each accepted event, once, *)
(* and the attempts it has had.                                            *)
(***************************************************************************)
EXTENDS Webhook, SequenceTheorems, TLAPS

(* The worker holds an event unless it waits or has stopped; done is       *)
(* closed when the shutdown begins; Close is back when the worker stopped. *)
HandInv ==
  /\ worker.pc \in {"select", "stopped"} <=> worker.ev = NoEvent
  /\ worker.pc \in {"select", "stopped", "url"} => worker.attempt = 0
  /\ done <=> main # "serving"
  /\ main \in {"closed", "exit"} => worker.pc = "stopped"

(* An event has no fate until its call of Notify is back.                  *)
FateInv ==
  /\ \A e \in Events : fate[e] = "none" <=> notify[e] # "back"
  /\ \A i \in 1 .. Len(ch) : fate[ch[i]] = "accepted"
  /\ worker.ev # NoEvent => fate[worker.ev] = "accepted"

(* No event is held twice.                                                 *)
OnceInv ==
  /\ \A i, j \in 1 .. Len(ch) : ch[i] = ch[j] => i = j
  /\ \A i \in 1 .. Len(ch) : ch[i] # worker.ev

(* The attempts of the event in hand are those of the loop.                *)
TriesInv ==
  /\ \A e \in Events : fate[e] = "none" => tries[e] = 0
  /\ \A i \in 1 .. Len(ch) : tries[ch[i]] = 0
  /\ worker.pc \in {"url", "send"} => tries[worker.ev] = worker.attempt
  /\ worker.pc = "save" => worker.ev \in refused \/ tries[worker.ev] = Retries + 1

WebhookInv == TypeOK /\ HandInv /\ FateInv /\ OnceInv /\ TriesInv

LEMMA InitInv == ASSUME WebhookAssumption, Init PROVE WebhookInv /\ DeadForAReason
<1>1. TypeOK
  <2>1. ch \in Seq(Events) /\ Len(ch) <= queueCap
    BY DEF Init, WebhookAssumption
  <2>2. worker \in Workers
    BY DEF Init, Waiting, Workers, WebhookAssumption
  <2>3. tries \in [Events -> 0 .. Retries + 1]
    BY DEF Init, WebhookAssumption
  <2> QED BY <2>1, <2>2, <2>3 DEF Init, TypeOK
<1>2. HandInv
  BY DEF Init, HandInv, Waiting
<1>3. FateInv /\ OnceInv /\ TriesInv
  BY DEF Init, FateInv, OnceInv, TriesInv, Waiting
<1>4. DeadForAReason
  BY DEF Init, DeadForAReason
<1> QED BY <1>1, <1>2, <1>3, <1>4 DEF WebhookInv

(* Each action of the worker and of Notify keeps the invariant.            *)
LEMMA NotifyInv ==
  ASSUME WebhookAssumption, WebhookInv, NEW e \in Events, CheckDone(e) \/ Offer(e)
  PROVE  WebhookInv'
<1>1. CASE CheckDone(e)
  <2> USE <1>1 DEF CheckDone, Become, WebhookInv
  <2>1. TypeOK'
    BY DEF TypeOK
  <2>2. HandInv' /\ OnceInv'
    BY DEF HandInv, OnceInv
  <2>3. /\ fate[e] = "none"
        /\ \A i \in 1 .. Len(ch) : ch[i] \in Events /\ ch[i] # e
        /\ worker.ev # NoEvent => worker.ev \in Events /\ worker.ev # e
    BY DEF FateInv, TypeOK, Workers
  <2>4. FateInv'
    BY <2>3 DEF FateInv, TypeOK
  <2>5. TriesInv'
    BY <2>3 DEF TriesInv, TypeOK
  <2> QED BY <2>1, <2>2, <2>4, <2>5
<1>2. CASE Offer(e) /\ Len(ch) = queueCap /\ UNCHANGED ch /\ Become(e, "lost")
  BY <1>2 DEF Offer, Become, WebhookInv, TypeOK, HandInv, FateInv, OnceInv, TriesInv
<1>3. CASE Offer(e) /\ Len(ch) < queueCap /\ ch' = Append(ch, e) /\ Become(e, "accepted")
  <2> USE <1>3 DEF Offer, Become, WebhookInv
  <2>0. /\ fate[e] = "none"
        /\ fate' = [fate EXCEPT ![e] = "accepted"]
        /\ notify' = [notify EXCEPT ![e] = "back"]
        /\ ch' = Append(ch, e)
        /\ UNCHANGED <<done, worker, url, dlq, main, tries, refused>>
    BY DEF TypeOK, FateInv
  <2>1. TypeOK'
    BY <2>0 DEF TypeOK, WebhookAssumption
  <2>2. HandInv'
    BY <2>0 DEF HandInv
  <2>3. /\ Len(ch') = Len(ch) + 1
        /\ \A i \in 1 .. Len(ch) : ch'[i] = ch[i]
        /\ ch'[Len(ch) + 1] = e
        /\ Len(ch) \in Nat
    BY <2>0 DEF TypeOK
  <2>4. \A i \in 1 .. Len(ch) : ch[i] # e
    BY <2>0 DEF FateInv
  <2>5. e # worker.ev
    BY <2>0, NoEvent \notin Events DEF FateInv, WebhookAssumption
  <2>6. FateInv'
    BY <2>0, <2>3 DEF FateInv, TypeOK, Workers
  <2>7. OnceInv'
    BY <2>0, <2>3, <2>4, <2>5 DEF OnceInv
  <2>8. TriesInv'
    BY <2>0, <2>3 DEF TriesInv, TypeOK, FateInv
  <2> QED BY <2>1, <2>2, <2>6, <2>7, <2>8
<1> QED BY <1>1, <1>2, <1>3 DEF Offer

(* The worker is done with its event: it waits, and the event has a fate.  *)
LEMMA SettleInv ==
  ASSUME WebhookAssumption, WebhookInv, worker.pc \in {"url", "send", "save"},
         NEW f \in {"delivered", "dead", "skipped"}, Become(worker.ev, f),
         worker' = Waiting, UNCHANGED <<notify, ch, done, url, main>>,
         dlq' \in SUBSET Events, refused' = refused,
         tries' \in [Events -> 0 .. Retries + 1],
         \A e \in Events \ {worker.ev} : tries'[e] = tries[e]
  PROVE  WebhookInv'
<1> USE DEF Become, WebhookInv
<1>1. worker.ev \in Events /\ fate[worker.ev] = "accepted"
  BY DEF HandInv, FateInv, TypeOK, Workers
<1>2. /\ \A i \in 1 .. Len(ch) : ch[i] \in Events /\ ch[i] # worker.ev
      /\ NoEvent \notin Events
  BY DEF OnceInv, TypeOK, WebhookAssumption
<1>3. worker' \in Workers /\ worker'.pc = "select" /\ worker'.ev = NoEvent /\ worker'.attempt = 0
  BY DEF Waiting, Workers, WebhookAssumption
<1>4. fate' \in [Events -> {"none", "accepted", "lost", "delivered", "dead", "skipped"}]
  BY DEF TypeOK
<1>5. TypeOK'
  BY <1>3, <1>4 DEF TypeOK
<1>6. HandInv'
  BY <1>3 DEF HandInv
<1>7. FateInv'
  BY <1>1, <1>2, <1>3 DEF FateInv, TypeOK
<1>8. OnceInv'
  BY <1>2, <1>3 DEF OnceInv
<1>9. TriesInv'
  BY <1>1, <1>2, <1>3 DEF TriesInv, TypeOK
<1> QED BY <1>5, <1>6, <1>7, <1>8, <1>9

(* The worker goes on with the event in hand.                              *)
LEMMA GoOnInv ==
  ASSUME WebhookAssumption, WebhookInv, worker.pc \in {"url", "send"},
         NEW p \in {"send", "save"}, NEW n \in 0 .. Retries,
         worker' = [pc |-> p, ev |-> worker.ev, attempt |-> n],
         UNCHANGED <<notify, ch, done, url, dlq, main, fate>>,
         refused' \in SUBSET Events, refused \subseteq refused',
         tries' \in [Events -> 0 .. Retries + 1],
         \A e \in Events \ {worker.ev} : tries'[e] = tries[e],
         p = "send" => tries'[worker.ev] = n,
         p = "save" => worker.ev \in refused' \/ tries'[worker.ev] = Retries + 1
  PROVE  WebhookInv'
<1> USE DEF WebhookInv
<1>1. worker.ev \in Events /\ worker.ev # NoEvent /\ fate[worker.ev] = "accepted"
  BY DEF HandInv, FateInv, TypeOK, Workers
<1>2. \A i \in 1 .. Len(ch) : ch[i] \in Events /\ ch[i] # worker.ev
  BY DEF OnceInv, TypeOK
<1>3. TypeOK'
  BY <1>1 DEF TypeOK, Workers
<1>4. HandInv'
  BY <1>1 DEF HandInv
<1>5. FateInv'
  BY <1>1 DEF FateInv
<1>6. OnceInv'
  BY <1>2 DEF OnceInv
<1>7. TriesInv'
  BY <1>1, <1>2 DEF TriesInv
<1> QED BY <1>3, <1>4, <1>5, <1>6, <1>7

LEMMA WorkInv ==
  ASSUME WebhookAssumption, WebhookInv, Work
  PROVE  WebhookInv'
<1>1. CASE Stop
  BY <1>1 DEF Stop, WebhookInv, TypeOK, Workers, HandInv, FateInv, OnceInv, TriesInv
<1>2. CASE Take
  <2> USE <1>2 DEF Take, WebhookInv
  <2>1. /\ Len(ch) \in Nat \ {0}
        /\ Len(ch') = Len(ch) - 1
        /\ \A i \in 1 .. Len(ch') : ch'[i] = ch[i + 1]
        /\ ch[1] = worker'.ev /\ ch[1] \in Events
        /\ worker'.pc = "url" /\ worker'.attempt = 0
    BY DEF TypeOK
  <2>2. TypeOK'
    BY <2>1 DEF TypeOK, Workers, WebhookAssumption
  <2>3. HandInv'
    BY <2>1 DEF HandInv, WebhookAssumption
  <2>4. FateInv' /\ OnceInv' /\ TriesInv'
    BY <2>1 DEF FateInv, OnceInv, TriesInv
  <2> QED BY <2>2, <2>3, <2>4
<1>3. /\ worker \in Workers
      /\ worker = [pc |-> worker.pc, ev |-> worker.ev, attempt |-> worker.attempt]
      /\ tries \in [Events -> 0 .. Retries + 1] /\ dlq \in SUBSET Events
      /\ refused \in SUBSET Events /\ Retries \in Nat /\ 0 \in 0 .. Retries
  BY DEF WebhookInv, TypeOK, Workers, WebhookAssumption
<1>4. CASE GetURL
  <2>1. CASE worker' = Waiting /\ Become(worker.ev, "skipped")
    BY <1>3, <1>4, <2>1, SettleInv DEF GetURL
  <2>2. CASE worker' = [worker EXCEPT !.pc = "send"] /\ UNCHANGED fate
    <3>1. worker' = [pc |-> "send", ev |-> worker.ev, attempt |-> 0] /\ tries[worker.ev] = 0
      BY <1>3, <1>4, <2>2 DEF GetURL, WebhookInv, HandInv, TriesInv
    <3> QED BY <1>3, <1>4, <2>2, <3>1, GoOnInv DEF GetURL
  <2> QED BY <1>4, <2>1, <2>2 DEF GetURL
<1>5. CASE Send
  <2>1. /\ worker.pc = "send" /\ worker.ev \in Events
        /\ tries[worker.ev] = worker.attempt /\ worker.attempt \in 0 .. Retries
        /\ UNCHANGED <<notify, ch, done, url, dlq, main>>
        /\ tries' = [tries EXCEPT ![worker.ev] = tries[worker.ev] + 1]
    BY <1>3, <1>5 DEF Send, WebhookInv, HandInv, TriesInv, Workers
  <2>2. /\ tries' \in [Events -> 0 .. Retries + 1]
        /\ tries'[worker.ev] = worker.attempt + 1
        /\ \A e \in Events \ {worker.ev} : tries'[e] = tries[e]
    BY <1>3, <2>1
  <2>3. CASE Delivered
    BY <1>3, <2>1, <2>2, <2>3, SettleInv DEF Delivered
  <2>4. CASE Refused
    <3>1. worker' = [pc |-> "save", ev |-> worker.ev, attempt |-> worker.attempt]
      BY <1>3, <2>4 DEF Refused
    <3>2. refused' \in SUBSET Events /\ refused \subseteq refused' /\ worker.ev \in refused'
      BY <1>3, <2>1, <2>4 DEF Refused
    <3> QED BY <2>1, <2>2, <2>4, <3>1, <3>2, GoOnInv DEF Refused
  <2>5. CASE Failed /\ worker.attempt < Retries
    <3> DEFINE n == worker.attempt + 1
    <3>0. worker' = [worker EXCEPT !.attempt = n]
      BY <2>5 DEF Failed
    <3> HIDE DEF n
    <3>1. worker' = [pc |-> "send", ev |-> worker.ev, attempt |-> n]
      BY <1>3, <2>1, <3>0
    <3> USE DEF n
    <3>2. worker.attempt + 1 \in 0 .. Retries
      BY <1>3, <2>1, <2>5
    <3> QED BY <1>3, <2>1, <2>2, <2>5, <3>1, <3>2, GoOnInv DEF Failed
  <2>6. CASE Failed /\ ~(worker.attempt < Retries)
    <3>1. worker' = [pc |-> "save", ev |-> worker.ev, attempt |-> worker.attempt]
      BY <1>3, <2>6 DEF Failed
    <3>2. tries'[worker.ev] = Retries + 1
      BY <1>3, <2>1, <2>2, <2>6
    <3> QED BY <1>3, <2>1, <2>2, <2>6, <3>1, <3>2, GoOnInv DEF Failed
  <2> QED BY <1>5, <2>3, <2>4, <2>5, <2>6 DEF Send
<1>6. CASE Save
  <2>1. worker.ev \in Events
    BY <1>3, <1>6 DEF Save, WebhookInv, HandInv, Workers
  <2> QED BY <1>3, <1>6, <2>1, SettleInv DEF Save
<1> QED BY <1>1, <1>2, <1>4, <1>5, <1>6 DEF Work

(* Nothing else touches what the invariant is about.                       *)
LEMMA StepInv == WebhookAssumption /\ WebhookInv /\ [Next]_vars => WebhookInv'
<1> SUFFICES ASSUME WebhookAssumption, WebhookInv, [Next]_vars PROVE WebhookInv'
  OBVIOUS
<1>1. CASE UNCHANGED vars
  BY <1>1 DEF vars, WebhookInv, TypeOK, Workers, HandInv, FateInv, OnceInv, TriesInv
<1>2. CASE SetURL
  BY <1>2 DEF SetURL, WebhookInv, TypeOK, Workers, HandInv, FateInv, OnceInv, TriesInv
<1>3. CASE CloseDone
  BY <1>3 DEF CloseDone, WebhookInv, TypeOK, Workers, HandInv, FateInv, OnceInv, TriesInv
<1>4. CASE CloseWait
  BY <1>4 DEF CloseWait, WebhookInv, TypeOK, Workers, HandInv, FateInv, OnceInv, TriesInv
<1>5. CASE CloseDB
  BY <1>5 DEF CloseDB, WebhookInv, TypeOK, Workers, HandInv, FateInv, OnceInv, TriesInv
<1> QED BY <1>1, <1>2, <1>3, <1>4, <1>5, NotifyInv, WorkInv DEF Next

LEMMA Invariance == Spec => []WebhookInv
<1>1. Init => WebhookInv
  BY InitInv, WebhookAssumption
<1>2. WebhookInv /\ [Next]_vars => WebhookInv'
  BY StepInv, WebhookAssumption
<1> QED BY <1>1, <1>2, PTL DEF Spec

(* Type correctness, for any number of events, room and retries.           *)
THEOREM WebhookTypes == Spec => []TypeOK
<1>1. WebhookInv => TypeOK
  BY DEF WebhookInv
<1> QED BY <1>1, Invariance, PTL

(* Once Close is back the worker neither holds an event nor takes one:     *)
(* main may close the database.                                            *)
THEOREM WebhookQuiet == Spec => []QuietAfterClose
<1>1. WebhookInv => QuietAfterClose
  BY DEF WebhookInv, HandInv, QuietAfterClose
<1> QED BY <1>1, Invariance, PTL

(* A dead letter was refused for good or tried Retries + 1 times: dead is  *)
(* a last fate, so that the attempts counted do not change afterwards.     *)
THEOREM WebhookDead == Spec => []DeadForAReason
<1>1. Init => DeadForAReason
  BY DEF Init, DeadForAReason
<1>2. ASSUME WebhookInv, DeadForAReason, [Next]_vars PROVE DeadForAReason'
  <2>0. /\ \A e \in dlq : e \in Events /\ fate[e] = "dead" /\ e # worker.ev /\ notify[e] = "back"
        /\ worker.pc \in {"url", "send", "save"} =>
             worker.ev \in Events /\ fate[worker.ev] = "accepted"
        /\ \A f : Become(worker.ev, f) => \A e \in dlq : fate'[e] = "dead"
    BY <1>2, WebhookAssumption
       DEF DeadForAReason, Become, WebhookInv, TypeOK, HandInv, FateInv, Workers, WebhookAssumption
  <2> USE DEF DeadForAReason
  <2>1. CASE \E e \in Events : CheckDone(e) \/ Offer(e)
    BY <1>2, <2>0, <2>1 DEF CheckDone, Offer, Become, WebhookInv, TypeOK
  <2>2. CASE GetURL
    BY <1>2, <2>0, <2>2 DEF GetURL
  <2>3. CASE Send
    <3>1. \A e \in dlq : tries'[e] = tries[e] /\ fate'[e] = "dead"
      BY <1>2, <2>0, <2>3 DEF Send, Delivered, Refused, Failed, WebhookInv, TypeOK
    <3>2. refused \subseteq refused' /\ dlq' = dlq
      BY <2>3 DEF Send, Delivered, Refused, Failed
    <3> QED BY <1>2, <3>1, <3>2
  <2>4. CASE Save
    <3>1. worker.ev \in refused \/ tries[worker.ev] = Retries + 1
      BY <1>2, <2>4 DEF Save, WebhookInv, TriesInv
    <3>2. /\ refused' = refused /\ tries' = tries
          /\ \A e \in dlq : fate'[e] = "dead"
          /\ dlq' # dlq => dlq' = dlq \cup {worker.ev} /\ fate'[worker.ev] = "dead"
      BY <1>2, <2>0, <2>4 DEF Save, Become, WebhookInv, TypeOK
    <3> QED BY <1>2, <3>1, <3>2
  <2>5. CASE UNCHANGED <<dlq, fate, tries, refused>>
    BY <1>2, <2>5
  <2> QED BY <1>2, <2>1, <2>2, <2>3, <2>4, <2>5
          DEF Next, Work, vars, Stop, Take, SetURL, CloseDone, CloseWait, CloseDB
<1> QED BY <1>1, <1>2, Invariance, PTL DEF Spec

-----------------------------------------------------------------------------
(* What is pending: the event in hand, then the channel.                   *)
LEMMA Pending ==
  ASSUME WebhookAssumption, WebhookInv
  PROVE  /\ InHand \o ch \in Seq(Events)
         /\ Len(InHand) \in {0, 1}
         /\ Len(InHand \o ch) = Len(InHand) + Len(ch)
         /\ worker.ev = NoEvent => InHand \o ch = ch
         /\ worker.ev # NoEvent =>
              /\ InHand \o ch # <<>>
              /\ Head(InHand \o ch) = worker.ev
              /\ Tail(InHand \o ch) = ch
<1>1. ch \in Seq(Events) /\ worker.ev \in Events \cup {NoEvent}
  BY DEF WebhookInv, TypeOK, Workers
<1>2. CASE worker.ev = NoEvent
  <2>1. InHand = <<>> /\ InHand \o ch = ch
    BY <1>1, <1>2, ConcatEmptySeq DEF InHand
  <2> QED BY <1>1, <1>2, <2>1, Len(<<>>) = 0, LenProperties
<1>3. CASE worker.ev # NoEvent
  <2>1. InHand = <<worker.ev>> /\ InHand \in Seq(Events) /\ Len(InHand) = 1
    BY <1>1, <1>3 DEF InHand
  <2> DEFINE all == InHand \o ch
  <2>2. /\ all \in Seq(Events)
        /\ Len(all) = 1 + Len(ch) /\ Len(ch) \in Nat
        /\ \A i \in 1 .. 1 + Len(ch) : all[i] = IF i <= 1 THEN InHand[i] ELSE ch[i - 1]
    BY <1>1, <2>1, ConcatProperties, LenProperties
  <2>3. all[1] = worker.ev /\ \A i \in 1 .. Len(ch) : all[i + 1] = ch[i]
    BY <2>1, <2>2
  <2> HIDE DEF all
  <2>4. all # <<>> /\ Head(all) = worker.ev
    BY <2>2, <2>3
  <2>5. /\ Tail(all) \in Seq(Events) /\ Len(Tail(all)) = Len(ch)
        /\ \A i \in 1 .. Len(ch) : Tail(all)[i] = ch[i]
    BY <2>2, <2>3, <2>4
  <2>6. Tail(all) = ch
    BY <1>1, <2>5, SeqEqual
  <2> QED BY <1>3, <2>1, <2>2, <2>4, <2>6 DEF all
<1> QED BY <1>2, <1>3

(* Webhook implements Outbox: Offer is Accept or TurnAway, CheckDone after *)
(* done is TurnAway, whatever ends the work on an event is Settle, the two *)
(* halves of Close are Close, and the rest is a stutter.                   *)
THEOREM WebhookPromise == Spec => OutboxImplemented
<1> DEFINE pend == InHand \o ch
<1>1. ASSUME Init PROVE Promise!Init
  <2>1. InHand = <<>> /\ ch = <<>>
    BY <1>1 DEF Init, Waiting, InHand
  <2>2. <<>> \in Seq(Events)
    OBVIOUS
  <2>3. pend = <<>>
    BY <2>1, <2>2, ConcatEmptySeq
  <2> QED BY <1>1, <2>3 DEF Init, Promise!Init, Service
<1>2. ASSUME WebhookInv, WebhookInv', [Next]_vars
      PROVE  [Promise!Next]_(Promise!outbox)
  <2> USE WebhookAssumption, <1>2
  <2>now. /\ pend \in Seq(Events) /\ Len(pend) = Len(InHand) + Len(ch)
          /\ Len(InHand) \in {0, 1} /\ Len(ch) \in Nat /\ Len(ch) <= queueCap /\ queueCap \in Nat
          /\ worker.ev = NoEvent => pend = ch
          /\ worker.ev # NoEvent => pend # <<>> /\ Head(pend) = worker.ev /\ Tail(pend) = ch
    <3>1. WebhookAssumption /\ WebhookInv
      OBVIOUS
    <3>2. Len(ch) \in Nat /\ Len(ch) <= queueCap /\ queueCap \in Nat
      BY <3>1 DEF WebhookInv, TypeOK, WebhookAssumption
    <3> HIDE WebhookAssumption, <1>2
    <3>3. QED BY <3>1, <3>2, Pending
  <2>then. /\ worker'.ev = NoEvent => pend' = ch'
           /\ worker'.ev # NoEvent => pend' # <<>> /\ Head(pend') = worker'.ev /\ Tail(pend') = ch'
    <3>1. WebhookAssumption /\ WebhookInv'
      OBVIOUS
    <3>2. ch' \in Seq(Events) /\ worker'.ev \in Events \cup {NoEvent}
      BY <3>1 DEF WebhookInv, TypeOK, Workers
    <3>3. CASE worker'.ev = NoEvent
      BY <3>2, <3>3, ConcatEmptySeq DEF InHand
    <3>4. CASE worker'.ev # NoEvent
      <4>1. InHand' = <<worker'.ev>> /\ InHand' \in Seq(Events) /\ Len(InHand') = 1
        BY <3>2, <3>4 DEF InHand
      <4>2. pend' = InHand' \o ch'
        OBVIOUS
      <4> QED BY <3>2, <3>4, <4>1, <4>2
    <3> QED BY <3>3, <3>4
  <2> HIDE DEF pend
  <2>a. ASSUME NEW e \in Events, CheckDone(e) PROVE [Promise!Next]_(Promise!outbox)
    <3>1. pend' = pend /\ Service' = Service
      BY <2>a DEF CheckDone, pend, InHand, Service
    <3>2. CASE ~done
      BY <2>a, <3>1, <3>2 DEF CheckDone, Promise!outbox, pend
    <3>3. CASE done
      <4>1. fate[e] = "none" /\ Service # "open"
        BY <2>a, <3>3 DEF CheckDone, WebhookInv, FateInv, HandInv, Service
      <4>2. Promise!TurnAway(e)
        BY <2>a, <3>1, <3>3, <4>1 DEF CheckDone, Become, Promise!TurnAway, pend
      <4> QED BY <4>2 DEF Promise!Next
    <3> QED BY <3>2, <3>3
  <2>b. ASSUME NEW e \in Events, Offer(e) PROVE [Promise!Next]_(Promise!outbox)
    <3>1. /\ fate[e] = "none" /\ Service' = Service /\ InHand' = InHand
      BY <2>b DEF Offer, WebhookInv, FateInv, Service, InHand
    <3>2. CASE Len(ch) < queueCap /\ ch' = Append(ch, e) /\ Become(e, "accepted")
      <4>1. ch \in Seq(Events) /\ InHand \in Seq(Events)
        BY DEF WebhookInv, TypeOK, Workers, InHand
      <4>2. InHand \o Append(ch, e) = Append(InHand \o ch, e)
        <5>1. Append(ch, e) = ch \o <<e>> /\ <<e>> \in Seq(Events)
          BY <4>1
        <5>2. Append(InHand \o ch, e) = (InHand \o ch) \o <<e>>
          BY <4>1, ConcatProperties
        <5>3. (InHand \o ch) \o <<e>> = InHand \o (ch \o <<e>>)
          BY <4>1, <5>1, ConcatAssociative
        <5> QED BY <5>1, <5>2, <5>3
      <4>3. pend' = Append(pend, e)
        BY <3>1, <3>2, <4>2 DEF pend
      <4>4. Len(pend) <= queueCap
        BY <2>now, <3>2
      <4>5. Promise!Accept(e)
        BY <3>1, <3>2, <4>3, <4>4 DEF Become, Promise!Accept, pend
      <4> QED BY <4>5 DEF Promise!Next
    <3>3. CASE Len(ch) = queueCap /\ UNCHANGED ch /\ Become(e, "lost")
      <4>1. pend' = pend
        BY <3>1, <3>3 DEF pend
      <4>2. Len(pend) >= queueCap
        BY <2>now, <3>3
      <4>3. Promise!TurnAway(e)
        BY <3>1, <3>3, <4>1, <4>2 DEF Become, Promise!TurnAway, pend
      <4> QED BY <4>3 DEF Promise!Next
    <3> QED BY <2>b, <3>2, <3>3 DEF Offer
  <2>c. CASE Take
    <3>1. ch \in Seq(Events) /\ ch # <<>> /\ worker.ev = NoEvent
      BY <2>c DEF Take, WebhookInv, TypeOK, HandInv
    <3>2. worker'.ev = Head(ch) /\ ch' = Tail(ch) /\ Head(ch) \in Events
      BY <2>c, <3>1 DEF Take
    <3>3. pend' = pend
      <4>1. <<Head(ch)>> \o Tail(ch) = ch
        BY <3>1
      <4>2. pend' = <<Head(ch)>> \o Tail(ch)
        BY <3>2 DEF pend, InHand, WebhookAssumption
      <4> QED BY <2>now, <3>1, <4>1, <4>2
    <3> QED BY <2>c, <3>3 DEF Take, Promise!outbox, Service, pend
  <2>d. ASSUME NEW f \in {"delivered", "dead", "skipped"}, Become(worker.ev, f),
               worker.pc \in {"url", "send", "save"}, worker' = Waiting,
               UNCHANGED <<ch, main>>
        PROVE  [Promise!Next]_(Promise!outbox)
    <3>1. worker.ev # NoEvent /\ worker'.ev = NoEvent
      BY <2>d DEF WebhookInv, HandInv, Waiting
    <3>2. pend # <<>> /\ Head(pend) = worker.ev /\ pend' = Tail(pend)
      BY <2>now, <2>then, <2>d, <3>1
    <3>3. Service # "closed" /\ Service' = Service
      BY <2>d DEF Service, WebhookInv, TypeOK, HandInv
    <3>4. Promise!Settle
      BY <2>d, <3>2, <3>3 DEF Become, Promise!Settle, Promise!Settled, pend
    <3> QED BY <3>4 DEF Promise!Next
  <2>e. ASSUME worker'.ev = worker.ev, UNCHANGED <<ch, fate>>, Service' = Service
        PROVE  [Promise!Next]_(Promise!outbox)
    BY <2>e DEF InHand, Promise!outbox
  <2>f. CASE GetURL
    BY <2>d, <2>e, <2>f DEF GetURL, Service, WebhookInv, TypeOK, Workers
  <2>g. CASE Send
    BY <2>d, <2>e, <2>g DEF Send, Delivered, Refused, Failed, Service, WebhookInv, TypeOK, Workers
  <2>h. CASE Save
    BY <2>d, <2>h DEF Save
  <2>i. CASE CloseDone \/ CloseWait
    <3>1. pend' = pend /\ UNCHANGED fate
      BY <2>i DEF CloseDone, CloseWait, pend, InHand
    <3>2. Promise!Close
      BY <2>i, <3>1 DEF CloseDone, CloseWait, Promise!Close, Service, pend
    <3> QED BY <3>2 DEF Promise!Next
  <2>j. CASE Stop \/ SetURL \/ CloseDB \/ UNCHANGED vars
    BY <2>e, <2>j DEF Stop, SetURL, CloseDB, vars, Service, WebhookInv, TypeOK, Workers
  <2> QED BY <2>a, <2>b, <2>c, <2>f, <2>g, <2>h, <2>i, <2>j DEF Next, Work
<1> QED BY <1>1, <1>2, Invariance, PTL DEF Spec, OutboxImplemented, Promise!Spec
=============================================================================
