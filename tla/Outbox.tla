------------------------------- MODULE Outbox -------------------------------
(***************************************************************************)
(* What internal/webhook promises the code that raises alerts: events are  *)
(* accepted without waiting, settled in the order accepted and once each;  *)
(* one is turned away only for want of room or because the service is      *)
(* closing; once closed, nothing is settled any more.                      *)
(***************************************************************************)
EXTENDS Naturals, Sequences

CONSTANTS Events, Room    \* events it holds besides the one in hand

VARIABLES
  pending,  \* accepted and not settled, oldest first
  fate,     \* what became of each event
  service   \* "open", "closing", "closed"

outbox == <<pending, fate, service>>

Settled == {"delivered", "dead", "skipped"}

Init ==
  /\ pending = <<>>
  /\ fate = [e \in Events |-> "none"]
  /\ service = "open"

Accept(e) ==
  /\ fate[e] = "none"
  /\ Len(pending) <= Room
  /\ pending' = Append(pending, e)
  /\ fate' = [fate EXCEPT ![e] = "accepted"]
  /\ UNCHANGED service

TurnAway(e) ==
  /\ fate[e] = "none"
  /\ Len(pending) >= Room \/ service # "open"
  /\ fate' = [fate EXCEPT ![e] = "lost"]
  /\ UNCHANGED <<pending, service>>

Settle ==
  /\ service # "closed"
  /\ pending # <<>>
  /\ \E f \in Settled : fate' = [fate EXCEPT ![Head(pending)] = f]
  /\ pending' = Tail(pending)
  /\ UNCHANGED service

Close ==
  /\ \/ service = "open" /\ service' = "closing"
     \/ service = "closing" /\ service' = "closed"
  /\ UNCHANGED <<pending, fate>>

Next ==
  \/ \E e \in Events : Accept(e) \/ TurnAway(e)
  \/ Settle
  \/ Close

Spec == Init /\ [][Next]_outbox
=============================================================================
