------------------------------- MODULE MCPush -------------------------------
(* Two devices, of a user or of nobody; two alerts, one of them critical.  *)
EXTENDS Push

CONSTANTS u1, d1, d2, a1, a2, k1

MCSubs == {d1, d2}
MCAlerts == {a1, a2}
MCCritical == {a2}
MCKinds == {k1}
MCKindOf == [a \in MCAlerts |-> k1]
MCWindows == {<<1, 0>>}
=============================================================================
