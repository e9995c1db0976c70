------------------------------ MODULE MCAlerts ------------------------------
(* A pool and a disk of it; what the kernel reports includes the end of    *)
(* a scrub with errors, which the zpool collector sees as well.            *)
EXTENDS Alerts, TLC

CONSTANTS tank, sda

Reading(cap, status, scrub) == [sized |-> TRUE, cap |-> cap, status |-> status, scrub |-> scrub]
Smart(grade) == [hot |-> FALSE, smart |-> grade]
Event(class, dev) == [class |-> class, pool |-> tank, dev |-> dev, bad |-> TRUE]

OnePool == {tank}
OneDev == {sda}

Scrubbed == {Reading("none", "ONLINE", TRUE), Reading("none", "DEGRADED", FALSE)}
Filling == {Reading("warn", "ONLINE", FALSE), Reading("crit", "ONLINE", FALSE)}
Unsized == [sized |-> FALSE, cap |-> "none", status |-> "FAULTED", scrub |-> FALSE]
FillingOrGone == Filling \cup {Unsized}
Failing == {Smart("none"), Smart("crit")}
Cold == {Smart("none")}

ScrubFinish == {Event("scrub_finish", tank)}
NoEvents == {}
=============================================================================
