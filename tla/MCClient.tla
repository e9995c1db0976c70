------------------------------ MODULE MCClient ------------------------------
(* One resource at a time, in every view that holds it, with every dialog  *)
(* the view opens.                                                         *)
EXTENDS Client, TLC

AllEvents == SSE_TYPES \cup {"replication.finished", "none"}
EachKind == {"pools", "snaps", "ops", "repl", "jobs", "series", "users", "channels"}
=============================================================================
