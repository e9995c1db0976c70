------------------------------- MODULE MCDemo -------------------------------
(* Sessions of a few calls, two of which may overlap.                      *)
EXTENDS Demo

Session == [pools |-> 3, operations |-> 4]
=============================================================================
