----------------------------- MODULE MCSession ------------------------------
(* A tab with two EventSources and, of each kind, the requests that can    *)
(* overtake each other.                                                    *)
EXTENDS Session, TLC

TwoStreams == {1, 2}
OfEach == {"me", "data", "login", "code", "logout", "probe", "enter", "demo_me"} \X {1}
=============================================================================
