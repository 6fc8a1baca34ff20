----------------------------- MODULE MCEventLoop -----------------------------
(* Environments for the event loop: what may go wrong besides the peer     *)
(* serving requests.                                                       *)
EXTENDS EventLoop

Friendly == {}
Endings == {"fin", "rst", "refuse", "unreachable", "sigint", "nosocket", "waitfail"}
Anything == {"fin", "rst", "refuse", "unreachable", "instant", "connfail", "junk"}
Closing == {"fin"}
Failing == {"connfail"}
Endless == {"endless"}
Early == {"early"}
Mixed == {"early", "fin"}
=============================================================================
