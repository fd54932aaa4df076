--------------------------- MODULE MCEvsrvManager ---------------------------
(* Values of the constants of EvsrvManager for model checking.             *)
EXTENDS EvsrvManager

CONSTANTS c1, c2

TwoConns == {c1, c2}

OneStopOnly == {"bind_fails", "listen_fails", "unbound"}
Applications == { OneStopOnly, AppBehaviours \ {"unbound"}, AppBehaviours }
=============================================================================
