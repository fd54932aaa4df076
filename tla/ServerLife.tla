----------------------------- MODULE ServerLife -----------------------------
(***************************************************************************)
(* What a server promises its owner: connections appear only while it      *)
(* serves; once it drains none appears, and the moment the last one is     *)
(* gone it is closed and its owner is told, exactly once.                  *)
(***************************************************************************)
EXTENDS Naturals

CONSTANT Conns

VARIABLES
  phase,   \* "closed", "serving" or "draining"
  open,    \* the connections that exist
  reports  \* how often the owner has been told since the server was opened

vars == << phase, open, reports >>

Init == phase = "closed" /\ open = {} /\ reports = 0

\* The server is made ready again, which forgets an earlier drain.
Reset ==
  /\ phase = "closed"
  /\ reports' = 0
  /\ UNCHANGED << phase, open >>

Serve ==
  /\ phase = "closed" /\ reports = 0
  /\ phase' = "serving"
  /\ UNCHANGED << open, reports >>

Connect(c) ==
  /\ phase = "serving" /\ c \notin open
  /\ open' = open \cup {c}
  /\ UNCHANGED << phase, reports >>

\* The last connection of a drain cannot just go.
Disconnect(c) ==
  /\ c \in open
  /\ phase = "draining" => open # {c}
  /\ open' = open \ {c}
  /\ UNCHANGED << phase, reports >>

\* The last connection of a drain goes, and the owner is told.
Finish ==
  /\ phase = "draining"
  /\ \E c \in Conns : open = {c}
  /\ open' = {}
  /\ phase' = "closed"
  /\ reports' = reports + 1

\* An abrupt stop; an owner who was waiting for a drain is told.
Stop ==
  /\ open' = {}
  /\ phase' = "closed"
  /\ reports' = IF phase = "draining" THEN reports + 1 ELSE reports

\* The request to drain: some connections go at once.
Drain ==
  /\ phase # "draining" /\ reports = 0
  /\ open' \subseteq open
  /\ \/ open' = {} /\ phase' = "closed" /\ reports' = reports + 1
     \/ open' # {} /\ phase' = "draining" /\ reports' = reports

Next ==
  \/ Reset \/ Serve \/ Stop \/ Drain \/ Finish
  \/ \E c \in Conns : Connect(c) \/ Disconnect(c)

Spec == Init /\ [][Next]_vars
=============================================================================
