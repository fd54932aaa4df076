--------------------------- MODULE MCEvsrvReentry ---------------------------
(* Values of the constants of EvsrvReentry for model checking.             *)
EXTENDS EvsrvReentry

CONSTANTS c1, c2

OneConn == {c1}
TwoConns == {c1, c2}

All == (Callbacks \cup {"watcher"}) \X ApiCalls
Gentle == { p \in All : p[1] \in DOMAIN Harmless => p[2] \in Harmless[p[1]] }

\* The largest careful applications
Largest ==
  { (Gentle \ (cut \cup chain)) \cup set :
      cut \in { All \cap ((Callbacks \cup {"watcher"}) \X {"abort"}),
               {"on_graceful_stop"} \X {"start", "destroy"} },
      chain \in { {"on_read"} \X {"close_other"}, {"destroyed"} \X {"close_other"} },
      set \in { Settings, { << "on_conn_destroy", "set" >> }, {} } }

\* One that asks for everything
Reckless == All \cup Settings

Applications == Largest \cup {Reckless}
=============================================================================
