---------------------------- MODULE EvsrvManager ----------------------------
(***************************************************************************)
(* A group of servers on one loop (src/evsrv_manager.c): bound, listened,  *)
(* accepting and stopped together, with one report when all have stopped.  *)
(*                                                                         *)
(* Of each server the manager sees what ServerLife promises, and that is   *)
(* how servers are modelled here (evsrv.c:58-151, 210-262): they are taken *)
(* to be cooperative in the sense of module Evsrv, which shows that such   *)
(* servers keep that promise.  ServersKeepPromise closes the circle.       *)
(***************************************************************************)
EXTENDS Integers, FiniteSets

CONSTANTS
  SrvsLen,  \* srvs_len
  Conns,    \* connections a server may have
  Apps      \* what applications and the system may do, sets of AppBehaviours

AppBehaviours ==
  { "bind_fails", "listen_fails",  \* evsrv_bind and evsrv_listen may fail
    "unbound",                     \* evsrv_bind may give up before ev_io_init, and
                                   \* servers nobody has bound may be stopped
    "stop",                        \* evsrv_manager_stop is called
    "again",                       \* evsrv_manager_graceful_stop is called again
    "restart" }                    \* the group is bound again when it has stopped

ASSUME ManagerAssumption ==
  /\ SrvsLen \in Nat \ {0}
  /\ IsFiniteSet(Conns)
  /\ Apps \subseteq SUBSET AppBehaviours

VARIABLES
  mgr,   \* the evsrv_manager, with the number of calls of its on_graceful_stop
  srvs,  \* the servers
  loop,  \* the loop over srvs that runs, and the server it has come to
  fault, \* a watcher that was not initialised has been used
  app    \* what the application and the system do

vars == << mgr, srvs, loop, fault, app >>

Servers == 1 .. SrvsLen
-----------------------------------------------------------------------------
(* Servers.                                                                *)

States == { "IDLE", "BOUND", "LISTENING", "ACCEPTING",
            "GRACEFULLY_STOPPING", "STOPPED" }

\* watched: accept_rw has been initialised; told: calls of on_graceful_stop
Server == [ state : States, open : SUBSET Conns, watched : BOOLEAN, told : Nat ]

NewServer == [ state |-> "IDLE", open |-> {}, watched |-> FALSE, told |-> 0 ]

SetState(v, s) == [ v EXCEPT !.state = s ]

Draining(v) == v.state = "GRACEFULLY_STOPPING"

\* The server has come to the end of a graceful stop.
Ended(v) == [ v EXCEPT !.state = "STOPPED", !.open = {}, !.told = @ + 1 ]

\* evsrv_stop
StopsUntold(v) == [ v EXCEPT !.state = "STOPPED", !.open = {} ]
Stopped(v) == IF Draining(v) THEN Ended(v) ELSE StopsUntold(v)

\* evsrv_graceful_stop, after which the connections in rest remain
Drained(v, rest) ==
  IF rest = {} THEN Ended(v) ELSE [ v EXCEPT !.state = "GRACEFULLY_STOPPING", !.open = rest ]
-----------------------------------------------------------------------------
(* The manager.                                                            *)

ManagerStates == { "IDLE", "BOUND", "LISTENING", "ACCEPTING",
                   "GRACEFULLY_STOPPING", "STOPPED" }

Manager == [ state : ManagerStates, srvs_len : {0, SrvsLen},
             active_srvs : Int, stopped_srvs : Nat, reports : Nat ]

\* Three functions call the servers one by one.  A round of such a loop is a
\* step, and nothing else happens before the loop has ended.
Loops == { "none", "stop", "graceful_stop", "destroy" }

Init ==
  /\ mgr = [ state |-> "IDLE", srvs_len |-> SrvsLen,
             active_srvs |-> 0, stopped_srvs |-> 0, reports |-> 0 ]
  /\ srvs = [ s \in Servers |-> NewServer ]
  /\ loop = [ at |-> "none", i |-> 1 ]
  /\ fault = FALSE
  /\ app \in Apps

Idle == loop.at = "none" /\ ~fault /\ mgr.srvs_len # 0
Runs(l) == loop.at = l /\ ~fault

Begin(l) == loop' = [ at |-> l, i |-> 1 ]
Round(l, s) == Runs(l) /\ loop.i = s /\ loop' = [ at |-> l, i |-> s + 1 ]
End(l) == Runs(l) /\ loop.i = SrvsLen + 1 /\ loop' = [ loop EXCEPT !.at = "none" ]

\* _evsrv_manager_graceful_stop_cb
ReportsEach(n) == TRUE
ReportsFromThen(n) == n >= SrvsLen
ReportsLate(n) == n > SrvsLen
AllStopped(n) == n = SrvsLen

StaysActive(m) == [ m EXCEPT !.stopped_srvs = @ + 1 ]
CountStopped(m) == [ m EXCEPT !.active_srvs = @ - 1, !.stopped_srvs = @ + 1 ]

Report(m) == [ m EXCEPT !.reports = @ + 1 ]
ReportStopped(m) == [ m EXCEPT !.reports = @ + 1, !.state = "STOPPED" ]

GracefulStopCb(m) ==
  IF AllStopped(m.stopped_srvs + 1) THEN ReportStopped(CountStopped(m)) ELSE CountStopped(m)

\* The manager counts a server it has stopped itself.
CountsDown(m) == [ m EXCEPT !.stopped_srvs = @ - 1 ]
CountIdle(m) == [ m EXCEPT !.stopped_srvs = @ + 1 ]

\* evsrv_stop(s): the callback is called if that ends a graceful stop.
AfterStop(s) == IF Draining(srvs[s]) THEN GracefulStopCb(mgr) ELSE mgr
StopServer(s) ==
  /\ srvs' = [ srvs EXCEPT ![s] = Stopped(srvs[s]) ]
  /\ fault' \in { fault, ~srvs[s].watched }  \* the memory of a watcher nobody initialised

\* Every server in S that is going to be stopped has an initialised watcher.
CanStop(S) == "unbound" \in app \/ \A s \in S : srvs[s].watched

\* evsrv_manager_bind.  evsrv_bind gives up on a too long path before it
\* initialises the watcher.
Bound(v) == [ v EXCEPT !.state = "BOUND", !.watched = TRUE, !.told = 0 ]
ManagerBind ==
  /\ Idle
  /\ mgr.state = "IDLE" \/ "restart" \in app
  /\ \A s \in Servers : srvs[s].state \in {"IDLE", "STOPPED"}
  /\ \E bound \in SUBSET Servers : \E watched \in SUBSET (Servers \ bound) :
       /\ bound # Servers => "bind_fails" \in app
       /\ bound \cup watched # Servers => "unbound" \in app
       /\ srvs' = [ s \in Servers |->
                      IF s \in bound THEN Bound(srvs[s])
                      ELSE [ srvs[s] EXCEPT !.watched = @ \/ s \in watched ] ]
  /\ mgr' = [ mgr EXCEPT !.state = "BOUND", !.reports = 0 ]
  /\ UNCHANGED << loop, fault, app >>

\* evsrv_manager_listen
ManagerListen ==
  /\ Idle /\ mgr.state = "BOUND"
  /\ \E listening \in SUBSET { s \in Servers : srvs[s].state = "BOUND" } :
       /\ "listen_fails" \in app \/ \A s \in Servers \ listening : srvs[s].state # "BOUND"
       /\ srvs' = [ s \in Servers |->
                      IF s \in listening THEN SetState(srvs[s], "LISTENING") ELSE srvs[s] ]
  /\ mgr' = [ mgr EXCEPT !.state = "LISTENING" ]
  /\ UNCHANGED << loop, fault, app >>

\* evsrv_manager_accept.  With no active server it changes nothing.
ManagerAccept ==
  LET ready == { s \in Servers : srvs[s].state = "LISTENING" } IN
  /\ Idle /\ mgr.state = "LISTENING"
  /\ mgr.active_srvs + Cardinality(ready) > 0
  /\ srvs' = [ s \in Servers |->
                 IF s \in ready THEN SetState(srvs[s], "ACCEPTING") ELSE srvs[s] ]
  /\ mgr' = [ mgr EXCEPT !.state = "ACCEPTING", !.active_srvs = @ + Cardinality(ready) ]
  /\ UNCHANGED << loop, fault, app >>

\* evsrv_manager_stop.  evsrv_stop has left the server stopped when its state
\* is compared with EVSRV_ACCEPTING, so active_srvs is never decremented here.
ManagerStop ==
  /\ Idle /\ "stop" \in app /\ mgr.stopped_srvs <= SrvsLen
  /\ CanStop(Servers)
  /\ Begin("stop")
  /\ UNCHANGED << mgr, srvs, fault, app >>

StopOne(s) ==
  /\ Round("stop", s)
  /\ StopServer(s)
  /\ mgr' = CountIdle(AfterStop(s))
  /\ UNCHANGED app

StopEnds == End("stop") /\ UNCHANGED << mgr, srvs, fault, app >>

\* evsrv_manager_destroy: evsrv_destroy stops the servers that still run, but
\* nobody counts them.
ManagerDestroy ==
  /\ Idle
  /\ CanStop({ s \in Servers : srvs[s].state # "STOPPED" })
  /\ Begin("destroy")
  /\ UNCHANGED << mgr, srvs, fault, app >>

DestroyOne(s) ==
  /\ Round("destroy", s)
  /\ \/ srvs[s].state # "STOPPED" /\ StopServer(s) /\ mgr' = AfterStop(s)
     \/ srvs[s].state = "STOPPED" /\ UNCHANGED << mgr, srvs, fault >>
  /\ UNCHANGED app

DestroyEnds ==
  /\ End("destroy")
  /\ mgr' = [ mgr EXCEPT !.srvs_len = 0, !.active_srvs = 0 ]
  /\ UNCHANGED << srvs, fault, app >>

\* evsrv_manager_graceful_stop, for the first time or again
ManagerGracefulStop ==
  /\ Idle
  /\ mgr.state \in {"IDLE", "BOUND", "LISTENING", "ACCEPTING"} \/ "again" \in app
  /\ mgr.stopped_srvs <= SrvsLen
  /\ CanStop({ s \in Servers : srvs[s].state # "ACCEPTING" })
  /\ mgr' = [ mgr EXCEPT !.state = "GRACEFULLY_STOPPING" ]
  /\ Begin("graceful_stop")
  /\ UNCHANGED << srvs, fault, app >>

\* An accepting server keeps the connections in rest for the time being;
\* every other one is stopped.
GracefulStopOne(s) ==
  /\ Round("graceful_stop", s)
  /\ \/ /\ srvs[s].state = "ACCEPTING"
        /\ \E rest \in SUBSET srvs[s].open :
             /\ srvs' = [ srvs EXCEPT ![s] = Drained(srvs[s], rest) ]
             /\ mgr' = IF rest = {} THEN GracefulStopCb(mgr) ELSE mgr
        /\ UNCHANGED fault
     \/ /\ srvs[s].state # "ACCEPTING"
        /\ StopServer(s)
        /\ mgr' = CountIdle(AfterStop(s))
  /\ UNCHANGED app

\* No callback has come last: the manager reports itself, without a new state.
GracefulStopEnds ==
  /\ End("graceful_stop")
  /\ mgr' = IF mgr.state # "STOPPED" /\ AllStopped(mgr.stopped_srvs) THEN Report(mgr) ELSE mgr
  /\ UNCHANGED << srvs, fault, app >>
-----------------------------------------------------------------------------
(* What happens on the servers in the meantime.                            *)

Connect(s, c) ==
  /\ Idle
  /\ srvs[s].state = "ACCEPTING" /\ c \notin srvs[s].open
  /\ srvs' = [ srvs EXCEPT ![s].open = @ \cup {c} ]
  /\ UNCHANGED << mgr, loop, fault, app >>

\* A connection goes; the last one of a draining server ends its stop.
Disconnect(s, c) ==
  /\ Idle
  /\ c \in srvs[s].open
  /\ \/ /\ Draining(srvs[s]) /\ srvs[s].open = {c}
        /\ srvs' = [ srvs EXCEPT ![s] = Ended(srvs[s]) ]
        /\ mgr' = GracefulStopCb(mgr)
     \/ /\ ~Draining(srvs[s]) \/ srvs[s].open # {c}
        /\ srvs' = [ srvs EXCEPT ![s].open = @ \ {c} ]
        /\ UNCHANGED mgr
  /\ UNCHANGED << loop, fault, app >>
-----------------------------------------------------------------------------
LoopStep ==
  \/ \E s \in Servers : StopOne(s) \/ DestroyOne(s) \/ GracefulStopOne(s)
  \/ StopEnds \/ DestroyEnds \/ GracefulStopEnds

Next ==
  \/ ManagerBind \/ ManagerListen \/ ManagerAccept
  \/ ManagerStop \/ ManagerGracefulStop \/ ManagerDestroy
  \/ LoopStep
  \/ \E s \in Servers, c \in Conns : Connect(s, c) \/ Disconnect(s, c)

Spec == Init /\ [][Next]_vars

\* A loop of the code goes on, and the application closes every connection
\* whose closing it has postponed.
Fairness ==
  /\ WF_vars(LoopStep)
  /\ \A s \in Servers, c \in Conns : WF_vars(Draining(srvs[s]) /\ Disconnect(s, c))

FairSpec == Spec /\ Fairness
-----------------------------------------------------------------------------
(* Properties.                                                             *)

\* One graceful stop, or the destruction of the group, is all that is asked
\* for: stopped_srvs counts for one stop only, nothing resets it.
OneStop == app \cap {"stop", "again", "restart"} = {}

TypeOK ==
  /\ mgr \in Manager
  /\ srvs \in [ Servers -> Server ]
  /\ loop \in [ at : Loops, i : 1 .. SrvsLen + 1 ]
  /\ fault \in BOOLEAN
  /\ app \in Apps

InState(S) == { s \in Servers : srvs[s].state \in S }

\* The two counters are the numbers of the servers in the states they stand
\* for (evsrv_manager.c:68, 98-99, 110-111).
CountersMatch == OneStop /\ mgr.srvs_len # 0 /\ loop.at # "destroy" =>
  /\ mgr.active_srvs = Cardinality(InState({"ACCEPTING", "GRACEFULLY_STOPPING"}))
  /\ mgr.stopped_srvs = Cardinality(InState({"STOPPED"}))

\* The end of a graceful stop is reported when every server has stopped and
\* no connection is left (evsrv_manager.c:102-104, 112-115).
ReportedAtEnd == OneStop /\ mgr.reports > 0 =>
  \A s \in Servers : srvs[s].state = "STOPPED" /\ srvs[s].open = {}

\* Whatever the application does, the end is reported at most once until the
\* group is bound again (evsrv_manager.c:102-104, 112-115).
AtMostOneReport == mgr.reports <= 1

\* Until the end has been reported some server is still draining, so that the
\* report is not lost (evsrv_manager.c:93-104).
ReportNotLost ==
  OneStop /\ loop.at = "none" /\ mgr.state = "GRACEFULLY_STOPPING" /\ mgr.reports = 0
    => InState({"GRACEFULLY_STOPPING"}) # {}

\* A graceful stop of the group is reported (evsrv_manager.c:102-104, 112-115).
StopReported == OneStop /\ mgr.state = "GRACEFULLY_STOPPING" ~> mgr.reports > 0 \/ fault

\* What the manager makes of each server is what ServerLife promises
\* (evsrv.c:225-262).
Phase(v) ==
  CASE v.state = "ACCEPTING" -> "serving"
    [] v.state = "GRACEFULLY_STOPPING" -> "draining"
    [] OTHER -> "closed"

Life(s) == INSTANCE ServerLife
             WITH phase <- Phase(srvs[s]), open <- srvs[s].open, reports <- srvs[s].told

ServersKeepPromise ==
  /\ \A s \in Servers : Life(s)!Init
  /\ [][ \A s \in Servers : [ Life(s)!Next ]_(Life(s)!vars) ]_vars
=============================================================================
