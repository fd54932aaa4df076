---------------------------- MODULE EvsrvReentry ----------------------------
(***************************************************************************)
(* Calls of the API from inside callbacks (src/evsrv.c, src/evsrv_conn.c). *)
(*                                                                         *)
(* Module Evsrv takes a function of the library for one step.  Here it is  *)
(* cut where it calls the application, because the application may call    *)
(* the library from there: stack holds the functions that have not         *)
(* returned, innermost first.  Which calls the application makes from      *)
(* which callback is chosen once, from Profiles.                           *)
(*                                                                         *)
(* Reading, writing and timers are the subject of Evsrv; here a connection *)
(* is read from, or closed for whatever reason, without a shutdown before. *)
(***************************************************************************)
EXTENDS Integers, Sequences, FiniteSets, FiniteSetsExt

CONSTANTS
  Conns,     \* evsrv_conn objects
  Fds,       \* descriptors the kernel may return from accept()
  None,      \* the NULL pointer
  Graceful,  \* connections with an on_graceful_close
  Profiles,  \* sets of << callback, call >>: what an application does
  MaxCalls,  \* bound: calls made in one run of a callback
  MaxDepth   \* bound: functions on the stack when the application calls

Callbacks == { "on_started", "on_conn_create", "on_conn_ready", "on_read",
               "on_graceful_close", "on_graceful_stop",
               "on_conn_destroy",  \* before it calls evsrv_conn_destroy
               "destroyed" }       \* and after

\* "abort" is evsrv_stop during a graceful stop, "own" the connection of the
\* callback, "watcher" code of the application that the loop calls.
ApiCalls == { "start", "stop", "abort", "graceful_stop", "destroy",
              "close_own", "close_other" }

\* << callback, "set" >> says that on_conn_create or on_conn_destroy is set.
Settings == {"on_conn_create", "on_conn_destroy"} \X {"set"}

ASSUME ReentryAssumption ==
  /\ IsFiniteSet(Conns) /\ None \notin Conns /\ Graceful \subseteq Conns
  /\ IsFiniteSet(Fds) /\ Fds \subseteq Nat \ {0}
  /\ Profiles \subseteq SUBSET (((Callbacks \cup {"watcher"}) \X ApiCalls) \cup Settings)
  /\ MaxCalls \in Nat /\ MaxDepth \in Nat

VARIABLES
  state, active_connections, connections,
  accept_rw,  \* is the accept watcher active?
  sock,       \* is the listening socket open?
  conn,       \* state and descriptor of the evsrv_conn objects
  stack,      \* the functions that have not returned
  told,       \* calls of on_graceful_stop since the server was bound
  gone,       \* evsrv_destroy has freed the table
  fault,      \* freed memory has been used
  may         \* the profile of the application

srv == << state, active_connections, connections, accept_rw, sock, told, gone >>
vars == << srv, conn, stack, fault, may >>
-----------------------------------------------------------------------------
States == { "IDLE", "BOUND", "LISTENING", "ACCEPTING", "GRACEFULLY_STOPPING", "STOPPED" }

\* "NONE" does not exist, "STOPPED" is inside evsrv_conn_close.
ConnStates == { "NONE", "CREATED", "ACTIVE", "PENDING_CLOSE", "STOPPED" }
NoConn == [ state |-> "NONE", sock |-> -1 ]

Live == { c \in Conns : conn[c].state # "NONE" }
OpenFds == { f \in Fds : connections[f] # None }

\* Where in a function of the library the stack goes on: in the loops of the
\* accept callback ("enter": after on_conn_create), of evsrv_stop and
\* evsrv_graceful_stop ("count": after a connection has been closed), after
\* on_conn_destroy, after evsrv_stop in evsrv_destroy, after on_read.
Points == { "accept_cb", "enter", "stop", "graceful_stop", "count",
            "close", "destroy", "read_cb" }

\* n is the index of a loop, the descriptor of a connection, or the number
\* of calls an application callback has left; prev is prev_state.
Frame == [ at : Points \cup Callbacks, conn : Conns \cup {None}, n : Int, prev : ConnStates ]
At(p, c, n) == [ at |-> p, conn |-> c, n |-> n, prev |-> "NONE" ]
App(cb, c) == At(cb, c, MaxCalls)

Top == Head(stack)
Below == Tail(stack)
Runs(p) == ~fault /\ stack # << >> /\ Top.at = p

Fault ==
  /\ fault' = TRUE
  /\ UNCHANGED << srv, conn, stack, may >>

\* The entries of the table a loop at index n has still to come to
SkipsOne(n) == { f \in OpenFds : f > n }
Entries(n) == { f \in OpenFds : f >= n }

StaysAt(f) == f
Following(f) == f + 1
-----------------------------------------------------------------------------
(* The connection.                                                         *)

IsSet(cb) == << cb, "set" >> \in may
Asks(cb, c) == IF IsSet(cb) THEN << App(cb, c) >> ELSE << >>

\* evsrv_conn_close(c) up to the callback, the frames fs waiting for it.  The
\* library destroys the connection itself only if it has created it.
BeginClose(c, fs) ==
  /\ conn' = [ conn EXCEPT ![c] =
                 IF \E s \in Settings : s \in may THEN [ @ EXCEPT !.state = "STOPPED" ]
                 ELSE NoConn ]
  /\ stack' = Asks("on_conn_destroy", c)
              \o << [ At("close", c, conn[c].sock) EXCEPT !.prev = conn[c].state ] >> \o fs
  /\ UNCHANGED << srv, fault, may >>

\* on_conn_destroy calls evsrv_conn_destroy and frees the object.
ConnDestroy ==
  /\ Runs("on_conn_destroy")
  /\ \/ Top.conn \notin Live /\ Fault
     \/ /\ Top.conn \in Live
        /\ conn' = [ conn EXCEPT ![Top.conn] = NoConn ]
        /\ stack' = << App("destroyed", Top.conn) >> \o Below
        /\ UNCHANGED << srv, fault, may >>

\* The end of a graceful stop: the callback is the last thing the function
\* at the top of the stack does.
Report ==
  /\ state' = "STOPPED"
  /\ told' = told + 1
  /\ stack' = << App("on_graceful_stop", None) >> \o Below

\* evsrv_conn_close after on_conn_destroy
EndsOnceEmpty == active_connections = 1 /\ state = "GRACEFULLY_STOPPING"
EndsByLateState ==
  Top.prev = "STOPPED" /\ active_connections = 1 /\ state = "GRACEFULLY_STOPPING"
EndsDrain ==
  Top.prev = "PENDING_CLOSE" /\ active_connections = 1 /\ state = "GRACEFULLY_STOPPING"

NotCleared(f) == connections
Cleared(f) == [ connections EXCEPT ![f] = None ]

NotDecremented == active_connections
Remaining == active_connections - 1

EndClose ==
  /\ Runs("close")
  /\ \/ gone /\ Fault
     \/ /\ ~gone
        /\ connections' = Cleared(Top.n)
        /\ active_connections' = Remaining
        /\ \/ EndsDrain /\ Report
           \/ ~EndsDrain /\ stack' = Below /\ UNCHANGED << state, told >>
        /\ UNCHANGED << accept_rw, sock, conn, gone, fault, may >>
-----------------------------------------------------------------------------
(* Calls by the application.                                               *)

Init ==
  /\ state = "IDLE"
  /\ active_connections = 0
  /\ connections = [ f \in Fds |-> None ]
  /\ accept_rw = FALSE /\ sock = FALSE
  /\ gone = FALSE /\ fault = FALSE
  /\ conn = [ c \in Conns |-> NoConn ]
  /\ stack = << >>
  /\ told = 0
  /\ may \in Profiles

\* The application may make the call, from a watcher or from a callback.
Calling(call) ==
  /\ ~fault /\ ~gone
  /\ \/ stack = << >> /\ << "watcher", call >> \in may
     \/ /\ stack # << >>
        /\ Top.n > 0 /\ Len(stack) <= MaxDepth
        /\ Top.at \in Callbacks /\ << Top.at, call >> \in may

\* The stack once the call has returned
Caller == IF stack = << >> THEN << >> ELSE << [ Top EXCEPT !.n = @ - 1 ] >> \o Below

\* evsrv_bind, evsrv_listen and evsrv_accept, one after the other
EvsrvStart ==
  /\ Calling("start")
  /\ state \in {"IDLE", "STOPPED"}
  /\ sock' = TRUE /\ accept_rw' = TRUE
  /\ state' = "ACCEPTING"
  /\ told' = 0
  /\ stack' = << App("on_started", None) >> \o Caller
  /\ UNCHANGED << active_connections, connections, conn, gone, fault, may >>

CloseListener == accept_rw' = FALSE /\ sock' = FALSE

\* evsrv_stop up to its loop
EvsrvStop ==
  /\ Calling(IF state = "GRACEFULLY_STOPPING" THEN "abort" ELSE "stop")
  /\ state # "IDLE"
  /\ CloseListener
  /\ stack' = << At("stop", None, 0) >> \o Caller
  /\ UNCHANGED << state, active_connections, connections, conn, told, gone, fault, may >>

StopLoop ==
  /\ Runs("stop")
  /\ \/ gone /\ Fault
     \/ /\ ~gone /\ Entries(Top.n) # {}
        /\ LET f == Min(Entries(Top.n))
               c == connections[f]
           IN \/ c \notin Live /\ Fault
              \/ c \in Live /\ BeginClose(c, << At("stop", None, Following(f)) >> \o Below)
     \/ /\ ~gone /\ Entries(Top.n) = {}
        /\ state' = "STOPPED"
        /\ stack' = Below
        /\ UNCHANGED << active_connections, connections, accept_rw, sock, conn, told, gone, fault, may >>

\* evsrv_graceful_stop of a running server, up to its loop or to its end
GracefulStop ==
  /\ Calling("graceful_stop")
  /\ state = "ACCEPTING"
  /\ CloseListener
  /\ \/ /\ active_connections = 0
        /\ state' = "STOPPED"
        /\ told' = told + 1
        /\ stack' = << App("on_graceful_stop", None) >> \o Caller
     \/ /\ active_connections # 0
        /\ state' = "GRACEFULLY_STOPPING"
        /\ stack' = << At("graceful_stop", None, 0) >> \o Caller
        /\ UNCHANGED told
  /\ UNCHANGED << active_connections, connections, conn, gone, fault, may >>

\* A connection without on_graceful_close is closed by the loop.
GracefulLoop ==
  /\ Runs("graceful_stop")
  /\ \/ gone /\ Fault
     \/ /\ ~gone /\ Entries(Top.n) # {}
        /\ LET f == Min(Entries(Top.n))
               c == connections[f]
           IN \/ c \notin Live /\ Fault
              \/ /\ c \in Live \ Graceful
                 /\ BeginClose(c, << At("count", c, Following(f)) >> \o Below)
              \/ /\ c \in Live \cap Graceful
                 /\ stack' = << App("on_graceful_close", c), At("graceful_stop", c, Following(f)) >> \o Below
                 /\ UNCHANGED << srv, conn, fault, may >>
     \/ /\ ~gone /\ Entries(Top.n) = {}
        /\ stack' = Below
        /\ UNCHANGED << srv, conn, fault, may >>

\* on_graceful_close returns true if it has closed the connection.
GracefulCloseReturns ==
  /\ Runs("on_graceful_close")
  /\ LET waiting(p) == << [ Head(Below) EXCEPT !.at = p ] >> \o Tail(Below) IN
     \/ /\ Top.conn \notin Live
        /\ stack' = waiting("count")
        /\ UNCHANGED conn
     \/ /\ Top.conn \in Live
        /\ conn' = [ conn EXCEPT ![Top.conn].state = "PENDING_CLOSE" ]
        /\ stack' = waiting("graceful_stop")
  /\ UNCHANGED << srv, fault, may >>

\* closed && active_connections == 0
GracefulCount ==
  /\ Runs("count")
  /\ \/ active_connections = 0 /\ Report
     \/ /\ active_connections # 0
        /\ stack' = << [ Top EXCEPT !.at = "graceful_stop" ] >> \o Below
        /\ UNCHANGED << state, told >>
  /\ UNCHANGED << active_connections, connections, accept_rw, sock, conn, gone, fault, may >>

\* evsrv_destroy stops a server that still runs, then frees the table.
EvsrvDestroy ==
  /\ Calling("destroy")
  /\ state = "GRACEFULLY_STOPPING" => Calling("abort")
  /\ state # "IDLE"
  /\ \/ /\ state # "STOPPED"
        /\ CloseListener
        /\ stack' = << At("stop", None, 0), At("destroy", None, 0) >> \o Caller
        /\ UNCHANGED gone
     \/ /\ state = "STOPPED"
        /\ gone' = TRUE
        /\ stack' = Caller
        /\ UNCHANGED << accept_rw, sock >>
  /\ UNCHANGED << state, active_connections, connections, conn, told, fault, may >>

DestroyEnds ==
  /\ Runs("destroy")
  /\ gone' = TRUE
  /\ stack' = Below
  /\ UNCHANGED << state, active_connections, connections, accept_rw, sock, conn, told, fault, may >>

\* evsrv_conn_close by the application; it knows a connection that is being
\* created from on_conn_create only.
Own(c) == stack # << >> /\ Top.conn = c
ConnClose(c) ==
  /\ c \in Live
  /\ \/ Own(c) /\ Calling("close_own")
     \/ ~Own(c) /\ conn[c].state # "CREATED" /\ Calling("close_other")
  /\ BeginClose(c, Caller)
-----------------------------------------------------------------------------
(* Callbacks of the loop.                                                  *)

Idle == ~fault /\ stack = << >>

AcceptCb ==
  /\ Idle /\ accept_rw
  /\ stack' = << At("accept_cb", None, 0) >>
  /\ UNCHANGED << srv, conn, fault, may >>

\* One round of its loop, up to on_conn_create.  An address the table still
\* points to is not reused.
AcceptOne(c, f) ==
  /\ Runs("accept_cb")
  /\ sock
  /\ conn[c] = NoConn /\ \A g \in OpenFds : connections[g] # c
  /\ \A d \in Live : conn[d].sock # f
  /\ active_connections' = active_connections + 1
  /\ conn' = [ conn EXCEPT ![c] = [ state |-> "CREATED", sock |-> f ] ]
  /\ stack' = Asks("on_conn_create", c) \o << At("enter", c, f) >> \o Below
  /\ UNCHANGED << state, connections, accept_rw, sock, told, gone, fault, may >>

\* The rest of the round, up to on_conn_ready.  An occupied entry is one of a
\* connection that has been destroyed.
AcceptEnter ==
  /\ Runs("enter")
  /\ LET c == Top.conn
         f == Top.n
     IN \/ (gone \/ c \notin Live \/ connections[f] # None) /\ Fault
        \/ /\ ~gone /\ c \in Live /\ connections[f] = None
           /\ connections' = [ connections EXCEPT ![f] = c ]
           /\ conn' = [ conn EXCEPT ![c].state = "ACTIVE" ]
           /\ stack' = << App("on_conn_ready", c), At("accept_cb", None, 0) >> \o Below
           /\ UNCHANGED << state, active_connections, accept_rw, sock, told, gone, fault, may >>

\* accept() fails: no connection is waiting, or the socket has been closed.
AcceptEnds ==
  /\ Runs("accept_cb")
  /\ stack' = Below
  /\ UNCHANGED << srv, conn, fault, may >>

ReadCb(c) ==
  /\ Idle /\ conn[c].state \in {"ACTIVE", "PENDING_CLOSE"}
  /\ stack' = << App("on_read", c), At("read_cb", c, 0) >>
  /\ UNCHANGED << srv, conn, fault, may >>

\* The read callback looks at the connection again after on_read.
ReadEnds ==
  /\ Runs("read_cb")
  /\ \/ Top.conn \notin Live /\ Fault
     \/ /\ Top.conn \in Live
        /\ stack' = Below
        /\ UNCHANGED << srv, conn, fault, may >>

\* The library closes a connection: a read or a write has failed.
Fails(c) ==
  /\ Idle /\ conn[c].state \in {"ACTIVE", "PENDING_CLOSE"}
  /\ BeginClose(c, << >>)

\* Another callback returns.
CallbackReturns ==
  /\ ~fault /\ stack # << >>
  /\ Top.at \in Callbacks \ {"on_conn_destroy", "on_graceful_close"}
  /\ stack' = Below
  /\ UNCHANGED << srv, conn, fault, may >>
-----------------------------------------------------------------------------
Api == \/ EvsrvStart \/ EvsrvStop \/ GracefulStop \/ EvsrvDestroy
       \/ \E c \in Conns : ConnClose(c)

\* What brings the function at the top of the stack forward
Forward ==
  \/ ConnDestroy \/ EndClose
  \/ StopLoop \/ GracefulLoop \/ GracefulCloseReturns \/ GracefulCount \/ DestroyEnds
  \/ AcceptEnter \/ AcceptEnds \/ ReadEnds \/ CallbackReturns

Next ==
  \/ Api \/ Forward \/ AcceptCb
  \/ \E c \in Conns : ReadCb(c) \/ Fails(c) \/ \E f \in Fds : AcceptOne(c, f)

Spec == Init /\ [][Next]_vars
\* Every function and callback returns, and the backlog is empty at some time.
FairSpec == Spec /\ WF_vars(Forward) /\ SF_vars(AcceptEnds)
-----------------------------------------------------------------------------
(* Properties.                                                             *)

\* What these callbacks may ask for; the others may ask for everything.
Harmless == [ on_conn_create |-> {"set", "close_other"},
              on_conn_destroy |-> {"set"},
              destroyed |-> {"close_other"},
              on_read |-> {"close_other"},
              on_graceful_close |-> {"close_own"} ]

\* The applications the properties are about.  A graceful stop that is cut
\* short is not followed by a restart, or the end, from on_graceful_stop.
Careful ==
  /\ \A p \in may : p[1] \in DOMAIN Harmless => p[2] \in Harmless[p[1]]
  /\ ~ { << "on_read", "close_other" >>, << "destroyed", "close_other" >> } \subseteq may
  /\ (\E p \in may : p[2] = "abort") =>
       << "on_graceful_stop", "start" >> \notin may /\ << "on_graceful_stop", "destroy" >> \notin may
  /\ IsSet("on_conn_create") => IsSet("on_conn_destroy")

TypeOK ==
  /\ state \in States
  /\ active_connections \in 0 .. Cardinality(Conns)
  /\ connections \in [ Fds -> Conns \cup {None} ]
  /\ accept_rw \in BOOLEAN /\ sock \in BOOLEAN /\ gone \in BOOLEAN /\ fault \in BOOLEAN
  /\ conn \in [ Conns -> [ state : ConnStates, sock : Fds \cup {-1} ] ]
  /\ stack \in Seq(Frame)
  /\ told \in Nat
  /\ may \in Profiles

\* When the outermost function has returned, counter, table and connections
\* agree, whatever callbacks have called on the way (evsrv.c:184-200,
\* evsrv_conn.c:107-128).
BooksAtRest == Careful /\ Idle =>
  /\ active_connections = Cardinality(Live)
  /\ \A f \in OpenFds : connections[f] \in Live /\ conn[connections[f]].sock = f
  /\ \A c \in Live : connections[conn[c].sock] = c

\* A server that has stopped has neither a connection left nor a listener, so
\* that evsrv_destroy may free it (evsrv.c:48-56, 186-202, 210-225).
StoppedIsEmpty == Careful /\ Idle /\ state = "STOPPED" => Live = {} /\ ~accept_rw /\ ~sock

\* No function goes on with a connection, or a table, that a callback it made
\* has caused to be freed (evsrv.c:202, 219, 242, evsrv_conn.c:115-128, 221).
NeverUsesFreed == Careful => ~fault

\* However stops are nested, the end of a graceful stop is reported once, and
\* with no connection left (evsrv.c:254-258, evsrv_conn.c:130-136).
ReportedOnce == Careful => told <= 1 /\ (told = 1 => active_connections = 0)

\* A graceful stop requested from a callback has reached every connection,
\* also one that is being accepted (evsrv.c:184-204, 241-252).
DrainReachesAll == Careful /\ Idle /\ state = "GRACEFULLY_STOPPING" =>
  Live # {} /\ \A c \in Live : conn[c].state = "PENDING_CLOSE"

\* The server as its owner sees it.  A connection is open until it has been
\* taken off the counter; the last one that the loop of a graceful stop closes,
\* until the loop has seen that it was the last (evsrv.c:254).
LifePhase ==
  CASE state = "ACCEPTING" -> "serving"
    [] state = "GRACEFULLY_STOPPING" -> "draining"
    [] OTHER -> "closed"

Uncounted == { stack[i].conn : i \in { j \in DOMAIN stack : stack[j].at = "close" } }
LifeOpen ==
  IF state = "GRACEFULLY_STOPPING" /\ Live \cup Uncounted = {} /\ stack # << >> THEN {Top.conn}
  ELSE Live \cup Uncounted

Life == INSTANCE ServerLife WITH phase <- LifePhase, open <- LifeOpen, reports <- told

\* evsrv_bind and evsrv_accept in one: Reset and then Serve of ServerLife
Restart ==
  /\ LifePhase = "closed" /\ LifePhase' = "serving"
  /\ told' = 0 /\ UNCHANGED LifeOpen

\* Calls from inside callbacks, nested as they may be, leave the promise of
\* ServerLife to the owner of the server: the last connection of a drain does
\* not go without its report, nobody is admitted in between, and an evsrv_stop
\* inside it does not report again (evsrv.c:210-262, evsrv_conn.c:107-137).
CallsKeepLife == Life!Init /\ [][Careful => Life!Next \/ Restart]_(Life!vars)

\* The loops of the library end although callbacks change the table they run
\* over (evsrv.c:160, 218-223, 241-260).
CallsReturn == stack # << >> ~> stack = << >> \/ fault
=============================================================================
