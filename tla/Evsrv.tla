------------------------------- MODULE Evsrv -------------------------------
(***************************************************************************)
(* One server (src/evsrv.c) with its connections (src/evsrv_conn.c) on one *)
(* libev loop.  A step is one callback of the loop, run to its end, or one *)
(* call of the API by the application from a watcher of its own.           *)
(*                                                                         *)
(* What the environment may do is a parameter: Peer is what the remote     *)
(* ends do, App is what the application's callbacks do beyond serving      *)
(* data.  The content and length of the write queue are the subject of     *)
(* module ConnWrite; here it is empty or not.                              *)
(***************************************************************************)
EXTENDS LibEv, FiniteSets, FiniteSetsExt

CONSTANTS
  Conns,        \* evsrv_conn objects (allocations)
  Fds,          \* descriptors the kernel may return from accept()
  TableLen,     \* connections_len, sysconf(_SC_OPEN_MAX) when the server was created
  None,         \* the NULL pointer
  BufLen,       \* rlen, the size of a read buffer
  ReadTimeout,  \* read_timeout in seconds, 0 when disabled
  Peer,         \* what remote ends do
  App           \* what the application does

PeerBehaviours ==
  { "eof",    \* close their end in order
    "reset" } \* make a read or a write fail for good

AppBehaviours ==
  { "keep",          \* on_read leaves unparsed bytes in the buffer
    "close_in_read", \* on_read closes its connection (itself, or because
                     \* an evsrv_conn_write in it fails)
    "close_at_eof",  \* the same in the on_read(conn, 0) call
    "defer_free",    \* on_conn_destroy keeps the memory readable
    "shutdown",      \* evsrv_conn_shutdown is called
    "pause",         \* evsrv_conn_stop / evsrv_conn_start are called
    "write_paused",  \* evsrv_conn_write is called on a stopped connection
    "again",         \* evsrv_graceful_stop is called during a graceful stop
    "early_calls" }  \* the API is called by watchers that libev runs before
                     \* the timers that have expired: signal handlers, as in
                     \* the demos, periodic and check watchers, other timers

ASSUME EvsrvAssumption ==
  /\ IsFiniteSet(Conns) /\ None \notin Conns
  /\ TableLen \in Nat /\ Fds \subseteq 0 .. TableLen - 1
  /\ BufLen \in Nat \ {0}
  /\ ReadTimeout \in Nat
  /\ Peer \subseteq PeerBehaviours
  /\ App \subseteq AppBehaviours
     \* a socket shut down by the application reads as closed and fails writes
  /\ "shutdown" \in App => Peer = PeerBehaviours

\* Nothing but evsrv_conn_close, a failed read and a failed write closes a
\* connection, and nothing else changes its state, during a graceful stop;
\* and no connection has descriptor 0.
Cooperative ==
  /\ 0 \notin Fds
  /\ ReadTimeout = 0
  /\ "eof" \notin Peer
  /\ App \cap {"keep", "shutdown", "pause", "again"} = {}

VARIABLES
  state,               \* srv->state
  active_connections,  \* srv->active_connections
  connections,         \* srv->connections, by descriptor
  accept_rw,           \* is srv->accept_rw active?
  conn,                \* the evsrv_conn objects
  stops,               \* calls of on_graceful_stop since the server was bound
  fault                \* a destroyed connection has been used, or a watcher
                       \* entered in libev's list a second time

vars == << state, active_connections, connections, accept_rw, conn, stops, fault >>
-----------------------------------------------------------------------------
(* The connection object and the functions of evsrv_conn.c on it.          *)

States == { "IDLE", "BOUND", "LISTENING", "ACCEPTING",
            "GRACEFULLY_STOPPING", "STOPPED" }

\* "NONE" is an object that does not exist (never allocated, or destroyed).
\* EVSRV_CONN_CREATED and EVSRV_CONN_CLOSING do not outlive a callback.
ConnStates == { "NONE", "ACTIVE", "SHUTDOWN", "PENDING_CLOSE", "STOPPED" }

Connection ==
  [ state : ConnStates, sock : Fds \cup {-1}, ruse : 0 .. BufLen,
    rw : BOOLEAN, trw : TimerStates, ww : IoStates, queued : BOOLEAN ]

NoConn ==
  [ state |-> "NONE", sock |-> -1, ruse |-> 0,
    rw |-> FALSE, trw |-> "off", ww |-> "off", queued |-> FALSE ]

\* evsrv_conn_init, on the descriptor f of evsrv_conn_info
ConnInit(f) == [ NoConn EXCEPT !.state = "CREATED", !.sock = f ]

\* evsrv_conn_start, of a new connection or of one that has been stopped, so
\* that rw and trw are not active: it re-initialises all four watchers, starts
\* rw and, when there is a read timeout, trw.  It looks neither at the write
\* queue nor at what libev holds of ww and trw.
StartedReadTimer(w) ==
  IF ReadTimeout > 0 THEN EvTimerStart(EvTimerInit(w)) ELSE EvTimerInit(w)
ConnStart(k) ==
  [ k EXCEPT !.state = "ACTIVE", !.rw = TRUE,
             !.trw = StartedReadTimer(@), !.ww = EvIoInit(@) ]

\* evsrv_conn_stop
ConnStopKeepsTimer(k) == [ k EXCEPT !.state = "STOPPED", !.rw = FALSE, !.ww = StopIo(@) ]
ConnStopKeepsWriter(k) ==
  [ k EXCEPT !.state = "STOPPED", !.rw = FALSE, !.trw = StopTimer(@) ]
ConnStop(k) ==
  [ k EXCEPT !.state = "STOPPED", !.rw = FALSE, !.trw = StopTimer(@), !.ww = StopIo(@) ]

\* evsrv_conn_shutdown of an open socket
ConnShutdown(k) == [ k EXCEPT !.state = "SHUTDOWN" ]

\* evsrv_conn_destroy, then the object itself is freed: by the library if it
\* allocated it, by on_conn_destroy otherwise.  Only what libev holds stays.
ConnDestroy(k) == [ NoConn EXCEPT !.trw = k.trw, !.ww = k.ww ]

\* The first half of evsrv_conn_close: stop the watchers, destroy the object.
ConnClosed(k) == ConnDestroy(ConnStop(k))

\* The part of evsrv_conn_write that queues data and arms ww.
ConnQueue(k) == [ k EXCEPT !.queued = TRUE, !.ww = EvIoStart(@) ]

\* evsrv_graceful_stop marks a connection that did not close itself.
StaysUnmarked(k) == k
ConnPending(k) == [ k EXCEPT !.state = "PENDING_CLOSE" ]

\* trw is initialised with a repeat of zero.
ReadTimerRepeat == 0

Live == { c \in Conns : conn[c].state # "NONE" }

OpenFds == { f \in Fds : connections[f] # None }

\* No timer callback is queued.  libev queues expired timers last, after the
\* sockets, and empties its queue from the end, so the callbacks of sockets
\* wait for this.
NoTimerPending == \A c \in Conns : ~IsQueued(conn[c].trw)

\* The application may call the API now.  Its own sockets wait for the timers,
\* too; signal handlers and the like do not: the watcher libev receives signals
\* with has the highest priority and queues theirs behind the timers.
CanCall == NoTimerPending \/ "early_calls" \in App
-----------------------------------------------------------------------------
(* Closing connections.                                                    *)

\* Is closing a connection in state prev, with left connections remaining,
\* the end of a graceful stop?
EndsAnyTime(prev, left) ==
  prev = "PENDING_CLOSE" /\ state = "GRACEFULLY_STOPPING"
EndsByLateState(prev, left) ==
  prev = "STOPPED" /\ left = 0 /\ state = "GRACEFULLY_STOPPING"
EndsGracefulStop(prev, left) ==
  prev = "PENDING_CLOSE" /\ left = 0 /\ state = "GRACEFULLY_STOPPING"

\* active_connections when n connections have been closed
NotDecremented(n) == active_connections
Remaining(n) == active_connections - n

\* The entry of the table is cleared for a positive descriptor only.
NotCleared(F) == connections
Cleared(F) == [ f \in Fds |-> IF f \in F /\ f > 0 THEN None ELSE connections[f] ]

\* evsrv_conn_close(c), k being the object at the call.
CloseConn(c, k) ==
  /\ conn' = [ conn EXCEPT ![c] = ConnClosed(k) ]
  /\ connections' = Cleared({k.sock})
  /\ active_connections' = Remaining(1)
  /\ \/ /\ EndsGracefulStop(k.state, Remaining(1))
        /\ state' = "STOPPED"
        /\ stops' = stops + 1
     \/ /\ ~EndsGracefulStop(k.state, Remaining(1))
        /\ UNCHANGED << state, stops >>
  /\ UNCHANGED accept_rw

\* A function of the library follows a pointer to a destroyed connection.
\* Nothing is said of the state from then on.
UseDestroyed ==
  /\ fault' = TRUE
  /\ UNCHANGED << state, active_connections, connections, accept_rw, conn, stops >>

\* Does the table hold a connection that has been destroyed?
StaleEntry == \E f \in OpenFds : connections[f] \notin Live

\* evsrv_stop and evsrv_graceful_stop stop the accept watcher first.
KeepAccepting == UNCHANGED accept_rw
StopAccepting == accept_rw' = FALSE

SetConn(c, k) ==
  /\ conn' = [ conn EXCEPT ![c] = k ]
  /\ UNCHANGED << state, active_connections, connections, accept_rw, stops >>
-----------------------------------------------------------------------------
(* Starting and stopping the server.                                       *)

Init ==
  /\ state = "IDLE"
  /\ active_connections = 0
  /\ connections = [ f \in Fds |-> None ]
  /\ accept_rw = FALSE
  /\ conn = [ c \in Conns |-> NoConn ]
  /\ stops = 0
  /\ fault = FALSE

\* A stopped server may be bound again.  A failed evsrv_bind or evsrv_listen
\* leaves the state as it was.
EvsrvBind ==
  /\ CanCall
  /\ state \in {"IDLE", "STOPPED"}
  /\ state' = "BOUND"
  /\ stops' = 0
  /\ UNCHANGED << active_connections, connections, accept_rw, conn, fault >>

EvsrvListen ==
  /\ CanCall
  /\ state = "BOUND"
  /\ state' = "LISTENING"
  /\ UNCHANGED << active_connections, connections, accept_rw, conn, stops, fault >>

EvsrvAccept ==
  /\ CanCall
  /\ state = "LISTENING"
  /\ accept_rw' = TRUE
  /\ state' = "ACCEPTING"
  /\ UNCHANGED << active_connections, connections, conn, stops, fault >>

\* The connection a loop over the table comes to last.
LastConn == conn[connections[Max(OpenFds)]]

\* evsrv_stop of a server that has been bound: every connection of the table
\* is closed, in the order of the descriptors.
EvsrvStop ==
  /\ CanCall
  /\ state \notin {"IDLE", "STOPPED"}
  /\ \/ StaleEntry /\ UseDestroyed
     \/ LET left == Remaining(Cardinality(OpenFds)) IN
        /\ ~StaleEntry
        /\ StopAccepting
        /\ conn' = [ c \in Conns |-> IF \E f \in OpenFds : connections[f] = c
                                     THEN ConnClosed(conn[c]) ELSE conn[c] ]
        /\ connections' = Cleared(OpenFds)
        /\ active_connections' = left
        /\ stops' = IF OpenFds # {} /\ EndsGracefulStop(LastConn.state, left)
                    THEN stops + 1 ELSE stops
        /\ state' = "STOPPED"
        /\ UNCHANGED fault

\* evsrv_graceful_stop may be called now.
CanGracefulStop ==
  /\ CanCall
  /\ \/ state \in {"BOUND", "LISTENING", "ACCEPTING"}
     \/ state = "GRACEFULLY_STOPPING" /\ "again" \in App

\* evsrv_graceful_stop with no connection: the callback is called at once.
GracefulStopIdle ==
  /\ CanGracefulStop
  /\ active_connections = 0
  /\ StopAccepting
  /\ state' = "STOPPED"
  /\ stops' = stops + 1
  /\ UNCHANGED << active_connections, connections, conn, fault >>

\* evsrv_graceful_stop with connections: those of F are closed at once (they
\* have no on_graceful_close, or it closed them and returned true), every
\* other one becomes pending.  When none is left the loop calls the callback;
\* evsrv_conn_close has called it too if the last one was already pending.
GracefulStopBusy(F) ==
  /\ CanGracefulStop
  /\ active_connections # 0
  /\ \/ StaleEntry /\ UseDestroyed
     \/ LET left == Remaining(Cardinality(F)) IN
        /\ ~StaleEntry
        /\ StopAccepting
        /\ conn' = [ c \in Conns |->
                       IF \E f \in F : connections[f] = c THEN ConnClosed(conn[c])
                       ELSE IF c \in Live THEN ConnPending(conn[c])
                       ELSE conn[c] ]
        /\ connections' = Cleared(F)
        /\ active_connections' = left
        /\ \/ /\ left = 0
              /\ state' = "STOPPED"
              /\ stops' = IF LastConn.state = "PENDING_CLOSE" THEN stops + 2 ELSE stops + 1
           \/ /\ left # 0
              /\ state' = "GRACEFULLY_STOPPING"
              /\ UNCHANGED stops
        /\ UNCHANGED fault
-----------------------------------------------------------------------------
(* Callbacks of the loop.                                                  *)

\* One round of _evsrv_accept_cb: the kernel returns the descriptor f and c
\* is allocated for it.  The remaining rounds of its loop are further steps.
\* An address that libev or the table still points to is not reused: what
\* those pointers would find there is not modelled, only that they dangle.
AcceptCb(c, f) ==
  /\ NoTimerPending
  /\ accept_rw
  /\ conn[c].state = "NONE" /\ conn[c].trw = "off" /\ conn[c].ww = "off"
  /\ \A g \in OpenFds : connections[g] # c
  /\ \A d \in Live : conn[d].sock # f
  /\ \/ /\ connections[f] = None
        /\ active_connections' = active_connections + 1
        /\ connections' = [ connections EXCEPT ![f] = c ]
        /\ conn' = [ conn EXCEPT ![c] = ConnStart(ConnInit(f)) ]
        /\ UNCHANGED fault
        /\ UNCHANGED << state, accept_rw, stops >>
     \/ connections[f] # None /\ UseDestroyed   \* evsrv_conn_close(connections[f])

\* What _evsrv_conn_read_cb does before it calls read().
Readable(c) == NoTimerPending /\ conn[c].rw
BeforeRead(c) == [ conn[c] EXCEPT !.trw = StopTimer(@) ]

\* read() returns n > 0 bytes and on_read leaves r bytes in the buffer; a
\* full buffer ends the connection with ENOBUFS.
NeverFull(r) == FALSE
BufferFull(r) == r # 0 /\ r = BufLen

ReadData(c) ==
  /\ Readable(c)
  /\ \E n \in 1 .. BufLen - conn[c].ruse :
     \E r \in IF "keep" \in App THEN 0 .. conn[c].ruse + n ELSE {0} :
       LET k == [ BeforeRead(c) EXCEPT !.ruse = r ] IN
       \/ BufferFull(r) /\ CloseConn(c, ConnShutdown(k))
       \/ ~BufferFull(r) /\ SetConn(c, k)
  /\ UNCHANGED fault

\* on_read closes the connection; _evsrv_conn_read_cb then reads ruse and
\* rlen of the object, which evsrv_conn_destroy has set to zero: harmless
\* while the memory is still there.
ReadDataAndClose(c) ==
  /\ Readable(c)
  /\ "close_in_read" \in App
  /\ CloseConn(c, BeforeRead(c))
  /\ fault' = ("defer_free" \notin App)

\* read() returns 0.
ReadEof(c) ==
  /\ Readable(c)
  /\ "eof" \in Peer
  /\ CloseConn(c, ConnShutdown(BeforeRead(c)))
  /\ UNCHANGED fault

\* on_read(conn, 0) closes the connection; evsrv_conn_shutdown then follows
\* self->info, which evsrv_conn_destroy has freed and set to NULL.
ReadEofAndClose(c) ==
  /\ Readable(c)
  /\ "eof" \in Peer /\ "close_at_eof" \in App
  /\ CloseConn(c, BeforeRead(c))
  /\ fault' = TRUE

\* read() fails with EAGAIN: the read timer stays stopped.
ReadAgain(c) ==
  /\ Readable(c)
  /\ SetConn(c, BeforeRead(c))
  /\ UNCHANGED fault

\* read() fails for good.
ReadError(c) ==
  /\ Readable(c)
  /\ "reset" \in Peer
  /\ CloseConn(c, BeforeRead(c))
  /\ UNCHANGED fault

\* _evsrv_conn_write_cb: the queue has been written, or writev() fails for
\* good.  A partial write and EAGAIN leave the queue non-empty, ww active.
\* libev calls a watcher as long as it is in its list, lost ones too.
WriteCb(c) ==
  /\ NoTimerPending
  /\ conn[c].ww # "off"
  /\ \/ /\ c \in Live
        /\ \/ SetConn(c, [ conn[c] EXCEPT !.queued = FALSE, !.ww = StopIo(@) ])
           \/ "reset" \in Peer /\ CloseConn(c, conn[c])
        /\ UNCHANGED fault
     \/ c \notin Live /\ UseDestroyed

\* At the start of an iteration libev takes the timers that have expired out
\* of the heap and queues their callbacks.
TimersExpire ==
  /\ NoTimerPending
  /\ \E T \in SUBSET { c \in Conns : conn[c].trw = "active" } \ {{}} :
       conn' = [ c \in Conns |-> IF c \in T THEN [ conn[c] EXCEPT !.trw = "pending" ]
                                 ELSE conn[c] ]
  /\ UNCHANGED << state, active_connections, connections, accept_rw, stops, fault >>

\* _evsrv_conn_read_timeout_cb
ReadTimeoutCb(c) ==
  /\ IsQueued(conn[c].trw)
  /\ \/ /\ c \in Live
        /\ CloseConn(c, ConnShutdown([ conn[c] EXCEPT !.trw = EvTimerStop(EvInvoked(@)) ]))
        /\ UNCHANGED fault
     \/ c \notin Live /\ UseDestroyed
-----------------------------------------------------------------------------
(* Calls of the connection API by the application.                         *)

\* evsrv_conn_close
ConnClose(c) ==
  /\ CanCall /\ c \in Live
  /\ CloseConn(c, conn[c])
  /\ UNCHANGED fault

\* evsrv_conn_write: a write with data queued is appended; otherwise it is
\* written now, queued in full or in part, or fails for good.
ConnWrite(c) ==
  /\ CanCall /\ c \in Live /\ ~conn[c].queued
  /\ conn[c].rw \/ "write_paused" \in App
  /\ \/ /\ SetConn(c, ConnQueue(conn[c]))
        /\ fault' = EntersTwice(conn[c].ww)
     \/ /\ "reset" \in Peer /\ CloseConn(c, conn[c])
        /\ UNCHANGED fault

\* evsrv_conn_shutdown
ConnShutdownCall(c) ==
  /\ CanCall /\ c \in Live /\ "shutdown" \in App
  /\ SetConn(c, ConnShutdown(conn[c]))
  /\ UNCHANGED fault

\* evsrv_conn_stop, and evsrv_conn_start of a stopped connection
ConnStopCall(c) ==
  /\ CanCall /\ c \in Live /\ "pause" \in App
  /\ SetConn(c, ConnStop(conn[c]))
  /\ UNCHANGED fault

ConnStartCall(c) ==
  /\ CanCall /\ c \in Live /\ ~conn[c].rw /\ "pause" \in App
  /\ SetConn(c, ConnStart(conn[c]))
  /\ UNCHANGED fault

\* evsrv_conn_read_timer_again
ConnReadTimerAgain(c) ==
  /\ CanCall /\ c \in Live /\ ReadTimeout > 0
  /\ SetConn(c, [ conn[c] EXCEPT !.trw = EvTimerAgain(@, ReadTimerRepeat) ])
  /\ UNCHANGED fault

\* evsrv_conn_read_timer_stop
ConnReadTimerStop(c) ==
  /\ CanCall /\ c \in Live
  /\ SetConn(c, [ conn[c] EXCEPT !.trw = StopTimer(@) ])
  /\ UNCHANGED fault
-----------------------------------------------------------------------------
ServerCalls ==
  \/ EvsrvBind \/ EvsrvListen \/ EvsrvAccept
  \/ EvsrvStop
  \/ GracefulStopIdle \/ \E F \in SUBSET OpenFds : GracefulStopBusy(F)

LoopCallbacks(c) ==
  \/ \E f \in Fds : AcceptCb(c, f)
  \/ ReadData(c) \/ ReadDataAndClose(c) \/ ReadEof(c) \/ ReadEofAndClose(c)
  \/ ReadAgain(c) \/ ReadError(c)
  \/ WriteCb(c)
  \/ ReadTimeoutCb(c)

ConnCalls(c) ==
  \/ ConnClose(c) \/ ConnWrite(c) \/ ConnShutdownCall(c)
  \/ ConnStopCall(c) \/ ConnStartCall(c)
  \/ ConnReadTimerAgain(c) \/ ConnReadTimerStop(c)

\* After a use of a destroyed connection the behaviour is undefined.
Next ==
  /\ ~fault
  /\ \/ ServerCalls
     \/ TimersExpire
     \/ \E c \in Conns : LoopCallbacks(c) \/ ConnCalls(c)

Spec == Init /\ [][Next]_vars

\* The loop runs the timers that have expired, and the application closes
\* every connection whose closing it has postponed.
Fairness ==
  \A c \in Conns :
    /\ WF_vars(~fault /\ ReadTimeoutCb(c))
    /\ WF_vars(~fault /\ conn[c].state = "PENDING_CLOSE" /\ ConnClose(c))

FairSpec == Spec /\ Fairness
-----------------------------------------------------------------------------
(* Properties.                                                             *)

TypeOK ==
  /\ state \in States
  /\ active_connections \in 0 .. Cardinality(Conns)
  /\ connections \in [ Fds -> Conns \cup {None} ]
  /\ accept_rw \in BOOLEAN
  /\ conn \in [ Conns -> Connection ]
  /\ stops \in Nat
  /\ fault \in BOOLEAN

\* The counter, the table and the open sockets always agree: active_connections
\* counts the connections that exist, each is in the table under its own
\* descriptor, and the table holds nothing else (evsrv.c:184-200,
\* evsrv_conn.c:125-128).
Bookkeeping ==
  /\ active_connections = Cardinality(Live)
  /\ \A f \in OpenFds : connections[f] \in Live /\ conn[connections[f]].sock = f
  /\ \A c \in Live : conn[c].sock \in Fds /\ connections[conn[c].sock] = c

\* Neither the library nor libev follows a pointer to a connection that has
\* been destroyed: not the rest of a callback, nor the table, nor a timer or a
\* watcher left behind (evsrv_conn.c:52-64, 213-244, evsrv.c:197-199).
NeverUsesDestroyed == ~fault

\* A graceful stop calls its callback at most once, and not before the last
\* connection is gone (evsrv.c:235-258, evsrv_conn.c:130-136).
StopReportedOnce == stops <= 1 /\ (stops = 1 => Live = {})

\* As long as a graceful stop has not called its callback a connection is
\* left whose closing will: the callback is not lost (evsrv_conn.c:130-136).
DrainNotLost == state = "GRACEFULLY_STOPPING" => Live # {}

\* Every connection that outlives the request for a graceful stop has been
\* told, and is still known, to close (evsrv.c:241-252).
DrainReachesAll ==
  state = "GRACEFULLY_STOPPING" => \A c \in Live : conn[c].state = "PENDING_CLOSE"

\* A connection waiting for data has room for it: read() is never given a
\* length of zero, whose result would pass for end-of-file
\* (evsrv_conn.c:214, 221-224).
RoomToRead == \A c \in Live : conn[c].rw => conn[c].ruse < BufLen

\* A timer callback the loop has queued belongs to a connection that still
\* exists when it runs (evsrv_conn.c:47, 57-64, common.h:56-60).
TimersOwned == \A c \in Conns : IsQueued(conn[c].trw) => c \in Live

\* The timer heap holds no timer of a destroyed connection, so the callbacks of
\* such a connection were queued before it was closed, and each comes only once
\* (evsrv_conn.c:47-50, 57-64).
HeapOwned == \A c \in Conns : EvIsActive(conn[c].trw) => c \in Live

\* The lists of the descriptors hold no watcher of a destroyed connection,
\* however often it was stopped and started (evsrv_conn.c:44-64, 195, 313).
WatchersOwned == \A c \in Conns : conn[c].rw \/ conn[c].ww # "off" => c \in Live

\* A connection comes into being only while the server accepts, so never
\* between a stop, graceful or not, and the next evsrv_accept
\* (evsrv.c:211, 228).
AdmissionClosed ==
  [][ \A c \in Conns : (c \in Live)' => c \in Live \/ state = "ACCEPTING" ]_vars

\* Whatever the application does, a graceful stop reports its end only in the
\* step that leaves the server stopped and without connections.
ReportedWhenEmpty ==
  [][ stops' > stops => state' = "STOPPED" /\ active_connections' = 0 /\ Live' = {} ]_vars

\* The server keeps the promise of ServerLife.
LifePhase ==
  CASE state = "ACCEPTING" -> "serving"
    [] state = "GRACEFULLY_STOPPING" -> "draining"
    [] OTHER -> "closed"

Life == INSTANCE ServerLife WITH phase <- LifePhase, open <- Live, reports <- stops

\* A cooperative server implements ServerLife: nobody connects during a drain,
\* and the last connection to go takes the server down and reports it, once
\* (evsrv.c:225-262, evsrv_conn.c:130-136).
ImplementsLife == Life!Spec

\* A graceful stop ends (demo/tcp_server_graceful_shutdown.c:94).
DrainTerminates == state = "GRACEFULLY_STOPPING" ~> state = "STOPPED"
=============================================================================
