---------------------------- MODULE EvsrvProofs ----------------------------
(***************************************************************************)
(* What is true of Evsrv for any number of connections and descriptors and *)
(* any environment: its inductive invariant, and the theorems it gives.    *)
(***************************************************************************)
EXTENDS Evsrv, FiniteSetTheorems, TLAPS

-----------------------------------------------------------------------------
(* The inductive invariant.                                                *)

\* TypeOK without the range of the counter, which Counted implies.
Shape ==
  /\ state \in States
  /\ connections \in [ Fds -> Conns \cup {None} ]
  /\ accept_rw \in BOOLEAN
  /\ conn \in [ Conns -> Connection ]
  /\ stops \in Nat
  /\ fault \in BOOLEAN

Counted == active_connections = Cardinality(Live)

\* The table knows every connection under its descriptor, no connection
\* twice, and only the entry of descriptor 0 can be left behind.
Table ==
  /\ \A c \in Live : conn[c].sock \in Fds /\ connections[conn[c].sock] = c
  /\ \A f, g \in OpenFds : connections[f] = connections[g] => f = g
  /\ \A f \in OpenFds : f > 0 => connections[f] \in Live

\* Connections exist and are accepted only in the states that allow it, and
\* a server that has reported the end of a graceful stop has stopped.
Phase ==
  /\ accept_rw => state = "ACCEPTING"
  /\ Live # {} => state \in {"ACCEPTING", "GRACEFULLY_STOPPING"}
  /\ stops > 0 => state = "STOPPED"
  /\ \A c \in Live : conn[c].state = "PENDING_CLOSE" => state = "GRACEFULLY_STOPPING"

\* Without a read timeout no read timer ever runs.
NoTimers == ReadTimeout = 0 => \A c \in Conns : conn[c].trw = "off"

\* The loop watches the sockets of existing connections only, except for write
\* watchers that are lost.
Watched == \A c \in Conns : conn[c].rw \/ conn[c].ww = "active" => c \in Live

\* A write watcher is lost only if it was started while the connection was
\* stopped.
Writers ==
  "write_paused" \notin App =>
    \A c \in Conns : conn[c].ww # "lost" /\ (conn[c].ww = "active" => conn[c].rw)

\* No read buffer stays full.
Room == \A c \in Conns : conn[c].ruse < BufLen

\* A connection dies with its timer off, unless it is closed while timer
\* callbacks are queued.
DeadTimers == "early_calls" \notin App => \A c \in Conns : c \in Live \/ conn[c].trw = "off"

IInv ==
  /\ Shape /\ Counted /\ Table /\ Phase
  /\ NoTimers /\ HeapOwned /\ Watched /\ Writers /\ Room /\ DeadTimers
-----------------------------------------------------------------------------
(* The operators on one connection.                                        *)

LEMMA StartedTimer ==
  ASSUME NEW w \in TimerStates
  PROVE  /\ StartedReadTimer(w) \in TimerStates
         /\ ReadTimeout = 0 /\ w = "off" => StartedReadTimer(w) = "off"
BY EvsrvAssumption DEF StartedReadTimer, EvTimerStart, EvTimerInit, IsQueued, TimerStates

LEMMA StoppedTimer ==
  ASSUME NEW w \in TimerStates
  PROVE  /\ StopTimer(w) \in TimerStates
         /\ ~EvIsActive(StopTimer(w))
         /\ ~IsQueued(w) => StopTimer(w) = "off"
BY DEF StopTimer, EvIsActive, EvTimerStop, IsQueued, TimerStates

\* A timer whose callback has been taken from the queue can be stopped.
LEMMA InvokedTimer ==
  ASSUME NEW w \in TimerStates
  PROVE  EvTimerStop(EvInvoked(w)) = "off"
BY DEF EvInvoked, EvTimerStop

LEMMA OffTimer == "off" \in TimerStates /\ ~IsQueued("off") /\ ~EvIsActive("off")
BY DEF TimerStates, IsQueued, EvIsActive

LEMMA StoppedWriter ==
  ASSUME NEW w \in IoStates
  PROVE  /\ StopIo(w) \in IoStates /\ StopIo(w) # "active"
         /\ w # "lost" => StopIo(w) = "off"
BY DEF StopIo, EvIsActive, IoStates

LEMMA InitWriter ==
  ASSUME NEW w \in IoStates
  PROVE  /\ EvIoInit(w) \in IoStates /\ EvIoInit(w) # "active"
         /\ w = "off" => EvIoInit(w) = "off"
BY DEF EvIoInit, IoStates

\* The part of a connection that a function does not touch.
SameConn(k, m) == m.sock = k.sock /\ m.ruse = k.ruse

LEMMA StopOp ==
  ASSUME NEW k \in Connection
  PROVE  LET m == ConnStop(k) IN
         /\ m \in Connection /\ SameConn(k, m) /\ m.state = "STOPPED"
         /\ ~m.rw /\ m.ww = StopIo(k.ww) /\ m.trw = StopTimer(k.trw)
<1>1. k.trw \in TimerStates /\ k.ww \in IoStates BY DEF Connection
<1>2. StopTimer(k.trw) \in TimerStates /\ StopIo(k.ww) \in IoStates
  BY <1>1, StoppedTimer, StoppedWriter
<1> QED BY <1>2 DEF ConnStop, SameConn, Connection, ConnStates

LEMMA NoConnection ==
  /\ NoConn \in Connection
  /\ NoConn.state = "NONE" /\ NoConn.ruse = 0 /\ NoConn.trw = "off"
  /\ ~NoConn.rw /\ NoConn.ww = "off" /\ ~NoConn.queued
<1>1. 0 \in 0 .. BufLen BY EvsrvAssumption
<1> QED BY <1>1 DEF NoConn, Connection, ConnStates, TimerStates, IoStates

LEMMA CloseOp ==
  ASSUME NEW k \in Connection
  PROVE  LET m == ConnClosed(k) IN
         /\ m \in Connection /\ m.state = "NONE" /\ m.ruse = 0
         /\ ~m.rw /\ m.ww # "active" /\ (k.ww # "lost" => m.ww = "off")
         /\ ~EvIsActive(m.trw) /\ (~IsQueued(k.trw) => m.trw = "off")
<1> DEFINE t == StopTimer(k.trw)
           w == StopIo(k.ww)
           m == [ NoConn EXCEPT !.trw = t, !.ww = w ]
<1>1. k.trw \in TimerStates /\ k.ww \in IoStates BY DEF Connection
<1>2. t \in TimerStates /\ ~EvIsActive(t) /\ (~IsQueued(k.trw) => t = "off")
  BY <1>1, StoppedTimer
<1>3. w \in IoStates /\ w # "active" /\ (k.ww # "lost" => w = "off")
  BY <1>1, StoppedWriter
<1>4. ConnStop(k).trw = t /\ ConnStop(k).ww = w BY StopOp
<1>5. ConnClosed(k) = m BY <1>4 DEF ConnClosed, ConnDestroy
<1> HIDE DEF t, w
<1>6. /\ m \in Connection /\ m.trw = t /\ m.ww = w
      /\ m.state = NoConn.state /\ m.ruse = NoConn.ruse /\ m.rw = NoConn.rw
  BY <1>2, <1>3, NoConnection DEF Connection
<1> HIDE DEF m
<1> QED BY <1>2, <1>3, <1>5, <1>6, NoConnection

LEMMA StartOp ==
  ASSUME NEW k \in Connection
  PROVE  LET m == ConnStart(k) IN
         /\ m \in Connection /\ SameConn(k, m) /\ m.state = "ACTIVE"
         /\ m.rw /\ m.ww = EvIoInit(k.ww)
         /\ ReadTimeout = 0 /\ k.trw = "off" => m.trw = "off"
<1>1. k.trw \in TimerStates /\ k.ww \in IoStates BY DEF Connection
<1>2. StartedReadTimer(k.trw) \in TimerStates /\ EvIoInit(k.ww) \in IoStates
  BY <1>1, StartedTimer, InitWriter
<1>3. ReadTimeout = 0 /\ k.trw = "off" => StartedReadTimer(k.trw) = "off"
  BY <1>1, StartedTimer
<1> QED BY <1>2, <1>3 DEF ConnStart, SameConn, Connection, ConnStates

LEMMA QueueOp ==
  ASSUME NEW k \in Connection
  PROVE  LET m == ConnQueue(k) IN
         /\ m \in Connection /\ SameConn(k, m) /\ m.state = k.state
         /\ m.trw = k.trw /\ m.ww = "active" /\ m.rw = k.rw
BY DEF ConnQueue, EvIoStart, IoStates, SameConn, Connection

LEMMA ShutdownOp ==
  ASSUME NEW k \in Connection
  PROVE  LET m == ConnShutdown(k) IN
         /\ m \in Connection /\ SameConn(k, m) /\ m.state = "SHUTDOWN"
         /\ m.trw = k.trw /\ m.rw = k.rw /\ m.ww = k.ww
BY DEF ConnShutdown, SameConn, Connection, ConnStates

LEMMA PendingOp ==
  ASSUME NEW k \in Connection
  PROVE  LET m == ConnPending(k) IN
         /\ m \in Connection /\ SameConn(k, m) /\ m.state = "PENDING_CLOSE"
         /\ m.trw = k.trw /\ m.rw = k.rw /\ m.ww = k.ww
BY DEF ConnPending, SameConn, Connection, ConnStates

\* Changing the read timer or the buffer changes nothing else.
LEMMA FieldOps ==
  ASSUME NEW k \in Connection, NEW t \in TimerStates, NEW r \in 0 .. BufLen
  PROVE  /\ LET m == [ k EXCEPT !.trw = t ] IN
            /\ m \in Connection /\ SameConn(k, m) /\ m.state = k.state /\ m.trw = t
            /\ m.rw = k.rw /\ m.ww = k.ww
         /\ LET m == [ k EXCEPT !.ruse = r ] IN
            /\ m \in Connection /\ m.sock = k.sock /\ m.state = k.state /\ m.trw = k.trw
            /\ m.rw = k.rw /\ m.ww = k.ww /\ m.ruse = r
BY DEF SameConn, Connection

LEMMA NewConnection ==
  ASSUME NEW f \in Fds
  PROVE  LET k == ConnStart(ConnInit(f)) IN
         /\ k \in Connection /\ k.sock = f /\ k.state = "ACTIVE" /\ k.ruse = 0
         /\ k.rw /\ k.ww = "off"
         /\ ReadTimeout = 0 => k.trw = "off"
<1> DEFINE Raw == [ state : ConnStates \cup {"CREATED"}, sock : Fds \cup {-1}, ruse : 0 .. BufLen,
                    rw : BOOLEAN, trw : TimerStates, ww : IoStates, queued : BOOLEAN ]
           i == ConnInit(f)
<1>1. NoConn \in Raw BY NoConnection DEF Connection
<1>2. \A k \in Raw : LET m == [ k EXCEPT !.state = "CREATED", !.sock = f ] IN
        /\ m \in Raw /\ m.sock = f /\ m.ruse = k.ruse
        /\ m.trw = k.trw /\ m.ww = k.ww
  OBVIOUS
<1>3. i \in Raw /\ i.sock = f /\ i.ruse = 0 /\ i.trw = "off" /\ i.ww = "off"
  BY <1>1, <1>2, NoConnection DEF ConnInit
<1>4. StartedReadTimer("off") \in TimerStates /\ EvIoInit("off") \in IoStates
      /\ (ReadTimeout = 0 => StartedReadTimer("off") = "off") /\ EvIoInit("off") = "off"
  BY StartedTimer, OffTimer, InitWriter DEF IoStates
<1> DEFINE t == StartedReadTimer("off")
           w == EvIoInit("off")
           k == [ i EXCEPT !.state = "ACTIVE", !.rw = TRUE, !.trw = t, !.ww = w ]
<1>5. ConnStart(i) = k BY <1>3 DEF ConnStart
<1> HIDE DEF t, w, i
<1>6. /\ k \in Connection /\ k.sock = i.sock /\ k.state = "ACTIVE" /\ k.ruse = i.ruse
      /\ k.rw = TRUE /\ k.trw = t /\ k.ww = w
  BY <1>3, <1>4 DEF Connection, ConnStates, t, w
<1> HIDE DEF k
<1>7. ConnStart(ConnInit(f)) = k BY <1>5 DEF i
<1> QED BY <1>3, <1>4, <1>6, <1>7 DEF t, w
-----------------------------------------------------------------------------
(* Counting.                                                               *)

LEMMA LiveFinite == IsFiniteSet(Live) /\ Cardinality(Live) \in 0 .. Cardinality(Conns)
<1>1. Live \in SUBSET Conns BY DEF Live
<1>2. /\ IsFiniteSet(Live) /\ Cardinality(Live) <= Cardinality(Conns)
  BY <1>1, EvsrvAssumption, FS_Subset
<1> QED BY <1>2, EvsrvAssumption, FS_CardinalityType

LEMMA CountedTyped == Shape /\ Counted => TypeOK
BY LiveFinite DEF Shape, Counted, TypeOK

LEMMA FdsFinite == IsFiniteSet(Fds) /\ Fds \subseteq Nat
<1>1. IsFiniteSet(0 .. TableLen - 1) BY EvsrvAssumption, FS_Interval
<1>2. Fds \in SUBSET (0 .. TableLen - 1) BY EvsrvAssumption
<1>3. IsFiniteSet(Fds) BY <1>1, <1>2, FS_Subset
<1> QED BY <1>2, <1>3

\* The connections of entries that do not dangle are as many as the entries.
LEMMA EntriesCount ==
  ASSUME IInv, NEW F \in SUBSET OpenFds
  PROVE  LET C == { connections[f] : f \in F } IN
         /\ C \subseteq Conns
         /\ IsFiniteSet(C) /\ Cardinality(C) = Cardinality(F)
<1> DEFINE C == { connections[f] : f \in F }
           h == [ f \in F |-> connections[f] ]
<1>1. F \in SUBSET Fds BY DEF OpenFds
<1>2. IsFiniteSet(F) BY <1>1, FdsFinite, FS_Subset
<1>3. h \in Bijection(F, C)
  <2>1. h \in [ F -> C ] OBVIOUS
  <2>2. \A f, g \in F : h[f] = h[g] => f = g BY DEF IInv, Table
  <2>3. \A y \in C : \E f \in F : h[f] = y OBVIOUS
  <2> QED BY <2>1, <2>2, <2>3 DEF Bijection, Injection, Surjection, IsInjective
<1>4. ExistsBijection(F, C) BY <1>3 DEF ExistsBijection
<1>5. C \subseteq Conns BY DEF IInv, Shape, OpenFds
<1> QED BY <1>2, <1>4, <1>5, FS_Bijection

\* Removing the connections of F from those that exist.
LEMMA RemoveEntries ==
  ASSUME IInv, ~StaleEntry, NEW F \in SUBSET OpenFds
  PROVE  LET C == { connections[f] : f \in F } IN
         /\ C \subseteq Live
         /\ Cardinality(Live \ C) = active_connections - Cardinality(F)
<1> DEFINE C == { connections[f] : f \in F }
<1>1. C \subseteq Live BY DEF StaleEntry
<1>2. IsFiniteSet(Live) /\ Cardinality(Live) \in Nat BY LiveFinite, EvsrvAssumption, FS_CardinalityType
<1>3. Live \cap C = C BY <1>1
<1>4. Cardinality(Live \ C) = Cardinality(Live) - Cardinality(Live \cap C)
  BY <1>2, FS_Difference
<1>5. Cardinality(C) = Cardinality(F) BY EntriesCount
<1> QED BY <1>1, <1>3, <1>4, <1>5 DEF IInv, Counted
-----------------------------------------------------------------------------
(* What the steps have in common.                                          *)

LEMMA InitIInv == Init => IInv
<1> SUFFICES ASSUME Init PROVE IInv OBVIOUS
<1> USE DEF Init
<1>2. Shape BY NoConnection, EvsrvAssumption DEF Shape, States
<1>3. Live = {} BY DEF Live, NoConn
<1>4. OpenFds = {} BY DEF OpenFds
<1>5. Counted BY <1>3, FS_EmptySet DEF Counted
<1>6. Table BY <1>3, <1>4 DEF Table
<1>7. Phase BY <1>3 DEF Phase
<1>8. NoTimers BY DEF NoTimers, NoConn
<1>9. Watched BY DEF Watched, NoConn
<1>10. Room /\ DeadTimers BY EvsrvAssumption DEF Room, DeadTimers, NoConn
<1>11. HeapOwned /\ Writers BY OffTimer DEF HeapOwned, Writers, NoConn
<1> QED BY <1>2, <1>5, <1>6, <1>7, <1>8, <1>9, <1>10, <1>11 DEF IInv

\* Following a dangling pointer changes nothing that is modelled.
LEMMA FaultKeeps ==
  ASSUME IInv, UseDestroyed
  PROVE  IInv'
BY DEF UseDestroyed, IInv, Shape, Counted, Table, Phase, NoTimers, HeapOwned, Watched, Writers,
       Room, DeadTimers, Live, OpenFds

\* k is what a step may make of connection c before it stores or closes it.
\* A cooperative environment leaves a pending connection pending.
Becomes(c, k) ==
  /\ k \in Connection
  /\ k.sock = conn[c].sock /\ k.state # "NONE"
  /\ k.state = "PENDING_CLOSE" => conn[c].state = "PENDING_CLOSE"
  /\ Cooperative /\ conn[c].state = "PENDING_CLOSE" => k.state = "PENDING_CLOSE"
  /\ ReadTimeout = 0 => k.trw = "off"
  /\ "write_paused" \notin App => k.ww # "lost" /\ (k.ww = "active" => k.rw)

\* Changing an existing connection.
LEMMA SetKeeps ==
  ASSUME IInv, NEW c \in Live, NEW k, Becomes(c, k),
         SetConn(c, k), k.ruse < BufLen, fault' \in BOOLEAN
  PROVE  IInv' /\ Live' = Live
<1> USE DEF SetConn, Becomes
<1>1. Live' = Live BY DEF Live, IInv, Shape
<1>2. \A d \in Live : conn'[d].sock = conn[d].sock BY DEF Live, IInv, Shape
<1>3. Shape' BY DEF IInv, Shape, Live
<1>4. Counted' BY <1>1 DEF IInv, Counted
<1>5. Table' BY <1>1, <1>2 DEF IInv, Table, OpenFds
<1>6. Phase' BY <1>1 DEF IInv, Phase, Live, Shape
<1>7. NoTimers' BY DEF IInv, NoTimers, Shape
<1>8. Watched' BY <1>1 DEF IInv, Watched, Shape
<1>9. Room' BY DEF IInv, Room, Shape
<1>10. Writers' /\ HeapOwned' BY <1>1 DEF IInv, Writers, HeapOwned, Shape
<1>11. DeadTimers' BY <1>1 DEF IInv, DeadTimers, Shape
<1> QED BY <1>1, <1>3, <1>4, <1>5, <1>6, <1>7, <1>8, <1>9, <1>10, <1>11 DEF IInv

\* evsrv_conn_close.
LEMMA CloseKeeps ==
  ASSUME IInv, NEW c \in Live, NEW k, Becomes(c, k),
         CloseConn(c, k), "early_calls" \notin App => ~IsQueued(k.trw),
         fault' \in BOOLEAN
  PROVE  IInv' /\ Live' = Live \ {c}
<1>1. /\ ConnClosed(k) \in Connection /\ ConnClosed(k).state = "NONE"
      /\ ~ConnClosed(k).rw /\ ConnClosed(k).ww # "active"
      /\ k.ww # "lost" => ConnClosed(k).ww = "off"
      /\ ConnClosed(k).ruse = 0 /\ ~EvIsActive(ConnClosed(k).trw)
      /\ ~IsQueued(k.trw) => ConnClosed(k).trw = "off"
  BY CloseOp DEF Becomes
<1>0. ReadTimeout = 0 => ConnClosed(k).trw = "off" BY <1>1, OffTimer DEF Becomes
<1>2. conn' = [ conn EXCEPT ![c] = ConnClosed(k) ] BY DEF CloseConn
<1>3. connections' = [ f \in Fds |-> IF f = k.sock /\ f > 0 THEN None ELSE connections[f] ]
  BY DEF CloseConn, Cleared
<1>4. active_connections' = active_connections - 1 BY DEF CloseConn, Remaining
<1>5. c \in Conns BY DEF Live
<1>6. Live' = Live \ {c} BY <1>1, <1>2, <1>5 DEF Live, IInv, Shape
<1>7. Shape'
  <2>1. stops' \in Nat /\ state' \in States BY DEF CloseConn, IInv, Shape, States
  <2>2. conn' \in [ Conns -> Connection ] BY <1>1, <1>2, <1>5 DEF IInv, Shape
  <2>3. connections' \in [ Fds -> Conns \cup {None} ] BY <1>3 DEF IInv, Shape
  <2> QED BY <2>1, <2>2, <2>3 DEF CloseConn, IInv, Shape
<1>8. Counted'
  <2>1. Cardinality(Live \ {c}) = Cardinality(Live) - 1 BY LiveFinite, FS_RemoveElement
  <2> QED BY <1>4, <1>6, <2>1 DEF Counted, IInv
<1>9. Table'
  <2>1. k.sock \in Fds /\ connections[k.sock] = c BY DEF IInv, Table, Becomes
  <2>2. \A d \in Live' : conn'[d] = conn[d] BY <1>2, <1>6 DEF Live, IInv, Shape
  <2>3. \A d \in Live' : conn[d].sock \in Fds /\ connections[conn[d].sock] = d
    BY <1>6 DEF IInv, Table
  <2>4. \A d \in Live' : conn'[d].sock \in Fds /\ connections'[conn'[d].sock] = d
    BY <1>3, <1>6, <2>1, <2>2, <2>3
  <2>5. OpenFds' \subseteq OpenFds BY <1>3 DEF OpenFds
  <2>6. \A f \in OpenFds' : connections'[f] = connections[f] BY <1>3 DEF OpenFds
  <2>7. \A f, g \in OpenFds' : connections'[f] = connections'[g] => f = g
    BY <2>5, <2>6 DEF IInv, Table
  <2>8. \A f \in OpenFds' : f > 0 => connections'[f] \in Live'
    <3> SUFFICES ASSUME NEW f \in OpenFds', f > 0 PROVE connections'[f] \in Live' OBVIOUS
    <3>1. f # k.sock BY <1>3 DEF OpenFds
    <3>2. k.sock \in OpenFds BY <2>1, <1>5, EvsrvAssumption DEF OpenFds
    <3>3. connections[f] # c BY <3>1, <3>2, <2>1, <2>5 DEF IInv, Table
    <3>4. connections[f] \in Live BY <2>5 DEF IInv, Table
    <3> QED BY <3>3, <3>4, <2>6, <1>6
  <2> QED BY <2>4, <2>7, <2>8 DEF Table
<1>10. Phase'
  <2>1. state \in {"ACCEPTING", "GRACEFULLY_STOPPING"} /\ ~(stops > 0)
    BY DEF IInv, Phase
  <2>2. CASE EndsGracefulStop(k.state, Remaining(1))
    <3>1. Cardinality(Live') = 0
      BY <2>2, <1>4, <1>8 DEF EndsGracefulStop, Remaining, Counted
    <3>2. Live' = {} BY <3>1, <1>6, LiveFinite, FS_RemoveElement, FS_EmptySet
    <3> QED BY <2>2, <3>2 DEF CloseConn, EndsGracefulStop, Phase, IInv
  <2>3. CASE ~EndsGracefulStop(k.state, Remaining(1))
    <3>1. \A d \in Live' : conn'[d] = conn[d] /\ d \in Live BY <1>2, <1>6 DEF IInv, Shape, Live
    <3> QED BY <2>1, <2>3, <3>1 DEF CloseConn, Phase, IInv
  <2> QED BY <2>2, <2>3
<1>11. NoTimers' BY <1>0, <1>2 DEF IInv, NoTimers, Shape
<1>12. Watched' BY <1>1, <1>2, <1>6 DEF IInv, Watched, Shape
<1>13. Room' BY <1>1, <1>2, EvsrvAssumption DEF IInv, Room, Shape
<1>14. Writers' /\ HeapOwned'
  BY <1>1, <1>2, <1>6 DEF IInv, Writers, HeapOwned, Shape, Becomes
<1>15. DeadTimers' BY <1>1, <1>2, <1>6 DEF IInv, DeadTimers, Shape
<1> QED BY <1>6, <1>7, <1>8, <1>9, <1>10, <1>11, <1>12, <1>13, <1>14, <1>15 DEF IInv
-----------------------------------------------------------------------------
(* Every callback on a connection and every call of its API either stores  *)
(* the connection, closes it, or follows a dangling pointer.               *)

ConnStep(c) ==
  \/ UseDestroyed
  \/ /\ c \in Live
     /\ fault' \in BOOLEAN
     /\ \E k : /\ Becomes(c, k)
              /\ \/ SetConn(c, k) /\ k.ruse < BufLen
                 \/ CloseConn(c, k) /\ ("early_calls" \notin App => ~IsQueued(k.trw))

\* The connection as it is, with another read timer or buffer, or shut down.
LEMMA BecomesItself ==
  ASSUME IInv, NEW c \in Live
  PROVE  Becomes(c, conn[c])
BY DEF IInv, Shape, Live, NoTimers, Writers, Becomes

LEMMA BecomesField ==
  ASSUME NEW c, NEW k, Becomes(c, k), NEW t \in TimerStates, NEW r \in 0 .. BufLen
  PROVE  /\ (ReadTimeout = 0 => t = "off") => Becomes(c, [ k EXCEPT !.trw = t ])
         /\ Becomes(c, [ k EXCEPT !.ruse = r ])
BY FieldOps DEF Becomes, SameConn

LEMMA BecomesShutdown ==
  ASSUME NEW c, NEW k, Becomes(c, k), ~Cooperative
  PROVE  Becomes(c, ConnShutdown(k)) /\ ConnShutdown(k).trw = k.trw
BY ShutdownOp DEF Becomes, SameConn

LEMMA BeforeReadTimer ==
  ASSUME IInv, NEW c \in Live, Readable(c)
  PROVE  /\ Becomes(c, BeforeRead(c)) /\ BeforeRead(c).trw = "off"
         /\ BeforeRead(c).ruse = conn[c].ruse
<1>1. conn[c] \in Connection /\ conn[c].trw \in TimerStates
  BY DEF Live, IInv, Shape, Connection
<1>2. ~IsQueued(conn[c].trw) BY DEF Readable, NoTimerPending, Live
<1>3. StopTimer(conn[c].trw) = "off" BY <1>1, <1>2, StoppedTimer
<1>4. BeforeRead(c) = [ conn[c] EXCEPT !.trw = "off" ] BY <1>3 DEF BeforeRead
<1>5. 0 \in 0 .. BufLen /\ "off" \in TimerStates BY EvsrvAssumption DEF TimerStates
<1>6. Becomes(c, [ conn[c] EXCEPT !.trw = "off" ])
  BY <1>5, BecomesItself, BecomesField
<1>7. LET m == [ conn[c] EXCEPT !.trw = "off" ] IN m.trw = "off" /\ m.ruse = conn[c].ruse
  BY <1>1, <1>5, FieldOps DEF SameConn
<1> QED BY <1>4, <1>6, <1>7

LEMMA ReadSteps ==
  ASSUME IInv, NEW c \in Conns,
         ReadData(c) \/ ReadDataAndClose(c) \/ ReadEof(c) \/ ReadEofAndClose(c)
           \/ ReadAgain(c) \/ ReadError(c)
  PROVE  ConnStep(c)
<1>1. Readable(c)
  BY DEF ReadData, ReadDataAndClose, ReadEof, ReadEofAndClose, ReadAgain, ReadError
<1>2. c \in Live BY <1>1 DEF IInv, Watched, Readable
<1>3. fault' \in BOOLEAN
  BY DEF IInv, Shape, ReadData, ReadDataAndClose, ReadEof, ReadEofAndClose, ReadAgain, ReadError
<1>4. /\ Becomes(c, BeforeRead(c)) /\ BeforeRead(c).trw = "off"
      /\ BeforeRead(c).ruse = conn[c].ruse
  BY <1>1, <1>2, BeforeReadTimer
<1>5. conn[c].ruse < BufLen BY <1>2 DEF IInv, Room
<1>6. CASE ReadData(c)
  <2>1. PICK n \in 1 .. BufLen - conn[c].ruse :
        \E r \in IF "keep" \in App THEN 0 .. conn[c].ruse + n ELSE {0} :
          LET k == [ BeforeRead(c) EXCEPT !.ruse = r ] IN
          \/ BufferFull(r) /\ CloseConn(c, ConnShutdown(k))
          \/ ~BufferFull(r) /\ SetConn(c, k)
    BY <1>6 DEF ReadData
  <2>2. PICK r \in IF "keep" \in App THEN 0 .. conn[c].ruse + n ELSE {0} :
          LET k == [ BeforeRead(c) EXCEPT !.ruse = r ] IN
          \/ BufferFull(r) /\ CloseConn(c, ConnShutdown(k))
          \/ ~BufferFull(r) /\ SetConn(c, k)
    BY <2>1
  <2> DEFINE k == [ BeforeRead(c) EXCEPT !.ruse = r ]
  <2>3. conn[c].ruse \in 0 .. BufLen BY DEF IInv, Shape, Connection
  <2>4. r \in 0 .. BufLen
    <3>1. CASE "keep" \in App BY <2>3, <3>1, EvsrvAssumption
    <3>2. CASE "keep" \notin App BY <3>2, EvsrvAssumption
    <3> QED BY <3>1, <3>2
  <2>5. Becomes(c, k) /\ k.trw = "off" /\ k.ruse = r
    <3>1. "off" \in TimerStates BY DEF TimerStates
    <3>2. BeforeRead(c) \in Connection BY <1>4 DEF Becomes
    <3>3. Becomes(c, k) BY <1>4, <2>4, <3>1, BecomesField
    <3>4. k.trw = BeforeRead(c).trw /\ k.ruse = r BY <2>4, <3>1, <3>2, FieldOps
    <3> QED BY <1>4, <3>3, <3>4
  <2>6. CASE BufferFull(r)
    <3>1. ~Cooperative BY <2>2, <2>6 DEF BufferFull, Cooperative
    <3>2. Becomes(c, ConnShutdown(k)) /\ ConnShutdown(k).trw = "off"
      BY <2>5, <3>1, BecomesShutdown
    <3> QED BY <1>2, <1>3, <2>2, <2>6, <3>2, OffTimer DEF ConnStep
  <2>7. CASE ~BufferFull(r)
    <3>1. r < BufLen BY <2>4, <2>7, EvsrvAssumption DEF BufferFull
    <3> QED BY <1>2, <1>3, <2>2, <2>5, <2>7, <3>1 DEF ConnStep
  <2> QED BY <2>6, <2>7
<1>7. CASE ReadEof(c)
  <2>1. ~Cooperative BY <1>7 DEF ReadEof, Cooperative
  <2>2. Becomes(c, ConnShutdown(BeforeRead(c))) /\ ConnShutdown(BeforeRead(c)).trw = "off"
    BY <1>4, <2>1, BecomesShutdown
  <2> QED BY <1>2, <1>3, <1>7, <2>2, OffTimer DEF ReadEof, ConnStep
<1>8. CASE ReadDataAndClose(c) \/ ReadEofAndClose(c) \/ ReadError(c)
  BY <1>2, <1>3, <1>4, <1>8, OffTimer DEF ReadDataAndClose, ReadEofAndClose, ReadError, ConnStep
<1>9. CASE ReadAgain(c)
  BY <1>2, <1>3, <1>4, <1>5, <1>9 DEF ReadAgain, ConnStep
<1> QED BY <1>6, <1>7, <1>8, <1>9

LEMMA WriteAndTimeoutSteps ==
  ASSUME IInv, NEW c \in Conns, WriteCb(c) \/ ReadTimeoutCb(c)
  PROVE  ConnStep(c)
<1>1. conn[c] \in Connection /\ fault \in BOOLEAN BY DEF IInv, Shape
<1>2. CASE WriteCb(c)
  <2>1. CASE c \notin Live BY <1>2, <2>1 DEF WriteCb, ConnStep
  <2>2. CASE c \in Live
    <3> DEFINE k == [ conn[c] EXCEPT !.queued = FALSE, !.ww = StopIo(@) ]
    <3>1. fault' = fault /\ ~IsQueued(conn[c].trw)
      BY <1>2, <2>2 DEF WriteCb, NoTimerPending
    <3>2. Becomes(c, conn[c]) BY <2>2, BecomesItself
    <3>3. conn[c].ww \in IoStates BY <1>1 DEF Connection
    <3>4. StopIo(conn[c].ww) \in IoStates /\ StopIo(conn[c].ww) # "active"
          /\ (conn[c].ww # "lost" => StopIo(conn[c].ww) = "off")
      BY <3>3, StoppedWriter
    <3>5. /\ k \in Connection /\ SameConn(conn[c], k) /\ k.state = conn[c].state
          /\ k.trw = conn[c].trw /\ k.rw = conn[c].rw /\ k.ww = StopIo(conn[c].ww)
      BY <1>1, <3>4 DEF Connection, SameConn
    <3>6. SetConn(c, k) \/ CloseConn(c, conn[c]) BY <1>2, <2>2 DEF WriteCb
    <3> HIDE DEF k
    <3>7. Becomes(c, k) BY <3>2, <3>4, <3>5 DEF Becomes, SameConn
    <3>8. k.ruse < BufLen BY <2>2, <3>5 DEF IInv, Room, Live, SameConn
    <3> QED BY <1>1, <2>2, <3>1, <3>2, <3>6, <3>7, <3>8 DEF ConnStep
  <2> QED BY <2>1, <2>2
<1>3. CASE ReadTimeoutCb(c)
  <2>1. CASE c \in Live
    <3> DEFINE k == [ conn[c] EXCEPT !.trw = "off" ]
    <3>1. ~Cooperative
      BY <1>3, OffTimer DEF ReadTimeoutCb, IInv, NoTimers, Cooperative
    <3>2. conn[c].trw \in TimerStates BY <1>1 DEF Connection
    <3>3. CloseConn(c, ConnShutdown(k)) /\ fault' = fault
      BY <1>3, <2>1, <3>2, InvokedTimer DEF ReadTimeoutCb
    <3>4. Becomes(c, conn[c]) BY <2>1, BecomesItself
    <3>5. Becomes(c, k) /\ k.trw = "off"
      <4>1. 0 \in 0 .. BufLen BY EvsrvAssumption
      <4> QED BY <1>1, <3>4, <4>1, OffTimer, BecomesField, FieldOps
    <3>6. Becomes(c, ConnShutdown(k)) /\ ConnShutdown(k).trw = "off"
      BY <3>1, <3>5, BecomesShutdown
    <3> QED BY <1>1, <2>1, <3>3, <3>6, OffTimer DEF ConnStep
  <2>2. CASE c \notin Live BY <1>3, <2>2 DEF ReadTimeoutCb, ConnStep
  <2> QED BY <2>1, <2>2
<1> QED BY <1>2, <1>3

LEMMA CallSteps ==
  ASSUME IInv, NEW c \in Conns, ConnCalls(c)
  PROVE  ConnStep(c)
<1>1. c \in Live /\ CanCall
  BY DEF ConnCalls, ConnClose, ConnWrite, ConnShutdownCall, ConnStopCall, ConnStartCall,
         ConnReadTimerAgain, ConnReadTimerStop, Live
<1>2. "early_calls" \notin App => ~IsQueued(conn[c].trw)
  BY <1>1 DEF CanCall, NoTimerPending
<1>3. Becomes(c, conn[c]) BY <1>1, BecomesItself
<1>4. conn[c] \in Connection /\ conn[c].ruse < BufLen /\ fault' \in BOOLEAN
  BY <1>1 DEF IInv, Shape, Room, EntersTwice, ConnCalls, ConnClose, ConnWrite, ConnShutdownCall,
              ConnStopCall, ConnStartCall, ConnReadTimerAgain, ConnReadTimerStop
<1>0. conn[c].trw \in TimerStates /\ conn[c].ww \in IoStates BY <1>4 DEF Connection
<1>5. CASE ConnClose(c) BY <1>1, <1>2, <1>3, <1>4, <1>5 DEF ConnClose, ConnStep
<1>6. CASE ConnWrite(c)
  <2>0. "write_paused" \notin App => conn[c].rw BY <1>6 DEF ConnWrite
  <2>1. Becomes(c, ConnQueue(conn[c])) /\ ConnQueue(conn[c]).ruse < BufLen
    BY <1>3, <1>4, <2>0, QueueOp DEF Becomes, SameConn
  <2> QED BY <1>1, <1>2, <1>3, <1>4, <1>6, <2>1 DEF ConnWrite, ConnStep
<1>7. CASE ConnShutdownCall(c)
  <2>1. ~Cooperative BY <1>7 DEF ConnShutdownCall, Cooperative
  <2>2. Becomes(c, ConnShutdown(conn[c])) /\ ConnShutdown(conn[c]).ruse < BufLen
    BY <1>3, <1>4, <2>1, BecomesShutdown, ShutdownOp DEF SameConn
  <2> QED BY <1>1, <1>4, <1>7, <2>2 DEF ConnShutdownCall, ConnStep
<1>8. CASE ConnStopCall(c)
  <2>1. "pause" \in App /\ ~Cooperative BY <1>8 DEF ConnStopCall, Cooperative
  <2>2. /\ ReadTimeout = 0 => StopTimer(conn[c].trw) = "off"
        /\ "write_paused" \notin App => StopIo(conn[c].ww) = "off"
    BY <1>0, <1>3, OffTimer, StoppedTimer, StoppedWriter DEF Becomes
  <2>3. Becomes(c, ConnStop(conn[c])) /\ ConnStop(conn[c]).ruse < BufLen
    BY <1>3, <1>4, <2>1, <2>2, StopOp DEF Becomes, SameConn
  <2> QED BY <1>1, <1>4, <1>8, <2>3 DEF ConnStopCall, ConnStep
<1>9. CASE ConnStartCall(c)
  <2>1. "pause" \in App /\ ~Cooperative BY <1>9 DEF ConnStartCall, Cooperative
  <2>0. "write_paused" \notin App => EvIoInit(conn[c].ww) = "off"
    BY <1>0, <1>3, <1>9, InitWriter DEF Becomes, ConnStartCall, IoStates
  <2>2. Becomes(c, ConnStart(conn[c])) /\ ConnStart(conn[c]).ruse < BufLen
    BY <1>3, <1>4, <2>0, <2>1, StartOp DEF Becomes, SameConn
  <2> QED BY <1>1, <1>4, <1>9, <2>2 DEF ConnStartCall, ConnStep
<1>10. CASE ConnReadTimerAgain(c) \/ ConnReadTimerStop(c)
  <2>1. PICK t \in TimerStates :
          SetConn(c, [ conn[c] EXCEPT !.trw = t ]) /\ (ReadTimeout = 0 => t = "off")
    <3>1. CASE ConnReadTimerAgain(c)
      <4>1. EvTimerAgain(conn[c].trw, ReadTimerRepeat) \in TimerStates
        BY DEF EvTimerAgain, ReadTimerRepeat, EvTimerStop, TimerStates
      <4> QED BY <3>1, <4>1, EvsrvAssumption DEF ConnReadTimerAgain
    <3>2. CASE ConnReadTimerStop(c)
      <4>1. ReadTimeout = 0 => ~IsQueued(conn[c].trw) BY <1>3, OffTimer DEF Becomes
      <4> QED BY <1>0, <3>2, <4>1, StoppedTimer DEF ConnReadTimerStop
    <3> QED BY <1>10, <3>1, <3>2
  <2> DEFINE k == [ conn[c] EXCEPT !.trw = t ]
  <2>2. conn[c].ruse \in 0 .. BufLen BY <1>4 DEF Connection
  <2>3. Becomes(c, k) /\ k.ruse < BufLen
    BY <1>3, <1>4, <2>1, <2>2, BecomesField, FieldOps DEF SameConn
  <2> QED BY <1>1, <1>4, <2>1, <2>3 DEF ConnStep
<1> QED BY <1>5, <1>6, <1>7, <1>8, <1>9, <1>10 DEF ConnCalls
-----------------------------------------------------------------------------
(* The steps of the server.                                                *)

LEMMA StepConnKeeps ==
  ASSUME IInv, NEW c \in Conns, ConnStep(c)
  PROVE  IInv'
BY FaultKeeps, SetKeeps, CloseKeeps DEF ConnStep

LEMMA AcceptKeeps ==
  ASSUME IInv, NEW c \in Conns, NEW f \in Fds, AcceptCb(c, f)
  PROVE  IInv' /\ (Live' = Live \/ Live' = Live \cup {c})
<1>1. CASE UseDestroyed
  BY <1>1, FaultKeeps DEF UseDestroyed, Live
<1>2. CASE ~UseDestroyed
  <2> DEFINE k == ConnStart(ConnInit(f))
  <2>1. /\ k \in Connection /\ k.sock = f /\ k.state = "ACTIVE" /\ k.ruse = 0
        /\ k.rw /\ k.ww = "off"
        /\ ReadTimeout = 0 => k.trw = "off"
    BY NewConnection
  <2> HIDE DEF k
  <2>2. /\ connections[f] = None
        /\ active_connections' = active_connections + 1
        /\ connections' = [ connections EXCEPT ![f] = c ]
        /\ conn' = [ conn EXCEPT ![c] = k ]
        /\ UNCHANGED << state, accept_rw, stops, fault >>
    BY <1>2 DEF AcceptCb, k
  <2>3. /\ accept_rw /\ c \notin Live
        /\ \A g \in OpenFds : connections[g] # c
        /\ \A d \in Live : conn[d].sock # f
    BY DEF AcceptCb, Live
  <2>4. Live' = Live \cup {c} BY <2>1, <2>2 DEF Live, IInv, Shape
  <2>5. OpenFds' = OpenFds \cup {f}
    BY <2>2, EvsrvAssumption DEF OpenFds, IInv, Shape
  <2>6. Shape' BY <2>1, <2>2 DEF IInv, Shape
  <2>7. Counted'
    <3>1. Cardinality(Live \cup {c}) = Cardinality(Live) + 1
      BY <2>3, LiveFinite, FS_AddElement
    <3> QED BY <2>2, <2>4, <3>1 DEF IInv, Counted
  <2>8. Table'
    <3>1. \A d \in Live' : conn'[d].sock \in Fds /\ connections'[conn'[d].sock] = d
      BY <2>1, <2>2, <2>3, <2>4 DEF IInv, Table, Shape, Live
    <3>2. \A g, h \in OpenFds' : connections'[g] = connections'[h] => g = h
      BY <2>2, <2>3, <2>5 DEF IInv, Table, Shape, OpenFds
    <3>3. \A g \in OpenFds' : g > 0 => connections'[g] \in Live'
      BY <2>2, <2>4, <2>5 DEF IInv, Table, Shape, OpenFds
    <3> QED BY <3>1, <3>2, <3>3 DEF Table
  <2>9. Phase' BY <2>1, <2>2, <2>3, <2>4 DEF IInv, Phase, Shape, Live
  <2>10. NoTimers' BY <2>1, <2>2 DEF IInv, NoTimers, Shape
  <2>11. Watched' BY <2>2, <2>4 DEF IInv, Watched, Shape
  <2>12. Room' BY <2>1, <2>2, EvsrvAssumption DEF IInv, Room, Shape
  <2>13. Writers' /\ HeapOwned'
    BY <2>1, <2>2, <2>4 DEF IInv, Writers, HeapOwned, Shape
  <2>14. DeadTimers' BY <2>2, <2>4 DEF IInv, DeadTimers, Shape
  <2> QED BY <2>4, <2>6, <2>7, <2>8, <2>9, <2>10, <2>11, <2>12, <2>13, <2>14 DEF IInv
<1> QED BY <1>1, <1>2

\* Closing the connections of F, when no entry dangles, and making any of the
\* others pending: what evsrv_stop and evsrv_graceful_stop do to the table.
LEMMA CloseEntries ==
  ASSUME IInv, ~StaleEntry, NEW F \in SUBSET OpenFds,
         conn' \in [ Conns -> Connection ],
         \A c \in Conns : (\E f \in F : connections[f] = c) => conn'[c] = ConnClosed(conn[c]),
         \A c \in Conns : ~(\E f \in F : connections[f] = c) =>
            /\ conn'[c].sock = conn[c].sock /\ conn'[c].trw = conn[c].trw
            /\ conn'[c].rw = conn[c].rw /\ conn'[c].ww = conn[c].ww
            /\ conn'[c].ruse = conn[c].ruse
            /\ conn'[c].state = "NONE" <=> conn[c].state = "NONE",
         CanCall,
         connections' = Cleared(F),
         active_connections' = Remaining(Cardinality(F))
  PROVE  /\ Live' = Live \ { connections[f] : f \in F }
         /\ Counted' /\ Table' /\ NoTimers' /\ HeapOwned' /\ Watched' /\ Writers' /\ Room'
        /\ DeadTimers'
         /\ connections' \in [ Fds -> Conns \cup {None} ]
<1> DEFINE C == { connections[f] : f \in F }
<1>1. \A c \in Conns : c \in C <=> \E f \in F : connections[f] = c OBVIOUS
<1>2. \A c \in C : c \in Conns /\ conn'[c] = ConnClosed(conn[c])
  BY <1>1, EntriesCount
<1>3. \A c \in Conns : LET k == ConnClosed(conn[c]) IN
        /\ k.state = "NONE" /\ k.ruse = 0 /\ ~k.rw /\ k.ww # "active"
        /\ conn[c].ww # "lost" => k.ww = "off"
        /\ ~EvIsActive(k.trw) /\ (~IsQueued(conn[c].trw) => k.trw = "off")
  BY CloseOp DEF IInv, Shape
<1>4. \A c \in C :
        /\ conn'[c].state = "NONE" /\ conn'[c].ruse = 0
        /\ ~conn'[c].rw /\ conn'[c].ww # "active"
        /\ conn[c].ww # "lost" => conn'[c].ww = "off"
        /\ ~EvIsActive(conn'[c].trw) /\ (~IsQueued(conn[c].trw) => conn'[c].trw = "off")
  BY <1>2, <1>3
<1>5. \A c \in Conns \ C :
        /\ conn'[c].sock = conn[c].sock /\ conn'[c].trw = conn[c].trw
        /\ conn'[c].rw = conn[c].rw /\ conn'[c].ww = conn[c].ww
        /\ conn'[c].ruse = conn[c].ruse
        /\ conn'[c].state = "NONE" <=> conn[c].state = "NONE"
  BY <1>1
<1> HIDE DEF C
<1>6. Live' = Live \ C BY <1>2, <1>4, <1>5 DEF Live
<1>7. C \subseteq Live /\ Cardinality(Live \ C) = active_connections - Cardinality(F)
  BY RemoveEntries DEF C
<1>8. Counted' BY <1>6, <1>7 DEF Counted, Remaining
<1>9. connections' = [ f \in Fds |-> IF f \in F /\ f > 0 THEN None ELSE connections[f] ]
  BY DEF Cleared
<1>10. Table'
  <2>1. \A d \in Live' : /\ conn'[d].sock = conn[d].sock /\ d \in Live
                         /\ \A f \in F : connections[f] # d
    BY <1>5, <1>6 DEF Live, C
  <2>2. \A d \in Live' : conn'[d].sock \in Fds /\ connections'[conn'[d].sock] = d
    BY <2>1, <1>9 DEF IInv, Table
  <2>3. OpenFds' \subseteq OpenFds /\ \A f \in OpenFds' : connections'[f] = connections[f]
    BY <1>9 DEF OpenFds
  <2>4. \A f \in OpenFds' : f > 0 => connections'[f] \in Live'
    <3> SUFFICES ASSUME NEW f \in OpenFds', f > 0 PROVE connections'[f] \in Live' OBVIOUS
    <3>1. f \notin F BY <1>9 DEF OpenFds
    <3>2. f \in OpenFds /\ connections'[f] = connections[f] BY <2>3
    <3>3. connections[f] \notin C BY <3>1, <3>2 DEF C, IInv, Table
    <3>4. connections[f] \in Live BY <3>2 DEF IInv, Table
    <3> QED BY <1>6, <3>2, <3>3, <3>4
  <2> QED BY <2>2, <2>3, <2>4 DEF IInv, Table
<1>11. NoTimers'
  <2>1. \A c \in Conns : conn[c].trw = "off" => conn'[c].trw = "off"
    BY <1>4, <1>5, OffTimer
  <2> QED BY <2>1 DEF IInv, NoTimers
<1>12. Watched'
  <2>1. \A c \in Conns : conn'[c].rw \/ conn'[c].ww = "active" =>
          c \notin C /\ (conn[c].rw \/ conn[c].ww = "active")
    BY <1>4, <1>5
  <2> QED BY <2>1, <1>6 DEF IInv, Watched
<1>13. connections' \in [ Fds -> Conns \cup {None} ] BY <1>9 DEF IInv, Shape
<1>14. Room'
  <2>1. \A c \in Conns : conn'[c].ruse = 0 \/ conn'[c].ruse = conn[c].ruse BY <1>4, <1>5
  <2> QED BY <2>1, EvsrvAssumption DEF IInv, Room
<1>15. Writers'
  <2> SUFFICES ASSUME "write_paused" \notin App, NEW c \in Conns
               PROVE  conn'[c].ww # "lost" /\ (conn'[c].ww = "active" => conn'[c].rw)
    BY DEF Writers
  <2>1. conn[c].ww # "lost" /\ (conn[c].ww = "active" => conn[c].rw) BY DEF IInv, Writers
  <2> QED BY <1>4, <1>5, <2>1
<1>17. HeapOwned'
  <2>1. \A c \in Conns : EvIsActive(conn'[c].trw) => c \notin C /\ EvIsActive(conn[c].trw)
    BY <1>4, <1>5
  <2> QED BY <2>1, <1>6 DEF IInv, HeapOwned
<1>16. DeadTimers'
  <2> SUFFICES ASSUME "early_calls" \notin App, NEW c \in Conns, c \notin Live'
               PROVE  conn'[c].trw = "off"
    BY DEF DeadTimers
  <2>1. ~IsQueued(conn[c].trw) BY DEF CanCall, NoTimerPending
  <2> QED BY <1>4, <1>5, <1>6, <2>1 DEF IInv, DeadTimers
<1> QED BY <1>6, <1>8, <1>10, <1>11, <1>12, <1>13, <1>14, <1>15, <1>16, <1>17 DEF C

LEMMA StopKeeps ==
  ASSUME IInv, EvsrvStop
  PROVE  IInv' /\ (UseDestroyed \/ Live' = {})
<1>1. CASE UseDestroyed BY <1>1, FaultKeeps
<1>2. CASE ~UseDestroyed
  <2> DEFINE left == Remaining(Cardinality(OpenFds))
  <2>1. /\ ~StaleEntry
        /\ accept_rw' = FALSE
        /\ conn' = [ c \in Conns |-> IF \E f \in OpenFds : connections[f] = c
                                     THEN ConnClosed(conn[c]) ELSE conn[c] ]
        /\ connections' = Cleared(OpenFds)
        /\ active_connections' = left
        /\ stops' = IF OpenFds # {} /\ EndsGracefulStop(LastConn.state, left)
                    THEN stops + 1 ELSE stops
        /\ state' = "STOPPED"
        /\ UNCHANGED fault
    BY <1>2 DEF EvsrvStop, StopAccepting
  <2> HIDE DEF left
  <2>2. conn' \in [ Conns -> Connection ]
    BY <2>1, CloseOp DEF IInv, Shape
  <2>3. /\ Live' = Live \ { connections[f] : f \in OpenFds }
        /\ Counted' /\ Table' /\ NoTimers' /\ HeapOwned' /\ Watched' /\ Writers' /\ Room'
        /\ DeadTimers'
        /\ connections' \in [ Fds -> Conns \cup {None} ]
    BY <2>1, <2>2, CloseEntries DEF left, EvsrvStop
  <2>4. Live \subseteq { connections[f] : f \in OpenFds }
    <3> SUFFICES ASSUME NEW c \in Live PROVE \E f \in OpenFds : c = connections[f] OBVIOUS
    <3>1. conn[c].sock \in Fds /\ connections[conn[c].sock] = c BY DEF IInv, Table
    <3>2. c # None BY EvsrvAssumption DEF Live
    <3> QED BY <3>1, <3>2 DEF OpenFds
  <2>5. Live' = {} BY <2>3, <2>4
  <2>6. Shape'
    <3>1. stops' \in Nat BY <2>1 DEF IInv, Shape
    <3>2. state' \in States /\ accept_rw' \in BOOLEAN /\ fault' \in BOOLEAN
      BY <2>1 DEF IInv, Shape, States
    <3> QED BY <2>2, <2>3, <3>1, <3>2 DEF Shape
  <2>7. Phase' BY <2>1, <2>5 DEF Phase
  <2> QED BY <2>3, <2>5, <2>6, <2>7 DEF IInv
<1> QED BY <1>1, <1>2

LEMMA GracefulIdleKeeps ==
  ASSUME IInv, GracefulStopIdle
  PROVE  IInv' /\ Live = {} /\ Live' = {}
<1>1. Live = {} BY LiveFinite, FS_EmptySet DEF GracefulStopIdle, IInv, Counted
<1>2. Live' = {} BY <1>1 DEF GracefulStopIdle, Live
<1>3. Shape'
  <2>1. stops' \in Nat BY DEF GracefulStopIdle, IInv, Shape
  <2>2. state' \in States /\ accept_rw' \in BOOLEAN
    BY DEF GracefulStopIdle, StopAccepting, States
  <2> QED BY <2>1, <2>2 DEF GracefulStopIdle, IInv, Shape
<1>4. Counted' BY <1>1, <1>2 DEF GracefulStopIdle, IInv, Counted
<1>5. Table' BY <1>1, <1>2 DEF GracefulStopIdle, IInv, Table, OpenFds
<1>6. Phase' BY <1>2 DEF GracefulStopIdle, StopAccepting, Phase
<1>7. NoTimers' /\ HeapOwned' /\ Watched' /\ Writers' /\ Room' /\ DeadTimers'
  BY <1>1, <1>2 DEF GracefulStopIdle, IInv, NoTimers, HeapOwned, Watched, Writers, Room, DeadTimers
<1> QED BY <1>1, <1>2, <1>3, <1>4, <1>5, <1>6, <1>7 DEF IInv

LEMMA GracefulBusyKeeps ==
  ASSUME IInv, NEW F \in SUBSET OpenFds, GracefulStopBusy(F)
  PROVE  /\ IInv'
         /\ \/ UseDestroyed
            \/ /\ Live' \subseteq Live
               /\ \A c \in Live' : conn'[c].state = "PENDING_CLOSE"
               /\ \/ Live' = {} /\ state' = "STOPPED"
                     /\ stops' = IF LastConn.state = "PENDING_CLOSE" THEN stops + 2 ELSE stops + 1
                  \/ Live' # {} /\ state' = "GRACEFULLY_STOPPING" /\ stops' = stops
               /\ fault' = fault /\ accept_rw' = FALSE
<1>1. CASE UseDestroyed BY <1>1, FaultKeeps
<1>2. CASE ~UseDestroyed
  <2> DEFINE left == Remaining(Cardinality(F))
  <2>1. /\ ~StaleEntry
        /\ accept_rw' = FALSE
        /\ conn' = [ c \in Conns |->
                       IF \E f \in F : connections[f] = c THEN ConnClosed(conn[c])
                       ELSE IF c \in Live THEN ConnPending(conn[c])
                       ELSE conn[c] ]
        /\ connections' = Cleared(F)
        /\ active_connections' = left
        /\ \/ /\ left = 0
              /\ state' = "STOPPED"
              /\ stops' = IF LastConn.state = "PENDING_CLOSE" THEN stops + 2 ELSE stops + 1
           \/ /\ left # 0
              /\ state' = "GRACEFULLY_STOPPING"
              /\ UNCHANGED stops
        /\ UNCHANGED fault
    BY <1>2 DEF GracefulStopBusy, StopAccepting
  <2> HIDE DEF left
  <2>2. \A c \in Conns :
          /\ ConnClosed(conn[c]) \in Connection
          /\ ConnPending(conn[c]) \in Connection
          /\ ConnPending(conn[c]).state = "PENDING_CLOSE"
    BY CloseOp, PendingOp DEF IInv, Shape
  <2>3. \A c \in Conns : LET m == ConnPending(conn[c]) IN
          /\ m.sock = conn[c].sock /\ m.trw = conn[c].trw
          /\ m.rw = conn[c].rw /\ m.ww = conn[c].ww
          /\ m.ruse = conn[c].ruse
    BY PendingOp DEF IInv, Shape, SameConn
  <2>4. conn' \in [ Conns -> Connection ]
    BY <2>1, <2>2 DEF IInv, Shape
  <2>5. \A c \in Conns : (\E f \in F : connections[f] = c) => conn'[c] = ConnClosed(conn[c])
    BY <2>1
  <2>6. \A c \in Conns : ~(\E f \in F : connections[f] = c) =>
          conn'[c] = IF c \in Live THEN ConnPending(conn[c]) ELSE conn[c]
    BY <2>1
  <2>7. \A c \in Conns : ~(\E f \in F : connections[f] = c) =>
          /\ conn'[c].sock = conn[c].sock /\ conn'[c].trw = conn[c].trw
          /\ conn'[c].rw = conn[c].rw /\ conn'[c].ww = conn[c].ww
          /\ conn'[c].ruse = conn[c].ruse
          /\ conn'[c].state = "NONE" <=> conn[c].state = "NONE"
    BY <2>2, <2>3, <2>6 DEF Live
  <2>8. /\ Live' = Live \ { connections[f] : f \in F }
        /\ Counted' /\ Table' /\ NoTimers' /\ HeapOwned' /\ Watched' /\ Writers' /\ Room'
        /\ DeadTimers'
        /\ connections' \in [ Fds -> Conns \cup {None} ]
    BY <2>1, <2>4, <2>5, <2>7, CloseEntries DEF left, GracefulStopBusy, CanGracefulStop
  <2>9. Live' = {} <=> left = 0
    <3>1. IsFiniteSet(Live') BY <2>8, LiveFinite, FS_Difference
    <3>2. Cardinality(Live') = left BY <2>1, <2>8 DEF Counted
    <3> QED BY <3>1, <3>2, FS_EmptySet
  <2>10. \A c \in Live' : conn'[c].state = "PENDING_CLOSE"
    <3> SUFFICES ASSUME NEW c \in Live' PROVE conn'[c].state = "PENDING_CLOSE" OBVIOUS
    <3>1. c \in Live /\ ~(\E f \in F : connections[f] = c) BY <2>8
    <3> QED BY <3>1, <2>2, <2>6 DEF Live
  <2>11. stops' \in Nat BY <2>1 DEF IInv, Shape
  <2>12. Shape' BY <2>1, <2>4, <2>8, <2>11 DEF IInv, Shape, States
  <2>13. Phase'
    <3>1. ~(stops > 0)
      BY DEF GracefulStopBusy, CanGracefulStop, IInv, Phase
    <3> QED BY <2>1, <2>9, <3>1 DEF Phase
  <2> QED BY <2>1, <2>8, <2>9, <2>10, <2>12, <2>13 DEF IInv
<1> QED BY <1>1, <1>2

LEMMA StartKeeps ==
  ASSUME IInv, EvsrvBind \/ EvsrvListen \/ EvsrvAccept
  PROVE  IInv' /\ Live = {} /\ Live' = {}
<1>1. UNCHANGED << active_connections, connections, conn, fault >>
  BY DEF EvsrvBind, EvsrvListen, EvsrvAccept
<1>2. state \in {"IDLE", "BOUND", "LISTENING", "STOPPED"}
  BY DEF EvsrvBind, EvsrvListen, EvsrvAccept
<1>3. Live = {} /\ ~accept_rw BY <1>2 DEF IInv, Phase
<1>4. Live' = {} BY <1>1, <1>3 DEF Live
<1>5. Shape'
  <2>1. stops' \in Nat BY DEF EvsrvBind, EvsrvListen, EvsrvAccept, IInv, Shape
  <2>2. state' \in States BY DEF EvsrvBind, EvsrvListen, EvsrvAccept, States
  <2>3. accept_rw' \in BOOLEAN BY DEF EvsrvBind, EvsrvListen, EvsrvAccept, IInv, Shape
  <2> QED BY <1>1, <2>1, <2>2, <2>3 DEF IInv, Shape
<1>6. Counted' BY <1>1, <1>3, <1>4 DEF IInv, Counted
<1>7. Table' BY <1>1, <1>3, <1>4 DEF IInv, Table, OpenFds
<1>8. Phase' BY <1>3, <1>4 DEF EvsrvBind, EvsrvListen, EvsrvAccept, IInv, Phase
<1>9. NoTimers' /\ HeapOwned' /\ Watched' /\ Writers' /\ Room' /\ DeadTimers'
  BY <1>1, <1>3, <1>4 DEF IInv, NoTimers, HeapOwned, Watched, Writers, Room, DeadTimers
<1> QED BY <1>3, <1>4, <1>5, <1>6, <1>7, <1>8, <1>9 DEF IInv

LEMMA ExpireKeeps ==
  ASSUME IInv, TimersExpire
  PROVE  /\ IInv' /\ Live' = Live
         /\ \A c \in Conns : conn'[c].state = conn[c].state
<1>1. PICK T \in SUBSET { c \in Conns : conn[c].trw = "active" } \ {{}} :
        conn' = [ c \in Conns |-> IF c \in T THEN [ conn[c] EXCEPT !.trw = "pending" ]
                                  ELSE conn[c] ]
  BY DEF TimersExpire
<1>2. UNCHANGED << state, active_connections, connections, accept_rw, stops, fault >>
  BY DEF TimersExpire
<1>3. \A c \in Conns : LET k == [ conn[c] EXCEPT !.trw = "pending" ] IN
        /\ k \in Connection /\ k.sock = conn[c].sock /\ k.state = conn[c].state
        /\ k.rw = conn[c].rw /\ k.ww = conn[c].ww /\ k.ruse = conn[c].ruse
        /\ k.trw = "pending"
  BY DEF IInv, Shape, Connection, TimerStates
<1>4. \A c \in Conns : /\ conn'[c] \in Connection
                       /\ conn'[c].ruse = conn[c].ruse
                       /\ conn'[c].sock = conn[c].sock /\ conn'[c].state = conn[c].state
                       /\ conn'[c].rw = conn[c].rw /\ conn'[c].ww = conn[c].ww
                       /\ conn[c].trw = "off" => conn'[c].trw = "off"
                       /\ conn'[c].trw = conn[c].trw \/ conn'[c].trw = "pending"
  BY <1>1, <1>3 DEF IInv, Shape
<1>5. conn' \in [ Conns -> Connection ] BY <1>1, <1>4
<1>6. Live' = Live BY <1>4 DEF Live
<1>7. Shape' BY <1>2, <1>5 DEF IInv, Shape
<1>8. Counted' BY <1>2, <1>6 DEF IInv, Counted
<1>9. Table' BY <1>2, <1>4, <1>6 DEF IInv, Table, OpenFds, Live
<1>10. Phase' BY <1>2, <1>4, <1>6 DEF IInv, Phase, Live
<1>11. NoTimers' BY <1>4 DEF IInv, NoTimers
<1>12. Watched' BY <1>4, <1>6 DEF IInv, Watched
<1>13. Room' /\ Writers' /\ DeadTimers' BY <1>4, <1>6 DEF IInv, Room, Writers, DeadTimers
<1>14. HeapOwned' BY <1>4, <1>6 DEF IInv, HeapOwned, EvIsActive
<1> QED BY <1>4, <1>6, <1>7, <1>8, <1>9, <1>10, <1>11, <1>12, <1>13,
          <1>14 DEF IInv

LEMMA StutterKeeps ==
  ASSUME IInv, UNCHANGED vars
  PROVE  IInv'
BY DEF vars, IInv, Shape, Counted, Table, Phase, NoTimers, HeapOwned, Watched, Writers,
       Room, DeadTimers, Live, OpenFds

\* What one step of the specification is.
LEMMA StepForms ==
  ASSUME Next
  PROVE  \/ EvsrvBind \/ EvsrvListen \/ EvsrvAccept
         \/ EvsrvStop
         \/ GracefulStopIdle
         \/ \E F \in SUBSET OpenFds : GracefulStopBusy(F)
         \/ TimersExpire
         \/ \E c \in Conns, f \in Fds : AcceptCb(c, f)
         \/ \E c \in Conns : ReadData(c) \/ ReadDataAndClose(c) \/ ReadEof(c)
               \/ ReadEofAndClose(c) \/ ReadAgain(c) \/ ReadError(c)
         \/ \E c \in Conns : WriteCb(c) \/ ReadTimeoutCb(c)
         \/ \E c \in Conns : ConnCalls(c)
BY DEF Next, ServerCalls, LoopCallbacks

LEMMA ConnSteps ==
  ASSUME IInv, NEW c \in Conns,
         \/ ReadData(c) \/ ReadDataAndClose(c) \/ ReadEof(c)
            \/ ReadEofAndClose(c) \/ ReadAgain(c) \/ ReadError(c)
         \/ WriteCb(c) \/ ReadTimeoutCb(c)
         \/ ConnCalls(c)
  PROVE  ConnStep(c)
BY ReadSteps, WriteAndTimeoutSteps, CallSteps

LEMMA NextKeeps ==
  ASSUME IInv, [Next]_vars
  PROVE  IInv'
<1>1. CASE UNCHANGED vars BY <1>1, StutterKeeps
<1>2. CASE Next
  <2>1. CASE EvsrvBind \/ EvsrvListen \/ EvsrvAccept BY <2>1, StartKeeps
  <2>2. CASE EvsrvStop BY <2>2, StopKeeps
  <2>3. CASE GracefulStopIdle BY <2>3, GracefulIdleKeeps
  <2>4. CASE \E F \in SUBSET OpenFds : GracefulStopBusy(F) BY <2>4, GracefulBusyKeeps
  <2>5. CASE TimersExpire BY <2>5, ExpireKeeps
  <2>6. CASE \E c \in Conns, f \in Fds : AcceptCb(c, f) BY <2>6, AcceptKeeps
  <2>7. CASE \E c \in Conns : ConnStep(c) BY <2>7, StepConnKeeps
  <2> QED BY <1>2, <2>1, <2>2, <2>3, <2>4, <2>5, <2>6, <2>7, StepForms, ConnSteps
<1> QED BY <1>1, <1>2

\* The inductive invariant holds in every reachable state.
THEOREM Invariance == Spec => []IInv
<1> QED BY InitIInv, NextKeeps, PTL DEF Spec
-----------------------------------------------------------------------------
(* The theorems.                                                           *)

\* Every variable keeps its type; in particular active_connections, which
\* evsrv_conn_close decrements without a check, never leaves the range from
\* zero to the number of connections, whatever peers and application do.
THEOREM TypeCorrect == Spec => []TypeOK
<1>1. IInv => TypeOK BY CountedTyped DEF IInv
<1> QED BY <1>1, Invariance, PTL

\* Counter, table and connections agree, on every server none of whose
\* connections has descriptor 0 (evsrv_conn.c:125).
THEOREM BookkeepingCorrect ==
  ASSUME 0 \notin Fds
  PROVE  Spec => []Bookkeeping
<1>1. IInv => Bookkeeping
  <2> SUFFICES ASSUME IInv PROVE Bookkeeping OBVIOUS
  <2>1. \A f \in OpenFds : f > 0 BY EvsrvAssumption DEF OpenFds
  <2>2. \A f \in OpenFds : connections[f] \in Live /\ conn[connections[f]].sock = f
    <3> SUFFICES ASSUME NEW f \in OpenFds
                 PROVE  connections[f] \in Live /\ conn[connections[f]].sock = f
      OBVIOUS
    <3>1. connections[f] \in Live BY <2>1 DEF IInv, Table
    <3> DEFINE g == conn[connections[f]].sock
    <3>2. g \in Fds /\ connections[g] = connections[f] BY <3>1 DEF IInv, Table
    <3>3. g \in OpenFds BY <3>2 DEF OpenFds
    <3> QED BY <3>1, <3>2, <3>3 DEF IInv, Table
  <2> QED BY <2>2 DEF IInv, Counted, Table, Bookkeeping
<1> QED BY <1>1, Invariance, PTL

\* Connections come into being only while the server accepts.
THEOREM AdmissionCorrect == Spec => AdmissionClosed
<1> DEFINE A == \A c \in Conns : (c \in Live)' => c \in Live \/ state = "ACCEPTING"
<1>1. IInv /\ [Next]_vars => [A]_vars
  <2> SUFFICES ASSUME IInv, Next PROVE A BY DEF A
  <2>1. CASE EvsrvBind \/ EvsrvListen \/ EvsrvAccept BY <2>1, StartKeeps
  <2>2. CASE EvsrvStop BY <2>2, StopKeeps DEF UseDestroyed, Live
  <2>3. CASE GracefulStopIdle BY <2>3, GracefulIdleKeeps
  <2>4. CASE \E F \in SUBSET OpenFds : GracefulStopBusy(F)
    BY <2>4, GracefulBusyKeeps DEF UseDestroyed, Live
  <2>5. CASE TimersExpire BY <2>5, ExpireKeeps
  <2>6. CASE \E c \in Conns, f \in Fds : AcceptCb(c, f)
    BY <2>6 DEF AcceptCb, IInv, Phase
  <2>7. CASE \E c \in Conns : ConnStep(c)
    <3> SUFFICES ASSUME NEW c \in Conns, ConnStep(c) PROVE A BY <2>7
    <3>1. CASE UseDestroyed BY <3>1 DEF UseDestroyed, Live
    <3>2. CASE ~UseDestroyed
      <4>1. Live' \subseteq Live BY <3>2, SetKeeps, CloseKeeps DEF ConnStep
      <4> QED BY <4>1
    <3> QED BY <3>1, <3>2
  <2> QED BY <2>1, <2>2, <2>3, <2>4, <2>5, <2>6, <2>7, StepForms, ConnSteps
<1>2. [][A]_vars => AdmissionClosed BY DEF A, AdmissionClosed
<1> QED BY <1>1, <1>2, Invariance, PTL DEF Spec

\* A watched connection always has room in its buffer.
THEOREM RoomCorrect == Spec => []RoomToRead
<1>1. IInv => RoomToRead BY DEF IInv, Room, RoomToRead, Live
<1> QED BY <1>1, Invariance, PTL

\* A queued timer callback finds its connection if there is no read timeout, or
\* the application makes no call before the timers that have expired have run:
\* none from a signal handler, for instance.
THEOREM TimersCorrect ==
  ASSUME ReadTimeout = 0 \/ "early_calls" \notin App
  PROVE  Spec => []TimersOwned
<1>1. IInv => TimersOwned
  BY OffTimer DEF IInv, NoTimers, DeadTimers, TimersOwned
<1> QED BY <1>1, Invariance, PTL

\* Whatever the application does, the timer of a destroyed connection is not in
\* the heap: only a callback queued before the connection was closed is left.
THEOREM HeapCorrect == Spec => []HeapOwned
<1>1. IInv => HeapOwned BY DEF IInv
<1> QED BY <1>1, Invariance, PTL

\* However often connections are stopped and started, libev keeps no watcher of
\* a destroyed one if nothing is written to a connection while it is stopped.
THEOREM WatchersCorrect ==
  ASSUME "write_paused" \notin App
  PROVE  Spec => []WatchersOwned
<1>1. IInv => WatchersOwned
  BY DEF IInv, Shape, Connection, IoStates, Watched, Writers, WatchersOwned
<1> QED BY <1>1, Invariance, PTL

\* Neither the library nor libev follows a dangling pointer if no descriptor is
\* 0, the hypotheses of the theorems on timers and watchers hold, and a
\* connection closed in on_read was not at end-of-file and stays readable.
THEOREM NoUseOfDestroyed ==
  ASSUME 0 \notin Fds,
         ReadTimeout = 0 \/ "early_calls" \notin App,
         "write_paused" \notin App,
         "close_at_eof" \notin App,
         "close_in_read" \in App => "defer_free" \in App
  PROVE  Spec => []NeverUsesDestroyed
<1>1. Init => NeverUsesDestroyed BY DEF Init, NeverUsesDestroyed
<1>2. IInv /\ NeverUsesDestroyed /\ [Next]_vars => NeverUsesDestroyed'
  <2> SUFFICES ASSUME IInv, ~fault, Next PROVE ~fault'
    BY DEF NeverUsesDestroyed, vars
  <2>1. ~StaleEntry
    <3> SUFFICES ASSUME NEW f \in OpenFds PROVE connections[f] \in Live BY DEF StaleEntry
    <3>1. f > 0 BY FdsFinite DEF OpenFds
    <3> QED BY <3>1 DEF IInv, Table
  <2>2. CASE EvsrvBind \/ EvsrvListen \/ EvsrvAccept
    BY <2>2 DEF EvsrvBind, EvsrvListen, EvsrvAccept
  <2>3. CASE EvsrvStop \/ GracefulStopIdle BY <2>1, <2>3 DEF EvsrvStop, GracefulStopIdle
  <2>4. CASE \E F \in SUBSET OpenFds : GracefulStopBusy(F)
    BY <2>1, <2>4 DEF GracefulStopBusy
  <2>5. CASE TimersExpire BY <2>5 DEF TimersExpire
  <2>6. CASE \E c \in Conns, f \in Fds : AcceptCb(c, f)
    <3> SUFFICES ASSUME NEW c \in Conns, NEW f \in Fds, AcceptCb(c, f), connections[f] # None
                 PROVE  FALSE
      BY <2>6 DEF AcceptCb
    <3>1. f \in OpenFds BY DEF OpenFds
    <3>2. connections[f] \in Live BY <2>1, <3>1 DEF StaleEntry
    <3>3. conn[connections[f]].sock \in OpenFds
          /\ connections[conn[connections[f]].sock] = connections[f]
      BY <3>1, <3>2 DEF IInv, Table, OpenFds
    <3>4. conn[connections[f]].sock = f BY <3>1, <3>3 DEF IInv, Table
    <3> QED BY <3>2, <3>4 DEF AcceptCb
  <2>7. CASE \E c \in Conns : ReadData(c) \/ ReadDataAndClose(c) \/ ReadEof(c)
               \/ ReadEofAndClose(c) \/ ReadAgain(c) \/ ReadError(c)
    BY <2>7 DEF ReadData, ReadDataAndClose, ReadEof, ReadEofAndClose, ReadAgain, ReadError
  <2>8. CASE \E c \in Conns : WriteCb(c) \/ ReadTimeoutCb(c)
    <3>1. \A c \in Conns : IsQueued(conn[c].trw) => c \in Live
      BY OffTimer DEF IInv, NoTimers, DeadTimers
    <3>2. \A c \in Conns : conn[c].ww # "off" => c \in Live
      BY DEF IInv, Shape, Connection, IoStates, Watched, Writers
    <3> QED BY <2>8, <3>1, <3>2 DEF WriteCb, ReadTimeoutCb
  <2>9. CASE \E c \in Conns : ConnCalls(c)
    BY <2>9 DEF IInv, Writers, EntersTwice, ConnCalls, ConnClose, ConnWrite, ConnShutdownCall, ConnStopCall, ConnStartCall,
                ConnReadTimerAgain, ConnReadTimerStop
  <2> QED BY <2>2, <2>3, <2>4, <2>5, <2>6, <2>7, <2>8, <2>9, StepForms
<1> QED BY <1>1, <1>2, Invariance, PTL DEF Spec
-----------------------------------------------------------------------------
(* The graceful stop.                                                      *)

LEMMA MaxOfFds ==
  ASSUME NEW S \in SUBSET Fds, S # {}
  PROVE  Max(S) \in S
<1> DEFINE D == { TableLen - x : x \in S }
           Less == OpToRel(<, Nat)
<1>1. S \subseteq Nat /\ \A x \in S : TableLen - x \in Nat BY EvsrvAssumption
<1>2. D \in SUBSET Nat BY <1>1
<1>3. D # {}
  <2>1. PICK x \in S : TRUE OBVIOUS
  <2>2. TableLen - x \in D BY <2>1
  <2> QED BY <2>2
<1>4. \A m, n \in Nat : << m, n >> \in Less <=> m < n BY DEF OpToRel
<1>5. IsWellFoundedOn(Less, Nat) BY NatLessThanWellFounded
<1> HIDE DEF Less
<1>6. PICK d \in D : \A e \in D : ~(<< e, d >> \in Less) BY <1>2, <1>3, <1>5, WFMin
<1>7. \A e \in D : ~(e < d) BY <1>2, <1>4, <1>6
<1>8. PICK x \in S : d = TableLen - x BY <1>6
<1>9. \A y \in S : x >= y
  <2> SUFFICES ASSUME NEW y \in S PROVE x >= y OBVIOUS
  <2>1. TableLen - y \in D OBVIOUS
  <2>2. ~(TableLen - y < TableLen - x) BY <1>7, <1>8, <2>1
  <2>3. x \in Nat /\ y \in Nat BY <1>1
  <2> HIDE DEF D
  <2> QED BY <2>2, <2>3, EvsrvAssumption
<1> QED BY <1>9 DEF Max

\* A connection is pending only during a graceful stop.
LEMMA LastNotPending ==
  ASSUME IInv, OpenFds # {}, ~StaleEntry, state # "GRACEFULLY_STOPPING"
  PROVE  LastConn.state # "PENDING_CLOSE"
<1>1. Max(OpenFds) \in OpenFds BY MaxOfFds DEF OpenFds
<1>2. connections[Max(OpenFds)] \in Live BY <1>1 DEF StaleEntry
<1> QED BY <1>2 DEF LastConn, IInv, Phase

\* The end of a graceful stop is reported only in the step that leaves the
\* server stopped and without connections, whatever the application does.
THEOREM ReportCorrect == Spec => ReportedWhenEmpty
<1> DEFINE A == stops' > stops => state' = "STOPPED" /\ active_connections' = 0 /\ Live' = {}
<1>1. IInv /\ IInv' => A
  <2> SUFFICES ASSUME IInv, IInv', stops' > stops
               PROVE  state' = "STOPPED" /\ active_connections' = 0 /\ Live' = {}
    BY DEF A
  <2>1. stops' > 0 BY DEF IInv, Shape
  <2>2. state' = "STOPPED" /\ Live' = {} BY <2>1 DEF IInv, Phase
  <2>3. active_connections' = 0 BY <2>2, FS_EmptySet DEF IInv, Counted
  <2> QED BY <2>2, <2>3
<1>2. Spec => [][A]_vars BY <1>1, Invariance, PTL
<1>3. [][A]_vars => ReportedWhenEmpty BY DEF A, ReportedWhenEmpty
<1> QED BY <1>2, <1>3

\* An application that does not repeat evsrv_graceful_stop is called back at
\* most once, with no connection left.
THEOREM ReportOnce ==
  ASSUME "again" \notin App
  PROVE  Spec => []StopReportedOnce
<1> DEFINE J == stops <= 1
<1>1. Init => J BY DEF Init
<1>2. IInv /\ J /\ [Next]_vars => J'
  <2> SUFFICES ASSUME IInv, J, Next PROVE J' BY DEF vars
  <2>0. stops \in Nat /\ (state # "STOPPED" => stops = 0) BY DEF IInv, Shape, Phase
  <2>1. CASE EvsrvBind \/ EvsrvListen \/ EvsrvAccept
    BY <2>1, <2>0 DEF EvsrvBind, EvsrvListen, EvsrvAccept
  <2>2. CASE EvsrvStop BY <2>2, <2>0 DEF EvsrvStop, UseDestroyed
  <2>3. CASE GracefulStopIdle BY <2>3, <2>0 DEF GracefulStopIdle, CanGracefulStop
  <2>4. CASE \E F \in SUBSET OpenFds : GracefulStopBusy(F)
    <3> SUFFICES ASSUME NEW F \in SUBSET OpenFds, GracefulStopBusy(F) PROVE J' BY <2>4
    <3>1. state \notin {"GRACEFULLY_STOPPING", "STOPPED"}
      BY DEF GracefulStopBusy, CanGracefulStop
    <3>2. CASE UseDestroyed BY <3>2 DEF UseDestroyed
    <3>3. CASE ~UseDestroyed
      <4>1. ~StaleEntry BY <3>3 DEF GracefulStopBusy
      <4>2. OpenFds # {}
        <5>1. active_connections # 0 BY <3>3 DEF GracefulStopBusy
        <5>4. Live # {} BY <5>1, FS_EmptySet DEF IInv, Counted
        <5>2. PICK c \in Live : TRUE BY <5>4
        <5>3. conn[c].sock \in Fds /\ connections[conn[c].sock] = c BY DEF IInv, Table
        <5> QED BY <5>3, EvsrvAssumption DEF OpenFds, Live
      <4>3. LastConn.state # "PENDING_CLOSE" BY <3>1, <4>1, <4>2, LastNotPending
      <4>4. \/ stops' = IF LastConn.state = "PENDING_CLOSE" THEN stops + 2 ELSE stops + 1
            \/ stops' = stops
        BY <3>3, GracefulBusyKeeps
      <4>5. stops' = stops + 1 \/ stops' = stops BY <4>3, <4>4
      <4> QED BY <2>0, <3>1, <4>5
    <3> QED BY <3>2, <3>3
  <2>5. CASE TimersExpire BY <2>5 DEF TimersExpire
  <2>6. CASE \E c \in Conns, f \in Fds : AcceptCb(c, f)
    BY <2>6, <2>0 DEF AcceptCb, UseDestroyed
  <2>7. CASE \E c \in Conns : ConnStep(c)
    <3> SUFFICES ASSUME NEW c \in Conns, ConnStep(c) PROVE J' BY <2>7
    <3>1. CASE UseDestroyed BY <3>1 DEF UseDestroyed
    <3>2. CASE ~UseDestroyed
      <4>1. c \in Live BY <3>2 DEF ConnStep
      <4>2. stops = 0 BY <2>0, <4>1 DEF IInv, Phase
      <4>3. PICK k : SetConn(c, k) \/ CloseConn(c, k) BY <3>2 DEF ConnStep
      <4>4. stops' = stops \/ stops' = stops + 1 BY <4>3 DEF SetConn, CloseConn
      <4> QED BY <4>2, <4>4
    <3> QED BY <3>1, <3>2
  <2> QED BY <2>1, <2>2, <2>3, <2>4, <2>5, <2>6, <2>7, StepForms, ConnSteps
<1>3. IInv /\ J => StopReportedOnce BY DEF IInv, Phase, StopReportedOnce
<1> QED BY <1>1, <1>2, <1>3, Invariance, PTL DEF Spec
-----------------------------------------------------------------------------
(* A cooperative server.                                                   *)

Drained == DrainNotLost /\ DrainReachesAll

\* A step that stores or closes one connection, seen from outside.
LEMMA ConnStepSeen ==
  ASSUME Cooperative, IInv, Drained, NEW c \in Conns, ConnStep(c)
  PROVE  /\ Drained'
         /\ \/ Live' = Live /\ state' = state /\ stops' = stops
            \/ /\ c \in Live /\ Live' = Live \ {c}
               /\ \/ /\ state = "GRACEFULLY_STOPPING" => Live # {c}
                     /\ state' = state /\ stops' = stops
                  \/ /\ state = "GRACEFULLY_STOPPING" /\ Live = {c}
                     /\ state' = "STOPPED" /\ stops' = stops + 1
<1>1. CASE UseDestroyed
  BY <1>1 DEF UseDestroyed, Live, Drained, DrainNotLost, DrainReachesAll
<1>2. CASE ~UseDestroyed
  <2>1. PICK k :
          /\ Becomes(c, k)
          /\ \/ SetConn(c, k) /\ k.ruse < BufLen
             \/ CloseConn(c, k) /\ ("early_calls" \notin App => ~IsQueued(k.trw))
    BY <1>2 DEF ConnStep
  <2>2. c \in Live /\ fault' \in BOOLEAN BY <1>2 DEF ConnStep
  <2>3. state = "GRACEFULLY_STOPPING" => k.state = "PENDING_CLOSE"
    BY <2>1, <2>2 DEF Drained, DrainReachesAll, Becomes
  <2>4. conn \in [ Conns -> Connection ] BY DEF IInv, Shape
  <2>5. CASE SetConn(c, k) /\ k.ruse < BufLen
    <3>1. IInv' /\ Live' = Live BY <2>1, <2>2, <2>5, SetKeeps DEF SetConn
    <3>2. state' = state /\ stops' = stops BY <2>5 DEF SetConn
    <3>3. \A d \in Live : conn'[d] = IF d = c THEN k ELSE conn[d]
      BY <2>4, <2>5 DEF SetConn, Live
    <3>4. Drained'
      BY <2>3, <3>1, <3>2, <3>3 DEF Drained, DrainNotLost, DrainReachesAll
    <3> QED BY <3>1, <3>2, <3>4
  <2>6. CASE CloseConn(c, k) /\ ("early_calls" \notin App => ~IsQueued(k.trw))
    <3>1. IInv' /\ Live' = Live \ {c} BY <2>1, <2>2, <2>6, CloseKeeps
    <3>2. \A d \in Live' : conn'[d] = conn[d] /\ d \in Live
      BY <2>4, <2>6, <3>1 DEF CloseConn, Live
    <3>3. Remaining(1) = Cardinality(Live')
      BY <2>6, <3>1 DEF CloseConn, IInv, Counted
    <3>4. Remaining(1) = 0 <=> Live = {c}
      BY <2>2, <3>1, <3>3, LiveFinite, FS_RemoveElement, FS_EmptySet
    <3>5. CASE state = "GRACEFULLY_STOPPING" /\ Live = {c}
      <4>1. EndsGracefulStop(k.state, Remaining(1)) BY <2>3, <3>4, <3>5 DEF EndsGracefulStop
      <4>2. state' = "STOPPED" /\ stops' = stops + 1 BY <2>6, <4>1 DEF CloseConn
      <4> QED BY <2>2, <3>1, <3>5, <4>2 DEF Drained, DrainNotLost, DrainReachesAll
    <3>6. CASE ~(state = "GRACEFULLY_STOPPING" /\ Live = {c})
      <4>1. ~EndsGracefulStop(k.state, Remaining(1)) BY <3>4, <3>6 DEF EndsGracefulStop
      <4>2. state' = state /\ stops' = stops BY <2>6, <4>1 DEF CloseConn
      <4>3. Drained'
        BY <2>2, <3>1, <3>2, <3>6, <4>2 DEF Drained, DrainNotLost, DrainReachesAll
      <4> QED BY <2>2, <3>1, <3>6, <4>2, <4>3
    <3> QED BY <3>5, <3>6
  <2> QED BY <2>1, <2>5, <2>6
<1> QED BY <1>1, <1>2

LEMMA FaultSeen ==
  ASSUME UseDestroyed
  PROVE  Live' = Live /\ state' = state /\ stops' = stops /\ (Drained => Drained')
BY DEF UseDestroyed, Live, Drained, DrainNotLost, DrainReachesAll

\* The drain of a cooperative server is not lost, and reaches every connection.
LEMMA DrainedKeeps ==
  ASSUME Cooperative, IInv, Drained, [Next]_vars
  PROVE  Drained'
<1>1. CASE UNCHANGED vars
  BY <1>1 DEF vars, Live, Drained, DrainNotLost, DrainReachesAll
<1>2. CASE Next
  <2>1. CASE EvsrvBind \/ EvsrvListen \/ EvsrvAccept
    BY <2>1 DEF EvsrvBind, EvsrvListen, EvsrvAccept, Drained, DrainNotLost, DrainReachesAll
  <2>2. CASE EvsrvStop
    BY <2>2, FaultSeen DEF EvsrvStop, Drained, DrainNotLost, DrainReachesAll
  <2>3. CASE GracefulStopIdle
    BY <2>3 DEF GracefulStopIdle, Drained, DrainNotLost, DrainReachesAll
  <2>4. CASE \E F \in SUBSET OpenFds : GracefulStopBusy(F)
    <3> SUFFICES ASSUME NEW F \in SUBSET OpenFds, GracefulStopBusy(F) PROVE Drained' BY <2>4
    <3>1. CASE UseDestroyed BY <3>1, FaultSeen
    <3>2. CASE ~UseDestroyed
      <4>1. state' = "GRACEFULLY_STOPPING" =>
              Live' # {} /\ \A c \in Live' : conn'[c].state = "PENDING_CLOSE"
        BY <3>2, GracefulBusyKeeps
      <4> QED BY <4>1 DEF Drained, DrainNotLost, DrainReachesAll
    <3> QED BY <3>1, <3>2
  <2>5. CASE TimersExpire
    BY <2>5, ExpireKeeps DEF TimersExpire, Live, Drained, DrainNotLost, DrainReachesAll
  <2>6. CASE \E c \in Conns, f \in Fds : AcceptCb(c, f)
    <3> SUFFICES ASSUME NEW c \in Conns, NEW f \in Fds, AcceptCb(c, f) PROVE Drained' BY <2>6
    <3>1. state' = state /\ state = "ACCEPTING" BY DEF AcceptCb, UseDestroyed, IInv, Phase
    <3> QED BY <3>1 DEF Drained, DrainNotLost, DrainReachesAll
  <2>7. CASE \E c \in Conns : ConnStep(c) BY <2>7, ConnStepSeen
  <2> QED BY <1>2, <2>1, <2>2, <2>3, <2>4, <2>5, <2>6, <2>7, StepForms, ConnSteps
<1> QED BY <1>1, <1>2

LEMMA DrainedAlways ==
  ASSUME Cooperative
  PROVE  Spec => []Drained
<1>1. Init => Drained BY DEF Init, Drained, DrainNotLost, DrainReachesAll
<1> QED BY <1>1, DrainedKeeps, Invariance, PTL DEF Spec

\* While a graceful stop of a cooperative server is under way a connection is
\* left whose closing calls the callback.
THEOREM DrainKept ==
  ASSUME Cooperative
  PROVE  Spec => []DrainNotLost
<1>1. Drained => DrainNotLost BY DEF Drained
<1> QED BY <1>1, DrainedAlways, PTL

\* And every connection that is left has been marked for it.
THEOREM DrainMarksAll ==
  ASSUME Cooperative
  PROVE  Spec => []DrainReachesAll
<1>1. Drained => DrainReachesAll BY DEF Drained
<1> QED BY <1>1, DrainedAlways, PTL
-----------------------------------------------------------------------------
(* The refinement.                                                         *)

LEMMA LifeInit == Init => Life!Init
BY DEF Init, Life!Init, LifePhase, Live, NoConn

LEMMA LifePhases ==
  ASSUME state \in States
  PROVE  /\ LifePhase = "serving" <=> state = "ACCEPTING"
         /\ LifePhase = "draining" <=> state = "GRACEFULLY_STOPPING"
         /\ LifePhase = "closed" <=> state \notin {"ACCEPTING", "GRACEFULLY_STOPPING"}
BY DEF LifePhase, States

\* Every step of a cooperative server is one of ServerLife, or changes nothing
\* its owner sees.
LEMMA LifeNext ==
  ASSUME Cooperative, IInv, IInv', Drained, [Next]_vars
  PROVE  [Life!Next]_(Life!vars)
<1>0. state \in States /\ state' \in States /\ stops \in Nat BY DEF IInv, Shape
<1>1. /\ LifePhase = "serving" <=> state = "ACCEPTING"
      /\ LifePhase = "draining" <=> state = "GRACEFULLY_STOPPING"
      /\ LifePhase = "closed" <=> state \notin {"ACCEPTING", "GRACEFULLY_STOPPING"}
  BY <1>0, LifePhases
<1>2. /\ LifePhase' = "serving" <=> state' = "ACCEPTING"
      /\ LifePhase' = "draining" <=> state' = "GRACEFULLY_STOPPING"
      /\ LifePhase' = "closed" <=> state' \notin {"ACCEPTING", "GRACEFULLY_STOPPING"}
  BY <1>0 DEF LifePhase, States
<1>3. state' = state => LifePhase' = LifePhase BY DEF LifePhase
<1>4. (LifePhase' = LifePhase /\ Live' = Live /\ stops' = stops) => UNCHANGED Life!vars
  BY DEF Life!vars
<1>5. CASE UNCHANGED vars BY <1>3, <1>4, <1>5 DEF vars, Live
<1>6. CASE Next
  <2>1. CASE EvsrvBind
    <3>1. Live' = Live /\ LifePhase = "closed" /\ LifePhase' = "closed" /\ stops' = 0
      BY <2>1, <1>1, <1>2, StartKeeps DEF EvsrvBind
    <3> QED BY <3>1 DEF Life!Next, Life!Reset
  <2>2. CASE EvsrvListen
    <3>1. Live' = Live /\ LifePhase = "closed" /\ LifePhase' = "closed" /\ stops' = stops
      BY <2>2, <1>1, <1>2, StartKeeps DEF EvsrvListen
    <3> QED BY <3>1, <1>4
  <2>3. CASE EvsrvAccept
    <3>1. Live' = Live /\ LifePhase = "closed" /\ LifePhase' = "serving"
      BY <2>3, <1>1, <1>2, StartKeeps DEF EvsrvAccept
    <3>2. stops = 0 /\ stops' = stops BY <2>3, <1>0 DEF EvsrvAccept, IInv, Phase
    <3> QED BY <3>1, <3>2 DEF Life!Next, Life!Serve
  <2>4. CASE EvsrvStop
    <3>1. CASE UseDestroyed BY <3>1, <1>3, <1>4, FaultSeen
    <3>2. CASE ~UseDestroyed
      <4>1. ~StaleEntry /\ Live' = {} /\ state' = "STOPPED"
        BY <2>4, <3>2, StopKeeps DEF EvsrvStop
      <4>2. stops' = IF LifePhase = "draining" THEN stops + 1 ELSE stops
        <5> DEFINE left == Remaining(Cardinality(OpenFds))
        <5>1. stops' = IF OpenFds # {} /\ EndsGracefulStop(LastConn.state, left)
                       THEN stops + 1 ELSE stops
          BY <2>4, <3>2 DEF EvsrvStop
        <5>2. CASE state # "GRACEFULLY_STOPPING"
          BY <1>1, <5>1, <5>2 DEF EndsGracefulStop
        <5>3. CASE state = "GRACEFULLY_STOPPING"
          <6>1. PICK c \in Live : TRUE BY <5>3 DEF Drained, DrainNotLost
          <6>2. OpenFds # {}
            <7>1. conn[c].sock \in Fds /\ connections[conn[c].sock] = c BY DEF IInv, Table
            <7> QED BY <7>1, EvsrvAssumption DEF OpenFds, Live
          <6>3. Max(OpenFds) \in OpenFds BY <6>2, MaxOfFds DEF OpenFds
          <6>4. LastConn.state = "PENDING_CLOSE"
            BY <4>1, <5>3, <6>3 DEF LastConn, StaleEntry, Drained, DrainReachesAll
          <6>5. Cardinality(Live \ { connections[f] : f \in OpenFds }) = left
            BY <4>1, RemoveEntries DEF Remaining
          <6>6. Live \subseteq { connections[f] : f \in OpenFds }
            <7> SUFFICES ASSUME NEW d \in Live PROVE \E f \in OpenFds : d = connections[f] OBVIOUS
            <7>1. conn[d].sock \in Fds /\ connections[conn[d].sock] = d BY DEF IInv, Table
            <7> QED BY <7>1, EvsrvAssumption DEF OpenFds, Live
          <6>7. left = 0
            <7>1. Live \ { connections[f] : f \in OpenFds } = {} BY <6>6
            <7> QED BY <6>5, <7>1, FS_EmptySet
          <6> QED BY <1>1, <5>1, <5>3, <6>2, <6>4, <6>7 DEF EndsGracefulStop
        <5> QED BY <5>2, <5>3
      <4> QED BY <1>2, <4>1, <4>2 DEF Life!Next, Life!Stop
    <3> QED BY <3>1, <3>2
  <2>5. CASE GracefulStopIdle
    <3>1. Live = {} /\ Live' = {} BY <2>5, GracefulIdleKeeps
    <3>2. state \in {"BOUND", "LISTENING", "ACCEPTING"} /\ state' = "STOPPED" /\ stops' = stops + 1
      BY <2>5 DEF GracefulStopIdle, CanGracefulStop, Cooperative
    <3>3. stops = 0 BY <1>0, <3>2 DEF IInv, Phase
    <3> QED BY <1>1, <1>2, <3>1, <3>2, <3>3 DEF Life!Next, Life!Drain
  <2>6. CASE \E F \in SUBSET OpenFds : GracefulStopBusy(F)
    <3> SUFFICES ASSUME NEW F \in SUBSET OpenFds, GracefulStopBusy(F)
                 PROVE  [Life!Next]_(Life!vars)
      BY <2>6
    <3>1. CASE UseDestroyed BY <3>1, <1>3, <1>4, FaultSeen
    <3>2. CASE ~UseDestroyed
      <4>1. state \in {"BOUND", "LISTENING", "ACCEPTING"} /\ active_connections # 0 /\ ~StaleEntry
        BY <3>2 DEF GracefulStopBusy, CanGracefulStop, Cooperative
      <4>2. stops = 0 BY <1>0, <4>1 DEF IInv, Phase
      <4>3. OpenFds # {}
        <5>1. Live # {} BY <4>1, FS_EmptySet DEF IInv, Counted
        <5>2. PICK c \in Live : TRUE BY <5>1
        <5>3. conn[c].sock \in Fds /\ connections[conn[c].sock] = c BY DEF IInv, Table
        <5> QED BY <5>3, EvsrvAssumption DEF OpenFds, Live
      <4>4. LastConn.state # "PENDING_CLOSE" BY <4>1, <4>3, LastNotPending
      <4>5. /\ Live' \subseteq Live
            /\ \/ Live' = {} /\ state' = "STOPPED"
                  /\ stops' = IF LastConn.state = "PENDING_CLOSE" THEN stops + 2 ELSE stops + 1
               \/ Live' # {} /\ state' = "GRACEFULLY_STOPPING" /\ stops' = stops
        BY <3>2, GracefulBusyKeeps
      <4>6. /\ Live' \subseteq Live
            /\ \/ Live' = {} /\ LifePhase' = "closed" /\ stops' = stops + 1
               \/ Live' # {} /\ LifePhase' = "draining" /\ stops' = stops
        BY <1>2, <4>4, <4>5
      <4>7. LifePhase # "draining" BY <1>1, <4>1
      <4> QED BY <4>2, <4>6, <4>7 DEF Life!Next, Life!Drain
    <3> QED BY <3>1, <3>2
  <2>7. CASE TimersExpire BY <2>7, <1>3, <1>4, ExpireKeeps DEF TimersExpire
  <2>8. CASE \E c \in Conns, f \in Fds : AcceptCb(c, f)
    <3> SUFFICES ASSUME NEW c \in Conns, NEW f \in Fds, AcceptCb(c, f)
                 PROVE  [Life!Next]_(Life!vars)
      BY <2>8
    <3>1. state = "ACCEPTING" /\ c \notin Live BY DEF AcceptCb, IInv, Phase, Live
    <3>2. state' = state /\ stops' = stops BY DEF AcceptCb, UseDestroyed
    <3>3. Live' = Live \/ Live' = Live \cup {c} BY AcceptKeeps
    <3> QED BY <1>1, <1>3, <1>4, <3>1, <3>2, <3>3 DEF Life!Next, Life!Connect
  <2>9. CASE \E c \in Conns : ConnStep(c)
    <3> SUFFICES ASSUME NEW c \in Conns, ConnStep(c) PROVE [Life!Next]_(Life!vars) BY <2>9
    <3>1. CASE Live' = Live /\ state' = state /\ stops' = stops BY <3>1, <1>3, <1>4
    <3>2. CASE /\ c \in Live /\ Live' = Live \ {c}
               /\ state = "GRACEFULLY_STOPPING" => Live # {c}
               /\ state' = state /\ stops' = stops
      BY <3>2, <1>1, <1>3 DEF Life!Next, Life!Disconnect
    <3>3. CASE /\ c \in Live /\ Live' = Live \ {c}
               /\ state = "GRACEFULLY_STOPPING" /\ Live = {c}
               /\ state' = "STOPPED" /\ stops' = stops + 1
      <4>1. Live' = {} /\ LifePhase = "draining" /\ LifePhase' = "closed"
        BY <3>3, <1>1, <1>2
      <4> QED BY <3>3, <4>1 DEF Life!Next, Life!Finish
    <3> QED BY <3>1, <3>2, <3>3, ConnStepSeen
  <2> QED BY <1>6, <2>1, <2>2, <2>3, <2>4, <2>5, <2>6, <2>7, <2>8, <2>9, StepForms, ConnSteps
<1> QED BY <1>5, <1>6

\* A cooperative server implements ServerLife.
THEOREM Refinement ==
  ASSUME Cooperative
  PROVE  Spec => ImplementsLife
<1> QED BY LifeInit, LifeNext, Invariance, DrainedAlways, PTL DEF Spec, ImplementsLife, Life!Spec
=============================================================================
