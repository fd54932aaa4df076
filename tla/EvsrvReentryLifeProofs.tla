----------------------- MODULE EvsrvReentryLifeProofs -----------------------
(***************************************************************************)
(* EvsrvReentry keeps the promise of ServerLife, for any number of         *)
(* connections and however deeply a careful application calls the library  *)
(* from its callbacks.                                                     *)
(*                                                                         *)
(* Every step of a function that is cut where it calls the application is  *)
(* one of ServerLife or changes nothing its owner sees.  What is open is   *)
(* what is counted, but for the last connection of a drain that the loop   *)
(* of evsrv_graceful_stop closes: it stays until the loop has counted.     *)
(***************************************************************************)
EXTENDS EvsrvReentryProofs

\* The invariant in the terms of ServerLife
LifeFacts ==
  /\ Counted \subseteq Conns
  /\ state = "GRACEFULLY_STOPPING" /\ Counted = {} =>
       /\ stack # << >> /\ Top.at \in {"count", "on_graceful_close"}
       /\ Top.conn \in Conns /\ LifeOpen = {Top.conn}
  /\ ~(state = "GRACEFULLY_STOPPING" /\ Counted = {}) => LifeOpen = Counted
  /\ LifePhase = "serving" <=> state = "ACCEPTING"
  /\ LifePhase = "draining" <=> state = "GRACEFULLY_STOPPING"
  /\ LifePhase = "closed" <=> state \in {"IDLE", "STOPPED"}

\* A step as ServerLife allows it
Allowed == Life!Next \/ Restart \/ UNCHANGED << LifePhase, LifeOpen, told >>

\* The connections that a function is about to take off the counter
LEMMA UncountedIs == ASSUME Sound PROVE Uncounted = Leaving(stack)
<1>1. stack \in Seq(Frame)
  BY DEF Sound, Typed
<1>2. DOMAIN stack = 1 .. Len(stack)
  BY <1>1
<1>3. ASSUME NEW c, c \in Uncounted PROVE c \in Leaving(stack)
  <2>1. PICK i \in 1 .. Len(stack) : stack[i].at = "close" /\ c = stack[i].conn
    BY <1>2, <1>3 DEF Uncounted
  <2>2. stack[i] \in Frames(stack)
    BY DEF Frames
  <2> QED BY <2>1, <2>2 DEF Leaving, Work
<1>4. ASSUME NEW c, c \in Leaving(stack) PROVE c \in Uncounted
  <2>1. PICK x \in Frames(stack) : x.at = "close" /\ c = x.conn
    BY <1>4 DEF Leaving, Work
  <2>2. PICK i \in 1 .. Len(stack) : x = stack[i]
    BY DEF Frames
  <2> QED BY <1>2, <2>1, <2>2 DEF Uncounted
<1> QED BY <1>3, <1>4

\* A drain without a connection left is one whose loop has still to count the
\* connection it has just closed (src/evsrv.c:246-254).
LEMMA LastCounted ==
  ASSUME Sound, state = "GRACEFULLY_STOPPING", Counted = {}
  PROVE  stack # << >> /\ Top.at \in {"count", "on_graceful_close"} /\ Top.conn \in Conns
<1>1. InDrain(stack)
  BY DEF Sound, Reached
<1>2. stack # << >>
  BY <1>1, NoFrames DEF InDrain
<1>3. /\ Top \in Frame /\ Below \in Seq(Frame) /\ Frames(stack) = {Top} \cup Frames(Below)
      /\ Fits(Top) /\ MayRun(may, Top, Below)
  BY <1>2, Opened
<1>4. Leaving(stack) = {} /\ \A c \in Conns : conn[c].state = "NONE"
  BY DEF Counted, Live
<1>5. \A x \in Frames(stack) : x.at # "close"
  BY <1>4 DEF Leaving, Work
<1>6. Top.at \notin Closing
  <2>1. Top.at # "close"
    BY <1>3, <1>5
  <2>2. Top.at # "on_conn_destroy"
    BY <1>3, <1>4 DEF Fits, FitsDestroy
  <2>3. Top.at # "destroyed"
    <3> SUFFICES ASSUME Top.at = "destroyed" PROVE FALSE
      OBVIOUS
    <3>1. Below # << >> /\ Head(Below).at = "close"
      BY <1>3 DEF MayRun, On, Owned
    <3>2. Head(Below) \in Frames(stack)
      BY <1>3, <3>1, Pop
    <3> QED BY <1>5, <3>1, <3>2
  <2> QED BY <2>1, <2>2, <2>3 DEF Closing
<1>7. PICK y \in Frames(stack) : y.at \in Drains
  BY <1>1 DEF InDrain
<1>8. Top.at # "graceful_stop"
  BY <1>2 DEF Sound, Looping
<1>9. CASE y = Top
  BY <1>2, <1>3, <1>7, <1>8, <1>9 DEF Drains, Fits, FitsDrain
<1>10. CASE y \in Frames(Below)
  <2>1. Over(may, Top, y)
    BY <1>3, <1>10 DEF MayRun
  <2>2. Top.at = "on_graceful_close"
    BY <1>6, <1>7, <2>1 DEF Over, Drains
  <2> QED BY <1>2, <1>3, <2>2 DEF Fits, FitsDrain
<1> QED BY <1>3, <1>9, <1>10

\* What the invariant says, in the terms of ServerLife,
LEMMA LifeIs == Sound => LifeFacts
<1> SUFFICES ASSUME Sound PROVE LifeFacts
  OBVIOUS
<1>1. Live \cup Uncounted = Counted
  BY UncountedIs DEF Counted
<1>2. /\ LifePhase = "serving" <=> state = "ACCEPTING"
      /\ LifePhase = "draining" <=> state = "GRACEFULLY_STOPPING"
      /\ LifePhase = "closed" <=> state \in {"IDLE", "STOPPED"}
  BY DEF LifePhase, Sound, Typed
<1>3. state = "GRACEFULLY_STOPPING" /\ Counted = {} =>
        /\ stack # << >> /\ Top.at \in {"count", "on_graceful_close"}
        /\ Top.conn \in Conns /\ LifeOpen = {Top.conn}
  BY <1>1, LastCounted DEF LifeOpen
<1>4. ~(state = "GRACEFULLY_STOPPING" /\ Counted = {}) => LifeOpen = Counted
  BY <1>1 DEF LifeOpen
<1> QED BY <1>2, <1>3, <1>4, CountedIs DEF LifeFacts

\* also of the state after a step.
LEMMA LifeIsNext == Sound' => LifeFacts'
<1>1. (Sound => LifeFacts)'
  BY LifeIs, PTL
<1> QED BY <1>1

\* A step that leaves counter, phase and reports alone changes nothing that
\* ServerLife sees.
LEMMA Quiet ==
  ASSUME Sound, Sound', UNCHANGED << state, told >>, Counted' = Counted,
         state = "GRACEFULLY_STOPPING" /\ Counted = {} => Head(stack').conn = Top.conn
  PROVE  Allowed
<1>1. LifeFacts /\ LifeFacts'
  BY LifeIs, LifeIsNext
<1>2. LifePhase' = LifePhase
  BY DEF LifePhase
<1>3. CASE state = "GRACEFULLY_STOPPING" /\ Counted = {}
  <2>1. LifeOpen = {Top.conn} /\ LifeOpen' = {Top'.conn}
    BY <1>1, <1>3 DEF LifeFacts
  <2>2. Top' = Head(stack')
    BY DEF Top
  <2>3. LifeOpen' = LifeOpen
    BY <1>3, <2>1, <2>2
  <2> QED BY <1>2, <2>3 DEF Allowed
<1>4. CASE ~(state = "GRACEFULLY_STOPPING" /\ Counted = {})
  <2>1. LifeOpen = Counted /\ LifeOpen' = Counted'
    BY <1>1, <1>4 DEF LifeFacts
  <2> QED BY <1>2, <2>1 DEF Allowed
<1> QED BY <1>3, <1>4

\* Such a step of any function but the loop that counts, or its callback
LEMMA Elsewhere ==
  ASSUME Sound, Sound', UNCHANGED << state, told >>, Counted' = Counted,
         stack = << >> \/ Top.at \notin {"count", "on_graceful_close"}
  PROVE  Allowed
<1>1. ~(state = "GRACEFULLY_STOPPING" /\ Counted = {})
  BY LastCounted
<1> QED BY <1>1, Quiet

\* What is counted depends on the connections and on what leaves.
LEMMA CountedSame ==
  ASSUME conn' = conn, Leaving(stack') = Leaving(stack)
  PROVE  Counted' = Counted
BY DEF Counted, Live
-----------------------------------------------------------------------------
(* Steps: the calls that concern the server.                               *)

\* The library gets the stack of its caller, with one function on it.
LEMMA CallCounted ==
  ASSUME Sound, NEW call, Calling(call), NEW x \in Frame, x.at # "close",
         stack' = << x >> \o Caller, conn' = conn
  PROVE  Counted' = Counted
<1>1. Caller \in Seq(Frame) /\ Leaving(Caller) = Leaving(stack)
  BY CallerStack
<1>2. Leaving(stack') = Leaving(Caller)
  BY <1>1, PushWork
<1> QED BY <1>1, <1>2, CountedSame

\* evsrv_start makes a closed server serve.
LEMMA StartAllowed == ASSUME Sound, Sound', EvsrvStart PROVE Allowed
<1>1. /\ Calling("start") /\ state \in {"IDLE", "STOPPED"} /\ state' = "ACCEPTING" /\ told' = 0
      /\ stack' = << App("on_started", None) >> \o Caller /\ conn' = conn
  BY DEF EvsrvStart
<1>2. PICK x \in Frame : x = App("on_started", None) /\ x.at = "on_started"
  <2>1. "on_started" \in Callbacks
    BY DEF Callbacks
  <2> QED BY <2>1, AppFrame
<1>3. Counted' = Counted
  BY <1>1, <1>2, CallCounted
<1>4. LifeFacts /\ LifeFacts'
  BY LifeIs, LifeIsNext
<1>5. LifePhase = "closed" /\ LifePhase' = "serving" /\ LifeOpen = Counted /\ LifeOpen' = Counted'
  BY <1>1, <1>4 DEF LifeFacts
<1> QED BY <1>1, <1>3, <1>5 DEF Allowed, Restart

\* evsrv_stop up to its loop changes nothing yet.
LEMMA StopAllowed == ASSUME Sound, Sound', Careful, EvsrvStop PROVE Allowed
<1>1. PICK call \in {"abort", "stop"} : Calling(call)
  BY DEF EvsrvStop
<1>2. /\ stack' = << At("stop", None, 0) >> \o Caller /\ conn' = conn
      /\ UNCHANGED << state, told >>
  BY DEF EvsrvStop
<1>3. PICK x \in Frame : x = At("stop", None, 0) /\ x.at = "stop"
  BY AtFrame DEF Points
<1>4. Counted' = Counted
  BY <1>1, <1>2, <1>3, CallCounted
<1>5. stack = << >> \/ Top.at \notin {"count", "on_graceful_close"}
  BY <1>1, FreeCaller DEF FreeCbs
<1> QED BY <1>2, <1>4, <1>5, Elsewhere

\* evsrv_graceful_stop begins a drain, or ends it at once without connections.
LEMMA GracefulStopAllowed == ASSUME Sound, Sound', GracefulStop PROVE Allowed
<1>1. Calling("graceful_stop") /\ state = "ACCEPTING" /\ conn' = conn
  BY DEF GracefulStop
<1>2. told = 0
  BY <1>1 DEF Sound, Phases
<1>3. LifeFacts /\ LifeFacts'
  BY LifeIs, LifeIsNext
<1>4. LifePhase = "serving" /\ LifeOpen = Counted
  BY <1>1, <1>3 DEF LifeFacts
<1>5. CASE active_connections = 0
  <2>1. /\ state' = "STOPPED" /\ told' = told + 1
        /\ stack' = << App("on_graceful_stop", None) >> \o Caller
    BY <1>5 DEF GracefulStop
  <2>2. PICK x \in Frame : x = App("on_graceful_stop", None) /\ x.at = "on_graceful_stop"
    <3>1. "on_graceful_stop" \in Callbacks
      BY DEF Callbacks
    <3> QED BY <3>1, AppFrame
  <2>3. Counted' = Counted /\ Counted = {}
    BY <1>1, <1>5, <2>1, <2>2, CallCounted, CountedIs
  <2>4. LifePhase' = "closed" /\ LifeOpen' = {}
    BY <1>3, <2>1, <2>3 DEF LifeFacts
  <2>5. Life!Drain
    BY <1>2, <1>4, <2>1, <2>3, <2>4 DEF Life!Drain
  <2> QED BY <2>5 DEF Allowed, Life!Next
<1>6. CASE active_connections # 0
  <2>1. /\ state' = "GRACEFULLY_STOPPING" /\ told' = told
        /\ stack' = << At("graceful_stop", None, 0) >> \o Caller
    BY <1>6 DEF GracefulStop
  <2>2. PICK x \in Frame : x = At("graceful_stop", None, 0) /\ x.at = "graceful_stop"
    BY AtFrame DEF Points
  <2>3. Counted' = Counted /\ Counted # {}
    BY <1>1, <1>6, <2>1, <2>2, CallCounted, CountedIs
  <2>4. LifePhase' = "draining" /\ LifeOpen' = Counted
    BY <1>3, <2>1, <2>3 DEF LifeFacts
  <2>5. Life!Drain
    BY <1>2, <1>4, <2>1, <2>3, <2>4 DEF Life!Drain
  <2> QED BY <2>5 DEF Allowed, Life!Next
<1> QED BY <1>5, <1>6

\* evsrv_destroy leaves the stopping to evsrv_stop.
LEMMA DestroyAllowed == ASSUME Sound, Sound', Careful, EvsrvDestroy PROVE Allowed
<1>1. Calling("destroy") /\ conn' = conn /\ UNCHANGED << state, told >>
  BY DEF EvsrvDestroy
<1>2. Caller \in Seq(Frame) /\ Leaving(Caller) = Leaving(stack)
  BY <1>1, CallerStack
<1>3. Counted' = Counted
  <2>1. CASE stack' = Caller
    BY <1>1, <1>2, <2>1, CountedSame
  <2>2. CASE stack' = << At("stop", None, 0), At("destroy", None, 0) >> \o Caller
    <3>1. PICK x \in Frame : x = At("stop", None, 0) /\ x.at = "stop"
      BY AtFrame DEF Points
    <3>2. PICK y \in Frame : y = At("destroy", None, 0) /\ y.at = "destroy"
      BY AtFrame DEF Points
    <3>3. stack' = << x >> \o (<< y >> \o Caller)
      BY <1>2, <2>2, <3>1, <3>2, PushTwo
    <3>4. << y >> \o Caller \in Seq(Frame) /\ Leaving(<< y >> \o Caller) = Leaving(Caller)
      BY <1>2, <3>2, Push, PushWork
    <3>5. Leaving(stack') = Leaving(stack)
      BY <1>2, <3>1, <3>3, <3>4, PushWork
    <3> QED BY <1>1, <3>5, CountedSame
  <2> QED BY <2>1, <2>2 DEF EvsrvDestroy
<1>4. stack = << >> \/ Top.at \notin {"count", "on_graceful_close"}
  BY <1>1, FreeCaller DEF FreeCbs
<1> QED BY <1>1, <1>3, <1>4, Elsewhere
-----------------------------------------------------------------------------
(* Steps: a connection is closed.                                          *)

\* A connection that is being closed is counted until the close ends.
LEMMA BeginCounted ==
  ASSUME Sound, NEW c \in Live, NEW fs \in Seq(Frame), Leaving(fs) = Leaving(stack),
         BeginClose(c, fs)
  PROVE  Counted' = Counted /\ UNCHANGED << state, told >>
<1> DEFINE x == [ At("close", c, conn[c].sock) EXCEPT !.prev = conn[c].state ]
           d == App("on_conn_destroy", c)
           q == << x >> \o fs
<1>1. c \in Conns /\ conn[c].sock \in Int /\ conn[c].state \in ConnStates
  BY Sockets DEF Live, Sound, Typed
<1>2. x \in Frame /\ x.at = "close" /\ x.conn = c
  BY <1>1 DEF At, Frame, Points
<1>3. d \in Frame /\ d.at = "on_conn_destroy"
  BY <1>1, AppFrame DEF Callbacks
<1>4. /\ stack' = Asks("on_conn_destroy", c) \o << x >> \o fs
      /\ conn' = [ conn EXCEPT ![c] = IF \E s \in Settings : s \in may
                                      THEN [ @ EXCEPT !.state = "STOPPED" ] ELSE NoConn ]
      /\ UNCHANGED << state, told >>
  BY DEF BeginClose, srv
<1>5. Asks("on_conn_destroy", c) = << d >> \/ Asks("on_conn_destroy", c) = << >>
  BY DEF Asks
<1> HIDE DEF x, d
<1>6. q \in Seq(Frame) /\ Leaving(q) = {c} \cup Leaving(stack)
  BY <1>2, Push, PushWork
<1>7. stack' = q \/ stack' = << d >> \o q
  <2>1. stack' = (<< d >> \o << x >>) \o fs \/ stack' = (<< >> \o << x >>) \o fs
    BY <1>4, <1>5
  <2> QED BY <1>2, <1>3, <2>1, PushJoined
<1> HIDE DEF q
<1>8. Leaving(stack') = {c} \cup Leaving(stack)
  <2>1. Leaving(<< d >> \o q) = Leaving(q)
    BY ONLY <1>3, <1>6, PushWork
  <2> QED BY <1>6, <1>7, <2>1
<1>9. \A b \in Conns : b # c => (b \in Live' <=> b \in Live)
  BY <1>4 DEF Live, Sound, Typed
<1>10. Live \subseteq Conns /\ Live' \subseteq Conns
  BY DEF Live
<1>11. Counted' = Live' \cup Leaving(stack')
  BY DEF Counted
<1>12. Counted = Live \cup Leaving(stack)
  BY DEF Counted
<1> QED BY <1>4, <1>8, <1>9, <1>10, <1>11, <1>12

\* The application closes a connection.
LEMMA ConnCloseAllowed ==
  ASSUME Sound, Sound', NEW c \in Conns, ConnClose(c)
  PROVE  Allowed
<1>1. c \in Live /\ BeginClose(c, Caller)
  BY DEF ConnClose
<1>2. PICK call : Calling(call)
  BY DEF ConnClose
<1>3. Caller \in Seq(Frame) /\ Leaving(Caller) = Leaving(stack)
  BY <1>2, CallerStack
<1>4. Counted' = Counted /\ UNCHANGED << state, told >>
  BY <1>1, <1>3, BeginCounted
<1>5. Counted # {}
  BY <1>1 DEF Counted
<1> QED BY <1>4, <1>5, Quiet

\* The library closes a connection.
LEMMA FailsAllowed == ASSUME Sound, Sound', NEW c \in Conns, Fails(c) PROVE Allowed
<1>1. c \in Live /\ BeginClose(c, << >>) /\ stack = << >>
  BY DEF Fails, Idle, Live
<1>2. << >> \in Seq(Frame)
  BY NoFrames
<1>3. Leaving(<< >>) = Leaving(stack)
  BY <1>1
<1>4. Counted' = Counted /\ UNCHANGED << state, told >>
  BY <1>1, <1>2, <1>3, BeginCounted
<1> QED BY <1>1, <1>4, Elsewhere

\* evsrv_conn_destroy frees an object that the close below takes off later.
LEMMA ConnDestroyAllowed == ASSUME Sound, Sound', ConnDestroy PROVE Allowed
<1>1. stack # << >> /\ Top.at = "on_conn_destroy" /\ fault' = FALSE
  BY DEF ConnDestroy, Runs, Sound, Typed
<1>2. /\ Top.conn \in Live /\ conn' = [ conn EXCEPT ![Top.conn] = NoConn ]
      /\ stack' = << App("destroyed", Top.conn) >> \o Below
      /\ UNCHANGED << state, told >>
  BY <1>1 DEF ConnDestroy, Fault, srv
<1>3. PICK c \in Conns : c = Top.conn
  BY <1>2 DEF Live
<1>4. PICK x \in Frame : x = App("destroyed", c) /\ x.at = "destroyed"
  BY AppFrame DEF Callbacks
<1>5. /\ Below \in Seq(Frame) /\ MayRun(may, Top, Below) /\ Leaving(stack) = Leaving(Below)
  BY <1>1, Opened, OpenedWork
<1>6. Leaving(stack') = Leaving(Below)
  BY <1>2, <1>3, <1>4, <1>5, PushWork
<1>7. c \in Leaving(Below)
  <2>1. Below # << >> /\ Head(Below).at = "close" /\ Head(Below).conn = c
    BY <1>1, <1>3, <1>5 DEF MayRun, On, Owned
  <2>2. Head(Below) \in Frames(Below)
    BY <1>5, <2>1, Pop
  <2> QED BY <2>1, <2>2 DEF Leaving, Work
<1>8. \A b \in Conns : b # c => (b \in Live' <=> b \in Live)
  BY <1>2, <1>3 DEF Live, Sound, Typed
<1>9. Live \subseteq Conns /\ Live' \subseteq Conns
  BY DEF Live
<1>10. Counted' = Live' \cup Leaving(stack')
  BY DEF Counted
<1>11. Counted = Live \cup Leaving(stack)
  BY DEF Counted
<1>12. Counted' = Counted
  BY <1>5, <1>6, <1>7, <1>8, <1>9, <1>10, <1>11
<1> QED BY <1>1, <1>2, <1>12, Elsewhere

\* The end of a close: a connection is gone, the drain has ended, or the loop
\* that has closed the last connection is still to see it
\* (src/evsrv_conn.c:125-136, src/evsrv.c:254).
LEMMA EndCloseAllowed == ASSUME Sound, Sound', EndClose PROVE Allowed
<1>1. stack # << >> /\ Top.at = "close" /\ fault' = FALSE
  BY DEF EndClose, Runs, Sound, Typed
<1>2. /\ conn' = conn
      /\ \/ EndsDrain /\ Report
         \/ ~EndsDrain /\ stack' = Below /\ UNCHANGED << state, told >>
  BY <1>1 DEF EndClose, Fault
<1>3. /\ Below \in Seq(Frame) /\ MayRun(may, Top, Below) /\ Fits(Top)
      /\ Leaving(stack) = {Top.conn} \cup Leaving(Below)
  BY <1>1, Opened, OpenedWork
<1>4. Top.conn \in Conns /\ conn[Top.conn].state = "NONE"
  BY <1>1, <1>3, NoneHalfClosed DEF Fits, FitsClose
<1>5. PICK c \in Conns : c = Top.conn
  BY <1>4
<1>6. c \notin Leaving(Below)
  BY <1>1, <1>3, <1>5 DEF Leaving, Work, MayRun, Over
<1>7. c \in Counted /\ Counted \ {c} = Live \cup Leaving(Below)
  BY <1>3, <1>4, <1>5, <1>6 DEF Counted, Live
<1>8. ASSUME Leaving(stack') = Leaving(Below) PROVE Counted' = Counted \ {c}
  BY <1>2, <1>7, <1>8 DEF Counted, Live
<1>9. active_connections = 1 => Counted = {c}
  <2>1. Cardinality(Counted \ {c}) = active_connections - 1 /\ IsFiniteSet(Counted \ {c})
    BY <1>7, CountedIs, FS_RemoveElement
  <2> QED BY <1>7, <2>1, CountedIs, FS_EmptySet
<1>10. LifeFacts /\ LifeFacts'
  BY LifeIs, LifeIsNext
<1>11. LifeOpen = Counted
  BY <1>7, <1>10 DEF LifeFacts
<1>12. CASE EndsDrain /\ Report
  <2>1. /\ active_connections = 1 /\ state = "GRACEFULLY_STOPPING" /\ state' = "STOPPED"
        /\ told' = told + 1 /\ stack' = << App("on_graceful_stop", None) >> \o Below
    BY <1>12 DEF EndsDrain, Report
  <2>2. PICK x \in Frame : x = App("on_graceful_stop", None) /\ x.at = "on_graceful_stop"
    <3>1. "on_graceful_stop" \in Callbacks
      BY DEF Callbacks
    <3> QED BY <3>1, AppFrame
  <2>3. Leaving(stack') = Leaving(Below)
    BY <1>3, <2>1, <2>2, PushWork
  <2>4. Counted = {c} /\ Counted' = {}
    BY <1>8, <1>9, <2>1, <2>3
  <2>5. LifePhase = "draining" /\ LifePhase' = "closed" /\ LifeOpen' = {}
    BY <1>10, <2>1, <2>4 DEF LifeFacts
  <2>6. Life!Finish
    BY <1>5, <1>11, <2>1, <2>4, <2>5 DEF Life!Finish
  <2> QED BY <2>6 DEF Allowed, Life!Next
<1>13. CASE ~EndsDrain /\ stack' = Below /\ UNCHANGED << state, told >>
  <2>1. Counted' = Counted \ {c} /\ LifePhase' = LifePhase
    BY <1>8, <1>13 DEF LifePhase
  <2>2. CASE state = "GRACEFULLY_STOPPING" /\ Counted \ {c} = {}
    <3>1. Below # << >> /\ Head(Below).at \in {"count", "on_graceful_close"}
          /\ LifeOpen' = {Head(Below).conn}
      <4>1. Top' = Head(Below)
        BY <1>13 DEF Top
      <4> QED BY <1>10, <1>13, <2>1, <2>2, <4>1 DEF LifeFacts
    <3>2. Head(Below).conn = c
      BY <1>1, <1>3, <1>5, <3>1 DEF MayRun, On
    <3>3. LifeOpen' = LifeOpen
      BY <1>7, <1>11, <2>2, <3>1, <3>2
    <3> QED BY <1>13, <2>1, <3>3 DEF Allowed
  <2>3. CASE ~(state = "GRACEFULLY_STOPPING" /\ Counted \ {c} = {})
    <3>1. LifeOpen' = Counted \ {c}
      BY <1>10, <1>13, <2>1, <2>3 DEF LifeFacts
    <3>2. LifePhase = "draining" => Counted # {c}
      BY <1>10, <2>3 DEF LifeFacts
    <3>3. Life!Disconnect(c)
      BY <1>7, <1>11, <1>13, <2>1, <3>1, <3>2 DEF Life!Disconnect
    <3> QED BY <3>3 DEF Allowed, Life!Next
  <2> QED BY <2>2, <2>3
<1> QED BY <1>2, <1>12, <1>13
-----------------------------------------------------------------------------
(* Steps: the loops of evsrv_stop and evsrv_graceful_stop.                 *)

\* A loop begins to close the connection it has found, with w waiting for it.
LEMMA LoopCloses ==
  ASSUME Sound, Sound', stack # << >>, Top.at \in {"stop", "graceful_stop"},
         NEW c \in Live, NEW w \in Frame, w.at # "close", BeginClose(c, << w >> \o Below)
  PROVE  Allowed
<1>1. Below \in Seq(Frame) /\ Leaving(stack) = Leaving(Below)
  BY Opened, OpenedWork
<1>2. << w >> \o Below \in Seq(Frame) /\ Leaving(<< w >> \o Below) = Leaving(Below)
  BY <1>1, Push, PushWork
<1>3. Counted' = Counted /\ UNCHANGED << state, told >>
  BY <1>1, <1>2, BeginCounted
<1> QED BY <1>3, Elsewhere

\* The loop of evsrv_stop begins to close a connection, or closes the server.
LEMMA StopLoopAllowed == ASSUME Sound, Sound', StopLoop PROVE Allowed
<1>1. stack # << >> /\ Top.at = "stop" /\ fault' = FALSE
  BY DEF StopLoop, Runs, Sound, Typed
<1>2. Below \in Seq(Frame) /\ Leaving(stack) = Leaving(Below) /\ Fits(Top)
  BY <1>1, Opened, OpenedWork
<1>3. CASE Entries(Top.n) # {}
  <2> DEFINE f == Min(Entries(Top.n))
             c == connections[f]
  <2>1. f \in Nat /\ c \in Conns
    BY <1>1, <1>3, Found
  <2>2. c \in Live /\ BeginClose(c, << At("stop", None, Following(f)) >> \o Below)
    BY <1>1, <1>3 DEF StopLoop, Fault
  <2> HIDE DEF f, c
  <2>3. PICK w \in Frame : w = At("stop", None, Following(f)) /\ w.at = "stop"
    BY <2>1, AtFrame DEF Points, Following
  <2> QED BY <1>1, <2>2, <2>3, LoopCloses
<1>4. CASE Entries(Top.n) = {}
  <2>1. state' = "STOPPED" /\ stack' = Below /\ conn' = conn /\ told' = told
    BY <1>1, <1>4 DEF StopLoop, Fault
  <2>2. Counted' = Counted
    BY <1>2, <2>1, CountedSame
  <2>3. LifeFacts /\ LifeFacts'
    BY LifeIs, LifeIsNext
  <2>4. LifePhase' = "closed" /\ LifeOpen' = Counted
    BY <2>1, <2>2, <2>3 DEF LifeFacts
  <2>5. Counted' = {}
    BY <2>1 DEF Sound, Phases
  <2>6. LifePhase # "draining"
    BY <1>1, <2>2, <2>3, <2>5 DEF LifeFacts
  <2>7. Life!Stop
    BY <2>1, <2>2, <2>4, <2>5, <2>6 DEF Life!Stop
  <2> QED BY <2>7 DEF Allowed, Life!Next
<1> QED BY <1>3, <1>4

\* The loop of evsrv_graceful_stop begins to close a connection, asks it to
\* close, or returns.
LEMMA GracefulLoopAllowed == ASSUME Sound, Sound', GracefulLoop PROVE Allowed
<1>1. stack # << >> /\ Top.at = "graceful_stop" /\ fault' = FALSE
  BY DEF GracefulLoop, Runs, Sound, Typed
<1>2. Below \in Seq(Frame) /\ Leaving(stack) = Leaving(Below)
  BY <1>1, Opened, OpenedWork
<1>3. CASE Entries(Top.n) # {}
  <2> DEFINE f == Min(Entries(Top.n))
             c == connections[f]
  <2>1. f \in Nat /\ c \in Conns /\ Following(f) \in Int
    BY <1>1, <1>3, Found DEF Following
  <2>2. \/ c \in Live /\ BeginClose(c, << At("count", c, Following(f)) >> \o Below)
        \/ /\ stack' = << App("on_graceful_close", c), At("graceful_stop", c, Following(f)) >> \o Below
           /\ UNCHANGED << state, told, conn >>
    BY <1>1, <1>3 DEF GracefulLoop, Fault, srv
  <2> HIDE DEF f, c
  <2>3. CASE c \in Live /\ BeginClose(c, << At("count", c, Following(f)) >> \o Below)
    <3>1. PICK w \in Frame : w = At("count", c, Following(f)) /\ w.at = "count"
      BY <2>1, AtFrame DEF Points
    <3> QED BY <1>1, <2>3, <3>1, LoopCloses
  <2>4. CASE /\ stack' = << App("on_graceful_close", c), At("graceful_stop", c, Following(f)) >> \o Below
             /\ UNCHANGED << state, told, conn >>
    <3>1. PICK x \in Frame : x = App("on_graceful_close", c) /\ x.at = "on_graceful_close"
      BY <2>1, AppFrame DEF Callbacks
    <3>2. PICK y \in Frame : y = At("graceful_stop", c, Following(f)) /\ y.at = "graceful_stop"
      BY <2>1, AtFrame DEF Points
    <3>3. stack' = << x >> \o (<< y >> \o Below)
      BY <1>2, <2>4, <3>1, <3>2, PushTwo
    <3>4. << y >> \o Below \in Seq(Frame) /\ Leaving(<< y >> \o Below) = Leaving(Below)
      BY <1>2, <3>2, Push, PushWork
    <3>5. Leaving(stack') = Leaving(stack)
      BY <1>2, <3>1, <3>3, <3>4, PushWork
    <3>6. Counted' = Counted
      BY <2>4, <3>5, CountedSame
    <3> QED BY <1>1, <2>4, <3>6, Elsewhere
  <2> QED BY <2>2, <2>3, <2>4
<1>4. CASE Entries(Top.n) = {}
  <2>1. stack' = Below /\ conn' = conn /\ UNCHANGED << state, told >>
    BY <1>1, <1>4 DEF GracefulLoop, Fault, srv
  <2>2. Counted' = Counted
    BY <1>2, <2>1, CountedSame
  <2> QED BY <1>1, <2>1, <2>2, Elsewhere
<1> QED BY <1>3, <1>4

\* on_graceful_close returns to the loop that made it; a connection it has
\* closed, were it the last, stays the loop's to report.
LEMMA CloseReturnsAllowed == ASSUME Sound, Sound', GracefulCloseReturns PROVE Allowed
<1>1. stack # << >> /\ Top.at = "on_graceful_close"
  BY DEF GracefulCloseReturns, Runs
<1>2. /\ Below \in Seq(Frame) /\ MayRun(may, Top, Below) /\ Leaving(stack) = Leaving(Below)
      /\ Top \in Frame
  BY <1>1, Opened, OpenedWork
<1>3. Below # << >> /\ Head(Below).at = "graceful_stop" /\ Head(Below).conn = Top.conn
  BY <1>1, <1>2 DEF MayRun, On, Owned
<1>4. /\ Head(Below) \in Frame /\ Tail(Below) \in Seq(Frame)
      /\ Below = << Head(Below) >> \o Tail(Below)
  BY <1>2, <1>3, Pop
<1>5. Leaving(Tail(Below)) = Leaving(Below)
  <2>1. Leaving(<< Head(Below) >> \o Tail(Below)) = Leaving(Tail(Below))
    BY ONLY <1>3, <1>4, PushWork
  <2> QED BY <1>4, <2>1
<1>6. PICK p \in Drains : stack' = << [ Head(Below) EXCEPT !.at = p ] >> \o Tail(Below)
  BY DEF GracefulCloseReturns, Drains
<1>7. PICK w \in Frame : /\ w = [ Head(Below) EXCEPT !.at = p ] /\ w.at = p
                         /\ w.conn = Head(Below).conn
  <2>1. p \in Points
    BY DEF Drains, Points
  <2> QED BY <1>4, <2>1, Renamed
<1>8. Leaving(stack') = Leaving(stack) /\ Head(stack') = w
  <2>1. w.at # "close"
    BY <1>7 DEF Drains
  <2> QED BY <1>2, <1>4, <1>5, <1>6, <1>7, <2>1, Push, PushWork
<1>9. Live' = Live /\ UNCHANGED << state, told >>
  <2>1. UNCHANGED << state, told >>
    BY DEF GracefulCloseReturns, srv
  <2>2. CASE conn' = conn
    BY <2>1, <2>2 DEF Live
  <2>3. CASE Top.conn \in Live /\ conn' = [ conn EXCEPT ![Top.conn].state = "PENDING_CLOSE" ]
    <3>1. PICK c \in Conns : c = Top.conn
      BY <2>3 DEF Live
    <3>2. \A b \in Conns : conn'[b].state # "NONE" <=> conn[b].state # "NONE"
      BY <2>3, <3>1 DEF Live, Sound, Typed
    <3> QED BY <2>1, <3>2 DEF Live
  <2> QED BY <2>2, <2>3 DEF GracefulCloseReturns
<1>10. Counted' = Counted
  BY <1>8, <1>9 DEF Counted
<1> QED BY <1>3, <1>7, <1>8, <1>9, <1>10, Quiet

\* The loop has closed a connection: the drain goes on, or ends and is
\* reported.
LEMMA CountAllowed == ASSUME Sound, Sound', GracefulCount PROVE Allowed
<1>1. stack # << >> /\ Top.at = "count"
  BY DEF GracefulCount, Runs
<1>2. /\ Below \in Seq(Frame) /\ Leaving(stack) = Leaving(Below) /\ Top \in Frame /\ Fits(Top)
  BY <1>1, Opened, OpenedWork
<1>3. state = "GRACEFULLY_STOPPING" /\ conn' = conn
  BY <1>1, <1>2 DEF Fits, FitsDrain, Drains, GracefulCount
<1>4. CASE active_connections = 0
  <2>1. /\ state' = "STOPPED" /\ told' = told + 1
        /\ stack' = << App("on_graceful_stop", None) >> \o Below
    BY <1>4 DEF GracefulCount, Report
  <2>2. PICK x \in Frame : x = App("on_graceful_stop", None) /\ x.at = "on_graceful_stop"
    <3>1. "on_graceful_stop" \in Callbacks
      BY DEF Callbacks
    <3> QED BY <3>1, AppFrame
  <2>3. Leaving(stack') = Leaving(stack)
    BY <1>2, <2>1, <2>2, PushWork
  <2>4. Counted = {} /\ Counted' = {}
    BY <1>3, <1>4, <2>3, CountedIs, CountedSame
  <2>5. LifeFacts /\ LifeFacts'
    BY LifeIs, LifeIsNext
  <2>6. /\ LifePhase = "draining" /\ LifePhase' = "closed" /\ LifeOpen' = {}
        /\ Top.conn \in Conns /\ LifeOpen = {Top.conn}
    BY <1>3, <2>1, <2>4, <2>5 DEF LifeFacts
  <2>7. Life!Finish
    BY <2>1, <2>6 DEF Life!Finish
  <2> QED BY <2>7 DEF Allowed, Life!Next
<1>5. CASE active_connections # 0
  <2>1. stack' = << [ Top EXCEPT !.at = "graceful_stop" ] >> \o Below /\ UNCHANGED << state, told >>
    BY <1>5 DEF GracefulCount
  <2>2. PICK x \in Frame : x = [ Top EXCEPT !.at = "graceful_stop" ] /\ x.at = "graceful_stop"
    <3>1. "graceful_stop" \in Points
      BY DEF Points
    <3> QED BY <1>2, <3>1, Renamed
  <2>3. Leaving(stack') = Leaving(stack)
    BY <1>2, <2>1, <2>2, PushWork
  <2>4. Counted' = Counted /\ Counted # {}
    BY <1>3, <1>5, <2>3, CountedIs, CountedSame
  <2> QED BY <2>1, <2>4, Quiet
<1> QED BY <1>4, <1>5
-----------------------------------------------------------------------------
(* Steps: the callbacks of the loop, and returns from callbacks.           *)

\* A function that is no close, and not the loop that counts, returns.
LEMMA PopAllowed ==
  ASSUME Sound, Sound', stack # << >>,
         Top.at \notin {"close", "count", "on_graceful_close"},
         stack' = Below, conn' = conn, UNCHANGED << state, told >>
  PROVE  Allowed
<1>1. Leaving(stack') = Leaving(stack)
  BY OpenedWork
<1>2. Counted' = Counted
  BY <1>1, CountedSame
<1> QED BY <1>2, Elsewhere

\* The last step of evsrv_destroy, of a callback, and of the two callbacks of
\* the loop
LEMMA ReturnsAllowed ==
  ASSUME Sound, Sound', DestroyEnds \/ AcceptEnds \/ ReadEnds \/ CallbackReturns
  PROVE  Allowed
<1>1. fault' = FALSE
  BY DEF Sound, Typed
<1>2. /\ stack # << >> /\ Top.at \notin {"close", "count", "on_graceful_close"}
      /\ stack' = Below /\ conn' = conn /\ UNCHANGED << state, told >>
  BY <1>1 DEF DestroyEnds, AcceptEnds, ReadEnds, CallbackReturns, Runs, Fault, srv, Callbacks
<1> QED BY <1>2, PopAllowed

\* The accept callback
LEMMA AcceptCbAllowed == ASSUME Sound, Sound', AcceptCb PROVE Allowed
<1>1. /\ stack = << >> /\ stack' = << At("accept_cb", None, 0) >> /\ conn' = conn
      /\ UNCHANGED << state, told >>
  BY DEF AcceptCb, Idle, srv
<1>2. PICK x \in Frame : x = At("accept_cb", None, 0) /\ x.at = "accept_cb"
  BY AtFrame DEF Points
<1>3. stack' = << x >> \o << >> /\ << >> \in Seq(Frame)
  BY <1>1, <1>2, PushJoined, NoFrames
<1>4. Leaving(stack') = Leaving(stack)
  <2>1. Leaving(<< x >> \o << >>) = Leaving(<< >>)
    BY ONLY <1>2, <1>3, x \in Frame, PushWork
  <2> QED BY <1>1, <1>3, <2>1
<1>5. Counted' = Counted
  BY <1>1, <1>4, CountedSame
<1> QED BY <1>1, <1>5, Elsewhere

\* The read callback
LEMMA ReadCbAllowed == ASSUME Sound, Sound', NEW c \in Conns, ReadCb(c) PROVE Allowed
<1>1. /\ stack = << >> /\ stack' = << App("on_read", c), At("read_cb", c, 0) >> /\ conn' = conn
      /\ UNCHANGED << state, told >>
  BY DEF ReadCb, Idle, srv
<1>2. PICK x \in Frame : x = App("on_read", c) /\ x.at = "on_read"
  BY AppFrame DEF Callbacks
<1>3. PICK y \in Frame : y = At("read_cb", c, 0) /\ y.at = "read_cb"
  BY AtFrame DEF Points
<1> DEFINE q == << y >> \o << >>
<1>4. stack' = << x >> \o q /\ << >> \in Seq(Frame)
  BY <1>1, <1>2, <1>3, PushJoined, NoFrames
<1>5. q \in Seq(Frame) /\ Leaving(q) = Leaving(<< >>)
  BY <1>3, <1>4, Push, PushWork
<1> HIDE DEF q
<1>6. Leaving(stack') = Leaving(stack)
  <2>1. Leaving(<< x >> \o q) = Leaving(q)
    BY ONLY <1>2, <1>5, x \in Frame, PushWork
  <2> QED BY <1>1, <1>4, <1>5, <2>1
<1>7. Counted' = Counted
  BY <1>1, <1>6, CountedSame
<1> QED BY <1>1, <1>7, Elsewhere

\* A connection appears only while the server serves.
LEMMA AcceptOneAllowed ==
  ASSUME Sound, Sound', NEW c \in Conns, NEW f \in Fds, AcceptOne(c, f)
  PROVE  Allowed
<1>1. /\ stack # << >> /\ Top.at = "accept_cb" /\ sock = TRUE
      /\ conn[c] = NoConn /\ (\A g \in OpenFds : connections[g] # c)
      /\ conn' = [ conn EXCEPT ![c] = [ state |-> "CREATED", sock |-> f ] ]
      /\ stack' = Asks("on_conn_create", c) \o << At("enter", c, f) >> \o Below
      /\ UNCHANGED << state, told >>
  BY DEF AcceptOne, Runs
<1>2. /\ Below \in Seq(Frame) /\ Leaving(stack) = Leaving(Below)
      /\ \A x \in Frames(stack) : Fits(x)
  BY <1>1, Opened, OpenedWork DEF Sound
<1>3. f \in Int
  BY Sockets
<1>4. PICK y \in Frame : y = At("enter", c, f) /\ y.at = "enter"
  BY <1>3, AtFrame DEF Points
<1>5. PICK x \in Frame : x = App("on_conn_create", c) /\ x.at = "on_conn_create"
  BY AppFrame DEF Callbacks
<1>6. << y >> \o Below \in Seq(Frame) /\ Leaving(<< y >> \o Below) = Leaving(Below)
  BY <1>2, <1>4, Push, PushWork
<1>7. stack' = << y >> \o Below \/ stack' = << x >> \o (<< y >> \o Below)
  <2>1. stack' = (<< x >> \o << y >>) \o Below \/ stack' = (<< >> \o << y >>) \o Below
    BY <1>1, <1>4, <1>5 DEF Asks
  <2> QED BY <1>2, <2>1, PushJoined
<1>8. Leaving(stack') = Leaving(stack)
  BY <1>2, <1>5, <1>6, <1>7, PushWork
<1>9. c \notin Counted
  <2>1. c \notin Live
    BY <1>1 DEF Live, NoConn
  <2>2. c \notin Leaving(stack)
    <3> SUFFICES ASSUME NEW x1 \in Frames(stack), x1.at = "close", x1.conn = c PROVE FALSE
      BY DEF Leaving, Work
    <3>1. x1.n \in Fds /\ connections[x1.n] = c
      BY <1>2 DEF Fits, FitsClose
    <3>2. x1.n \in OpenFds
      BY <3>1, Sockets DEF OpenFds
    <3> QED BY <1>1, <3>1, <3>2
  <2> QED BY <2>1, <2>2 DEF Counted
<1>10. Counted' = Counted \cup {c}
  <2>1. /\ \A b \in Conns : b # c => (b \in Live' <=> b \in Live)
        /\ c \in Live'
    BY <1>1 DEF Live, Sound, Typed
  <2>2. Live \subseteq Conns /\ Live' \subseteq Conns
    BY DEF Live
  <2>3. Counted' = Live' \cup Leaving(stack') /\ Counted = Live \cup Leaving(stack)
    BY DEF Counted
  <2> QED BY <1>8, <2>1, <2>2, <2>3
<1>11. state = "ACCEPTING"
  BY <1>1 DEF Sound, Phases
<1>12. LifeFacts /\ LifeFacts'
  BY LifeIs, LifeIsNext
<1>13. /\ LifePhase = "serving" /\ LifePhase' = "serving"
       /\ LifeOpen = Counted /\ LifeOpen' = Counted'
  BY <1>1, <1>11, <1>12 DEF LifeFacts
<1>14. Life!Connect(c)
  BY <1>1, <1>9, <1>10, <1>13 DEF Life!Connect
<1> QED BY <1>14 DEF Allowed, Life!Next

\* The connection is entered in the table; it was open before.
LEMMA AcceptEnterAllowed == ASSUME Sound, Sound', AcceptEnter PROVE Allowed
<1>1. stack # << >> /\ Top.at = "enter" /\ fault' = FALSE
  BY DEF AcceptEnter, Runs, Sound, Typed
<1>2. /\ Top.conn \in Live
      /\ conn' = [ conn EXCEPT ![Top.conn].state = "ACTIVE" ]
      /\ stack' = << App("on_conn_ready", Top.conn), At("accept_cb", None, 0) >> \o Below
      /\ UNCHANGED << state, told >>
  BY <1>1 DEF AcceptEnter, Fault
<1>3. PICK c \in Conns : c = Top.conn
  BY <1>2 DEF Live
<1>4. Below \in Seq(Frame) /\ Leaving(stack) = Leaving(Below)
  BY <1>1, Opened, OpenedWork
<1>5. PICK x \in Frame : x = App("on_conn_ready", c) /\ x.at = "on_conn_ready"
  BY AppFrame DEF Callbacks
<1>6. PICK y \in Frame : y = At("accept_cb", None, 0) /\ y.at = "accept_cb"
  BY AtFrame DEF Points
<1>7. stack' = << x >> \o (<< y >> \o Below)
  BY <1>2, <1>3, <1>4, <1>5, <1>6, PushTwo
<1>8. << y >> \o Below \in Seq(Frame) /\ Leaving(<< y >> \o Below) = Leaving(Below)
  BY <1>4, <1>6, Push, PushWork
<1>9. Leaving(stack') = Leaving(stack)
  BY <1>4, <1>5, <1>7, <1>8, PushWork
<1>10. Live' = Live
  <2>1. \A b \in Conns : conn'[b].state # "NONE" <=> conn[b].state # "NONE"
    BY <1>2, <1>3 DEF Live, Sound, Typed
  <2> QED BY <2>1 DEF Live
<1>11. Counted' = Counted
  BY <1>9, <1>10 DEF Counted
<1> QED BY <1>1, <1>2, <1>11, Elsewhere
-----------------------------------------------------------------------------
(* The theorem.                                                            *)

\* A server begins as ServerLife does,
LEMMA LifeInit == Init => Life!Init
<1> SUFFICES ASSUME Init PROVE Life!Init
  OBVIOUS
<1>1. Sound /\ state = "IDLE" /\ told = 0
  BY InitSound DEF Init
<1>2. LifePhase = "closed" /\ LifeOpen = Counted
  BY <1>1, LifeIs DEF LifeFacts
<1>3. Counted = {}
  BY <1>1 DEF Sound, Phases
<1> QED BY <1>1, <1>2, <1>3 DEF Life!Init

\* and goes on as it does.
LEMMA LifeNext == ASSUME Sound, Sound', Careful, [Next]_vars PROVE Allowed
<1>1. CASE EvsrvStart
  BY <1>1, StartAllowed
<1>2. CASE EvsrvStop
  BY <1>2, StopAllowed
<1>3. CASE GracefulStop
  BY <1>3, GracefulStopAllowed
<1>4. CASE EvsrvDestroy
  BY <1>4, DestroyAllowed
<1>5. ASSUME NEW c \in Conns, ConnClose(c) PROVE Allowed
  BY <1>5, ConnCloseAllowed
<1>6. CASE ConnDestroy
  BY <1>6, ConnDestroyAllowed
<1>7. CASE EndClose
  BY <1>7, EndCloseAllowed
<1>8. CASE StopLoop
  BY <1>8, StopLoopAllowed
<1>9. CASE GracefulLoop
  BY <1>9, GracefulLoopAllowed
<1>10. CASE GracefulCloseReturns
  BY <1>10, CloseReturnsAllowed
<1>11. CASE GracefulCount
  BY <1>11, CountAllowed
<1>12. CASE DestroyEnds \/ AcceptEnds \/ ReadEnds \/ CallbackReturns
  BY <1>12, ReturnsAllowed
<1>13. CASE AcceptEnter
  BY <1>13, AcceptEnterAllowed
<1>14. CASE AcceptCb
  BY <1>14, AcceptCbAllowed
<1>15. ASSUME NEW c \in Conns, ReadCb(c) PROVE Allowed
  BY <1>15, ReadCbAllowed
<1>16. ASSUME NEW c \in Conns, Fails(c) PROVE Allowed
  BY <1>16, FailsAllowed
<1>17. ASSUME NEW c \in Conns, NEW f \in Fds, AcceptOne(c, f) PROVE Allowed
  BY <1>17, AcceptOneAllowed
<1>18. CASE UNCHANGED vars
  <2>1. UNCHANGED << state, conn, stack, told >>
    BY <1>18 DEF vars, srv
  <2>2. Live' = Live /\ Uncounted' = Uncounted
    BY <2>1 DEF Live, Uncounted
  <2>3. LifePhase' = LifePhase /\ LifeOpen' = LifeOpen
    BY <2>1, <2>2 DEF LifePhase, LifeOpen, Top
  <2> QED BY <2>1, <2>3 DEF Allowed
<1> QED BY <1>1, <1>2, <1>3, <1>4, <1>5, <1>6, <1>7, <1>8, <1>9, <1>10, <1>11, <1>12, <1>13,
           <1>14, <1>15, <1>16, <1>17, <1>18 DEF Next, Api, Forward

\* Whatever a careful application calls from its callbacks, every step of the
\* library is one that ServerLife allows, or a restart: nobody is admitted
\* during a drain, its last connection does not go without the report, and the
\* report comes once (src/evsrv.c:210-262, src/evsrv_conn.c:107-137).
THEOREM NestedLife == Spec => CallsKeepLife
<1>1. IInv /\ IInv' /\ [Next]_vars => [Careful => Life!Next \/ Restart]_(Life!vars)
  <2> SUFFICES ASSUME IInv, IInv', [Next]_vars, Careful
               PROVE  Life!Next \/ Restart \/ UNCHANGED (Life!vars)
    OBVIOUS
  <2>1. Careful'
    BY SameApplication DEF Careful, IsSet
  <2>2. Allowed
    BY <2>1, LifeNext DEF IInv
  <2> QED BY <2>2 DEF Allowed, Life!vars
<1> QED BY <1>1, LifeInit, ReentrySound, PTL DEF Spec, CallsKeepLife
=============================================================================
