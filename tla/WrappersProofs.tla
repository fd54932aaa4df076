--------------------------- MODULE WrappersProofs ---------------------------
(***************************************************************************)
(* What is true of Wrappers for any objects, connections and applications. *)
(***************************************************************************)
EXTENDS Wrappers, TLAPS

\* The server's field holds what one of the application's registrations has
\* stored, from the first callback that is set.
SrvKept ==
  /\ \A cb \in srv.set : SrvTarget(cb) # None
  /\ srv.set # {} => srv.data \in Stores(ServerSlots, "stop")
  /\ srv.state = "accepting" /\ ~plan.late =>
       \A slot \in Registered(ServerSlots) : Sets(slot) \subseteq srv.set

\* The field of an srv_conn holds what its own set_on_read has stored.
ConnKept == \A c \in Conns : conn[c].open =>
  \/ /\ conn[c].cxx
     /\ conn[c].data = Stored(plan.on["conn_read"]) /\ conn[c].on_read = plan.on["conn_read"]
  \/ /\ ~conn[c].cxx
     /\ plan.late \/ plan.on["conn"] = None
     /\ conn[c].data = Null /\ conn[c].on_read \in {None, plan.on["read"]}

GroupKept ==
  /\ group.set # {} => group.data \in Stores(GroupSlots, "group_stop")
  /\ group.state = "draining" /\ plan.on["group_stop"] \in Objects =>
       IF plan.late THEN group.data \in Stores(GroupSlots, "group_stop")
       ELSE group.data = plan.on["group_stop"]

\* The inductive invariant
IInv == TypeOK /\ SrvKept /\ ConnKept /\ GroupKept /\ OwnObject /\ RealConn
-----------------------------------------------------------------------------
(* Registrations and targets.                                              *)

LEMMA PlanTyped ==
  ASSUME TypeOK
  PROVE  /\ plan \in Plan /\ \A slot \in Slots : plan.on[slot] \in Targets
         /\ plan.user_data \in Data /\ plan.late \in BOOLEAN
         /\ plan.on["stop"] # None /\ plan.on["group_stop"] # None
BY WrappersAssumption DEF TypeOK, Plan

LEMMA StoredTyped ==
  ASSUME TypeOK, NEW slot \in Slots
  PROVE  StoredBy(slot) \in Data /\ Stored(plan.on[slot]) \in Data
BY PlanTyped DEF StoredBy, Stored, Data

LEMMA SlotsListed ==
  /\ ServerSlots = {"started", "read", "ready", "conn"} /\ GroupSlots = {"group_started"}
  /\ Slots = {"started", "read", "ready", "conn", "group_started", "stop", "conn_read", "group_stop"}
BY DEF Slots, ServerSlots, GroupSlots

LEMMA SetsFacts ==
  ASSUME NEW slot \in ServerSlots
  PROVE  Sets(slot) \subseteq Callbacks /\ Sets(slot) # {}
BY DEF Sets, Callbacks, ServerSlots

\* A callback that casts the field of its holder finds its object there.
LEMMA CastFinds ==
  ASSUME NEW casts, NEW stores, NEW t \in casts, NEW d \in stores, OneObject(casts, stores)
  PROVE  d = t
BY DEF OneObject

LEMMA SrvCallRight ==
  ASSUME TypeOK, SrvKept, NEW cb \in {"started", "create"}
  PROVE  /\ Agrees => \A k \in SrvCall(cb) : k.on = k.to
         /\ \A k \in SrvCall(cb) : k.real
<1>1. ASSUME Agrees, SrvTarget(cb) \in Objects PROVE srv.data = SrvTarget(cb)
  <2>1. cb \in srv.set BY <1>1, WrappersAssumption DEF SrvTarget
  <2>2. SrvTarget(cb) \in Methods({"started", "conn"}) BY <1>1, <2>1 DEF SrvTarget, Methods
  <2>3. srv.data \in Stores(ServerSlots, "stop") BY <2>1 DEF SrvKept
  <2> QED BY <1>1, <2>2, <2>3, CastFinds DEF Agrees, ServerAgrees
<1>2. SrvTarget(cb) \in Targets
  BY PlanTyped, SlotsListed DEF SrvTarget, Targets
<1> QED BY <1>1, <1>2 DEF SrvCall, Call, Targets

\* A callback of a connection, open or just created, with the callback's
\* target t, registered with the server in a slot.
LEMMA ConnCallRight ==
  ASSUME TypeOK, SrvKept, NEW k, NEW cb \in {"ready", "destroy"},
         \/ k.cxx = TRUE /\ k.data = Stored(plan.on["conn_read"])
         \/ k.cxx = FALSE /\ (plan.late \/ plan.on["conn"] = None)
  PROVE  /\ Agrees => \A call \in ConnCall(cb, k) : call.on = call.to
         /\ Creates => \A call \in ConnCall(cb, k) : call.real
<1> DEFINE t == SrvTarget(cb)
<1>1. t \in Targets BY PlanTyped, SlotsListed DEF SrvTarget, Targets
<1>2. t # None => \E slot \in {"ready", "conn"} : plan.on[slot] = t
  BY DEF SrvTarget
<1>3. ASSUME Agrees, t \in Objects PROVE k.data = t
  <2>1. t \in Methods({"ready", "conn"}) /\ t \in Methods({"read", "ready", "conn"})
    BY <1>2, <1>3, WrappersAssumption DEF Methods
  <2>2. ~plan.late /\ plan.on["conn"] # None /\ t \in Methods({"conn_read"})
    BY <1>3, <2>1 DEF Agrees, ConnAgrees
  <2> QED BY <1>3, <2>2 DEF Methods, Stored
<1>4. ASSUME Creates, t # None PROVE k.cxx
  <2>1. Registered({"read", "ready", "conn"}) # {} BY <1>2, <1>4 DEF Registered
  <2> QED BY <1>4, <2>1 DEF Creates
<1> HIDE DEF t
<1> QED BY <1>1, <1>3, <1>4 DEF ConnCall, Call, Targets, t

LEMMA ReadRight ==
  ASSUME TypeOK, ConnKept, NEW c \in Conns, conn[c].open
  PROVE  LET called == Call(conn[c].on_read, conn[c].data, conn[c].cxx) IN
         /\ Agrees => \A k \in called : k.on = k.to
         /\ Creates => \A k \in called : k.real
<1> DEFINE t == conn[c].on_read
<1>1. t \in Targets BY DEF TypeOK, Connection
<1>2. CASE conn[c].cxx /\ conn[c].data = Stored(plan.on["conn_read"]) /\ t = plan.on["conn_read"]
  BY <1>1, <1>2 DEF Call, Stored, Targets
<1>3. CASE /\ ~conn[c].cxx /\ (plan.late \/ plan.on["conn"] = None)
           /\ t \in {None, plan.on["read"]}
  <2>1. t # None => Registered({"read", "ready", "conn"}) # {} BY <1>3 DEF Registered
  <2>2. t \in Objects => Methods({"read", "ready", "conn"}) # {}
    BY <1>3, WrappersAssumption DEF Methods
  <2>3. Creates => t = None BY <1>3, <2>1 DEF Creates
  <2>4. Agrees => t \notin Objects BY <1>3, <2>2 DEF Agrees, ConnAgrees
  <2> QED BY <1>1, <2>3, <2>4 DEF Call, Targets
<1> QED BY <1>2, <1>3 DEF ConnKept

LEMMA CloseCallsRight ==
  ASSUME TypeOK, SrvKept, ConnKept, NEW C, C \subseteq Open
  PROVE  /\ Agrees => \A k \in CloseCalls(C) : k.on = k.to
         /\ Creates => \A k \in CloseCalls(C) : k.real
<1>1. \A c \in C : /\ c \in Conns
                   /\ \/ conn[c].cxx = TRUE /\ conn[c].data = Stored(plan.on["conn_read"])
                      \/ conn[c].cxx = FALSE /\ (plan.late \/ plan.on["conn"] = None)
  BY DEF Open, ConnKept, TypeOK, Connection
<1>2. \A c \in C : /\ Agrees => \A k \in ConnCall("destroy", conn[c]) : k.on = k.to
                   /\ Creates => \A k \in ConnCall("destroy", conn[c]) : k.real
  BY <1>1, ConnCallRight
<1>3. \A k \in CloseCalls(C) : \E c \in C : k \in ConnCall("destroy", conn[c])
  BY DEF CloseCalls
<1> QED BY <1>2, <1>3

\* The callback of graceful_stop, called by it or when the group has drained
LEMMA StopStores ==
  ASSUME NEW t \in Targets, t # None, NEW d
  PROVE  /\ t \in Objects => StoredByStop(t, d) = t
         /\ t \notin Objects => StoredByStop(t, d) = d
         /\ \A k \in Call(t, StoredByStop(t, d), TRUE) : k.on = k.to /\ k.real
BY DEF StoredByStop, Call, Targets

LEMMA GroupReportRight ==
  ASSUME TypeOK, GroupKept, group.state = "draining"
  PROVE  LET called == Call(plan.on["group_stop"], group.data, TRUE) IN
         /\ Agrees => \A k \in called : k.on = k.to
         /\ \A k \in called : k.real
<1> DEFINE t == plan.on["group_stop"]
<1>1. t \in Targets /\ t # None BY PlanTyped, SlotsListed
<1>2. ASSUME Agrees, t \in Objects, plan.late PROVE group.data = t
  <2>1. t \in Methods(IF plan.late THEN {"group_started", "group_stop"} ELSE {"group_started"})
    BY <1>2 DEF Methods
  <2>2. group.data \in Stores(GroupSlots, "group_stop") BY <1>2 DEF GroupKept
  <2> QED BY <1>2, <2>1, <2>2, CastFinds DEF Agrees, GroupAgrees
<1>3. ASSUME t \in Objects, ~plan.late PROVE group.data = t BY <1>3 DEF GroupKept
<1> HIDE DEF t
<1> QED BY <1>1, <1>2, <1>3 DEF Call, Targets, t
-----------------------------------------------------------------------------
(* What a step leaves alone.                                               *)

LEMMA PlanFrame ==
  ASSUME plan' = plan
  PROVE  /\ Agrees' = Agrees /\ Creates' = Creates
         /\ Stores(ServerSlots, "stop")' = Stores(ServerSlots, "stop")
         /\ Stores(GroupSlots, "group_stop")' = Stores(GroupSlots, "group_stop")
         /\ Registered(ServerSlots)' = Registered(ServerSlots)
<1>1. \A slots : Methods(slots)' = Methods(slots) /\ Registered(slots)' = Registered(slots)
  BY DEF Methods, Registered
<1>2. \A slot : StoredBy(slot)' = StoredBy(slot) BY DEF StoredBy
<1>3. \A slots, stop : Stores(slots, stop)' = Stores(slots, stop)
  BY <1>1, <1>2 DEF Stores
<1>4. ServerAgrees' = ServerAgrees BY <1>1, <1>3 DEF ServerAgrees, OneObject
<1>5. ConnAgrees' = ConnAgrees BY <1>1 DEF ConnAgrees
<1>6. GroupAgrees' = GroupAgrees BY <1>1, <1>3 DEF GroupAgrees, OneObject
<1> QED BY <1>1, <1>3, <1>4, <1>5, <1>6 DEF Agrees, Creates

LEMMA SrvFrame ==
  ASSUME SrvKept, plan' = plan, srv' = srv
  PROVE  SrvKept'
BY PlanFrame DEF SrvKept, SrvTarget

LEMMA ConnFrame ==
  ASSUME ConnKept, plan' = plan, conn' = conn
  PROVE  ConnKept'
BY DEF ConnKept, Stored

LEMMA GroupFrame ==
  ASSUME GroupKept, plan' = plan, group' = group
  PROVE  GroupKept'
BY PlanFrame DEF GroupKept

\* Calls that are right make the invariants of the next state.
LEMMA CallsFrame ==
  ASSUME plan' = plan,
         Agrees => \A k \in calls' : k.on = k.to,
         Creates => \A k \in calls' : k.real
  PROVE  OwnObject' /\ RealConn'
BY PlanFrame DEF OwnObject, RealConn

\* Closed connections are as if they had never been there.
LEMMA ClosedKept ==
  ASSUME TypeOK, ConnKept, plan' = plan, NEW C, conn' = Closed(C)
  PROVE  ConnKept' /\ conn' \in [ Conns -> Connection ]
<1>1. NoConn \in Connection BY DEF NoConn, Connection, Data, Targets
<1>2. \A c \in Conns : conn'[c] = IF c \in C THEN NoConn ELSE conn[c]
  BY DEF Closed
<1>3. conn' \in [ Conns -> Connection ] BY <1>1 DEF Closed, TypeOK
<1>4. ASSUME NEW c \in Conns, conn'[c].open PROVE conn'[c] = conn[c]
  BY <1>2, <1>4 DEF NoConn
<1> QED BY <1>3, <1>4 DEF ConnKept, Stored
-----------------------------------------------------------------------------
(* One lemma for each action of the server.                                *)

LEMMA SrvSetKeeps ==
  ASSUME IInv, NEW slot \in ServerSlots, SrvSet(slot)
  PROVE  IInv'
<1>1. plan' = plan /\ group' = group /\ conn' = conn /\ calls' = {} BY DEF SrvSet
<1>2. slot \in Slots /\ plan.on[slot] # None BY SlotsListed DEF SrvSet, CanRegister
<1>3. srv \in [ state : SrvStates, data : Data, set : SUBSET Callbacks ] BY DEF IInv, TypeOK
<1>4. /\ srv'.state = srv.state /\ srv'.data = StoredBy(slot)
      /\ srv'.set = srv.set \cup Sets(slot)
  BY <1>3 DEF SrvSet
<1>5. TypeOK'
  <2>1. StoredBy(slot) \in Data BY <1>2, StoredTyped DEF IInv
  <2>2. srv.set \cup Sets(slot) \subseteq Callbacks BY <1>3, SetsFacts
  <2>3. srv' \in [ state : SrvStates, data : Data, set : SUBSET Callbacks ]
    BY <1>3, <2>1, <2>2 DEF SrvSet
  <2> QED BY <1>1, <2>3 DEF IInv, TypeOK
<1>6. SrvKept'
  <2>1. \A cb \in srv'.set : SrvTarget(cb)' # None
    <3>1. \A cb \in srv.set : plan.on[IF cb \in {"create", "destroy"} THEN "conn" ELSE cb] # None
      BY DEF IInv, SrvKept, SrvTarget
    <3>2. \A cb \in Sets(slot) : plan.on[IF cb \in {"create", "destroy"} THEN "conn" ELSE cb] # None
      BY <1>2, SlotsListed DEF Sets
    <3> QED BY <1>1, <1>4, <3>1, <3>2 DEF SrvTarget
  <2>2. srv'.data \in Stores(ServerSlots, "stop")
    BY <1>2, <1>4 DEF Stores, Registered
  <2>3. \A s \in Registered(ServerSlots) : Sets(s)' = Sets(s) BY DEF Sets
  <2>4. srv'.state = "accepting" /\ ~plan.late =>
          \A s \in Registered(ServerSlots) : Sets(s) \subseteq srv'.set
    BY <1>4 DEF IInv, SrvKept
  <2> QED BY <1>1, <2>1, <2>2, <2>4, PlanFrame DEF SrvKept
<1>7. OwnObject' /\ RealConn' BY <1>1, CallsFrame
<1> QED BY <1>1, <1>5, <1>6, <1>7, ConnFrame, GroupFrame DEF IInv

\* A step that leaves the field and the callbacks of the server alone, and
\* does not start it
LEMMA SrvStateFrame ==
  ASSUME IInv, plan' = plan, NEW state \in SrvStates, state # "accepting",
         srv' = [ srv EXCEPT !.state = state ]
  PROVE  SrvKept' /\ srv' \in [ state : SrvStates, data : Data, set : SUBSET Callbacks ]
<1>1. srv \in [ state : SrvStates, data : Data, set : SUBSET Callbacks ] BY DEF IInv, TypeOK
<1>2. srv'.state = state /\ srv'.data = srv.data /\ srv'.set = srv.set BY <1>1
<1>3. \A cb \in srv'.set : SrvTarget(cb)' # None
  BY <1>2 DEF IInv, SrvKept, SrvTarget
<1> QED BY <1>1, <1>2, <1>3, PlanFrame DEF IInv, SrvKept

LEMMA SrvStartKeeps ==
  ASSUME IInv, SrvStart
  PROVE  IInv'
<1>1. plan' = plan /\ group' = group /\ conn' = conn /\ calls' = SrvCall("started")
  BY DEF SrvStart
<1>2. srv \in [ state : SrvStates, data : Data, set : SUBSET Callbacks ] BY DEF IInv, TypeOK
<1>3. srv'.state = "accepting" /\ srv'.data = srv.data /\ srv'.set = srv.set
  BY <1>2 DEF SrvStart
<1>4. TypeOK'
  <2>1. srv' \in [ state : SrvStates, data : Data, set : SUBSET Callbacks ]
    BY <1>2 DEF SrvStart, SrvStates
  <2> QED BY <1>1, <2>1 DEF IInv, TypeOK
<1>5. SrvKept'
  <2>1. \A cb \in srv'.set : SrvTarget(cb)' # None
    BY <1>1, <1>3 DEF IInv, SrvKept, SrvTarget
  <2>2. ~plan.late => \A s \in Registered(ServerSlots) : Sets(s) \subseteq srv.set
    BY DEF SrvStart, CanStart, Registered
  <2> QED BY <1>1, <1>3, <2>1, <2>2, PlanFrame DEF IInv, SrvKept
<1>6. OwnObject' /\ RealConn' BY <1>1, SrvCallRight, CallsFrame DEF IInv
<1> QED BY <1>1, <1>4, <1>5, <1>6, ConnFrame, GroupFrame DEF IInv

\* The connection of an accept is an srv_conn exactly if the application
\* creates it.
LEMMA NewConnRight ==
  ASSUME IInv, srv.state = "accepting"
  PROVE  /\ NewConn \in Connection
         /\ \/ /\ NewConn.cxx = TRUE
               /\ NewConn.data = Stored(plan.on["conn_read"])
               /\ NewConn.on_read = plan.on["conn_read"]
            \/ /\ NewConn.cxx = FALSE
               /\ plan.late \/ plan.on["conn"] = None
               /\ NewConn.data = Null /\ NewConn.on_read \in {None, plan.on["read"]}
<1>1. /\ Stored(plan.on["conn_read"]) \in Data /\ plan.on["conn_read"] \in Targets
      /\ plan.on["read"] \in Targets
  BY PlanTyped, StoredTyped, SlotsListed DEF IInv
<1>2. CASE "create" \in srv.set
  BY <1>1, <1>2 DEF NewConn, Connection
<1>3. CASE "create" \notin srv.set
  <2>1. plan.late \/ plan.on["conn"] = None
    <3>1. plan.late \in BOOLEAN BY PlanTyped DEF IInv
    <3>2. ~plan.late /\ plan.on["conn"] # None => Sets("conn") \subseteq srv.set
      BY SlotsListed DEF IInv, SrvKept, Registered
    <3> QED BY <1>3, <3>1, <3>2 DEF Sets
  <2>2. SrvTarget("read") \in {None, plan.on["read"]} BY DEF SrvTarget
  <2>3. SrvTarget("read") \in Targets BY <1>1, <2>2 DEF Targets
  <2>4. NewConn = [ open |-> TRUE, cxx |-> FALSE, data |-> Null, on_read |-> SrvTarget("read") ]
    BY <1>3 DEF NewConn
  <2> QED BY <2>1, <2>2, <2>3, <2>4 DEF Connection, Data
<1> QED BY <1>2, <1>3

LEMMA AcceptKeeps ==
  ASSUME IInv, NEW c \in Conns, Accept(c)
  PROVE  IInv'
<1>1. /\ plan' = plan /\ srv' = srv /\ group' = group
      /\ conn' = [ conn EXCEPT ![c] = NewConn ]
      /\ calls' = SrvCall("create") \cup ConnCall("ready", NewConn)
  BY DEF Accept
<1>2. srv.state = "accepting" BY DEF Accept
<1>3. TypeOK'
  <2>1. conn' \in [ Conns -> Connection ] BY <1>1, <1>2, NewConnRight DEF IInv, TypeOK
  <2> QED BY <1>1, <2>1 DEF IInv, TypeOK
<1>4. ConnKept'
  <2>1. \A b \in Conns : conn'[b] = IF b = c THEN NewConn ELSE conn[b]
    BY <1>1 DEF IInv, TypeOK
  <2> QED BY <1>1, <1>2, <2>1, NewConnRight DEF IInv, ConnKept, Stored
<1>5. OwnObject' /\ RealConn'
  <2>1. /\ Agrees => \A k \in SrvCall("create") : k.on = k.to
        /\ \A k \in SrvCall("create") : k.real
    BY SrvCallRight DEF IInv
  <2>2. /\ Agrees => \A k \in ConnCall("ready", NewConn) : k.on = k.to
        /\ Creates => \A k \in ConnCall("ready", NewConn) : k.real
    BY <1>2, NewConnRight, ConnCallRight DEF IInv
  <2> QED BY <1>1, <2>1, <2>2, CallsFrame
<1> QED BY <1>1, <1>3, <1>4, <1>5, SrvFrame, GroupFrame DEF IInv

LEMMA ReadKeeps ==
  ASSUME IInv, NEW c \in Conns, Read(c)
  PROVE  IInv'
<1>1. /\ plan' = plan /\ srv' = srv /\ group' = group /\ conn' = conn /\ conn[c].open
      /\ calls' = Call(conn[c].on_read, conn[c].data, conn[c].cxx)
  BY DEF Read
<1>2. TypeOK' BY <1>1 DEF IInv, TypeOK
<1>3. OwnObject' /\ RealConn' BY <1>1, ReadRight, CallsFrame DEF IInv
<1> QED BY <1>1, <1>2, <1>3, SrvFrame, ConnFrame, GroupFrame DEF IInv

LEMMA CloseKeeps ==
  ASSUME IInv, NEW c \in Conns, Close(c)
  PROVE  IInv'
<1>1. /\ plan' = plan /\ srv' = srv /\ group' = group
      /\ conn' = Closed({c}) /\ calls' = CloseCalls({c}) /\ {c} \subseteq Open
  BY DEF Close, Open
<1>2. ConnKept' /\ conn' \in [ Conns -> Connection ] BY <1>1, ClosedKept DEF IInv
<1>3. TypeOK' BY <1>1, <1>2 DEF IInv, TypeOK
<1>4. OwnObject' /\ RealConn' BY <1>1, CloseCallsRight, CallsFrame DEF IInv
<1> QED BY <1>1, <1>2, <1>3, <1>4, SrvFrame, GroupFrame DEF IInv

\* The server stops for good or is destroyed, with all its connections.
LEMMA SrvEndKeeps ==
  ASSUME IInv, NEW state \in SrvStates, state # "accepting",
         srv' = [ srv EXCEPT !.state = state ],
         conn' = Closed(Open), calls' = CloseCalls(Open), plan' = plan, group' = group
  PROVE  IInv'
<1>1. ConnKept' /\ conn' \in [ Conns -> Connection ] BY ClosedKept DEF IInv
<1>2. SrvKept' /\ srv' \in [ state : SrvStates, data : Data, set : SUBSET Callbacks ]
  BY SrvStateFrame
<1>3. TypeOK' BY <1>1, <1>2 DEF IInv, TypeOK
<1>4. OwnObject' /\ RealConn' BY CloseCallsRight, CallsFrame DEF IInv
<1> QED BY <1>1, <1>2, <1>3, <1>4, GroupFrame DEF IInv

LEMMA SrvGracefulStopKeeps ==
  ASSUME IInv, SrvGracefulStop
  PROVE  IInv'
<1> DEFINE t == plan.on["stop"]
           d == StoredByStop(t, srv.data)
<1>1. /\ plan' = plan /\ group' = group /\ conn' = Closed(Open)
      /\ srv' = [ srv EXCEPT !.state = "stopped", !.data = d ]
      /\ calls' = CloseCalls(Open) \cup Call(t, d, TRUE)
  BY DEF SrvGracefulStop
<1>2. t \in Targets /\ t # None BY PlanTyped, SlotsListed DEF IInv
<1>3. /\ t \in Objects => d = t
      /\ t \notin Objects => d = srv.data
      /\ \A k \in Call(t, d, TRUE) : k.on = k.to /\ k.real
  BY <1>2, StopStores
<1> HIDE DEF d
<1>4. ConnKept' /\ conn' \in [ Conns -> Connection ] BY <1>1, ClosedKept DEF IInv
<1>5. srv \in [ state : SrvStates, data : Data, set : SUBSET Callbacks ] BY DEF IInv, TypeOK
<1>6. srv'.state = "stopped" /\ srv'.data = d /\ srv'.set = srv.set BY <1>1, <1>5
<1>7. d \in Data BY <1>3, <1>5 DEF Data
<1>8. TypeOK'
  <2>1. srv' \in [ state : SrvStates, data : Data, set : SUBSET Callbacks ]
    BY <1>1, <1>5, <1>7 DEF SrvStates
  <2> QED BY <1>1, <1>4, <2>1 DEF IInv, TypeOK
<1>9. SrvKept'
  <2>1. \A cb \in srv'.set : SrvTarget(cb)' # None
    BY <1>1, <1>6 DEF IInv, SrvKept, SrvTarget
  <2>2. t \in Objects => t \in Stores(ServerSlots, "stop") BY DEF Stores, Methods
  <2>3. srv'.set # {} => srv'.data \in Stores(ServerSlots, "stop")
    BY <1>3, <1>6, <2>2 DEF IInv, SrvKept
  <2> QED BY <1>1, <1>6, <2>1, <2>3, PlanFrame DEF SrvKept
<1>10. OwnObject' /\ RealConn'
  <2>1. /\ Agrees => \A k \in CloseCalls(Open) : k.on = k.to
        /\ Creates => \A k \in CloseCalls(Open) : k.real
    BY CloseCallsRight DEF IInv
  <2> QED BY <1>1, <1>3, <2>1, CallsFrame
<1> QED BY <1>1, <1>4, <1>8, <1>9, <1>10, GroupFrame DEF IInv
-----------------------------------------------------------------------------
(* One lemma for each action of the manager.                               *)

GroupType == [ state : GroupStates, data : Data, set : SUBSET GroupSlots ]

\* A step of the manager's own
LEMMA GroupStepKeeps ==
  ASSUME IInv, plan' = plan, srv' = srv, conn' = conn,
         group' \in GroupType, GroupKept',
         Agrees => \A k \in calls' : k.on = k.to,
         Creates => \A k \in calls' : k.real
  PROVE  IInv'
<1>1. TypeOK' BY DEF IInv, TypeOK, GroupType
<1>2. OwnObject' /\ RealConn' BY CallsFrame
<1> QED BY <1>1, <1>2, SrvFrame, ConnFrame DEF IInv

LEMMA GroupTyped ==
  ASSUME IInv
  PROVE  group \in GroupType /\ plan.on["group_stop"] \in Targets /\ plan.on["group_stop"] # None
BY PlanTyped, SlotsListed DEF IInv, TypeOK, GroupType

LEMMA GroupSetKeeps ==
  ASSUME IInv, NEW slot \in GroupSlots, GroupSet(slot)
  PROVE  IInv'
<1>1. plan' = plan /\ srv' = srv /\ conn' = conn /\ calls' = {} BY DEF GroupSet
<1>2. /\ slot \in Slots /\ plan.on[slot] # None
      /\ plan.late \/ group.state = "idle"
  BY SlotsListed DEF GroupSet, CanRegister
<1>3. group \in GroupType BY GroupTyped
<1>4. /\ group'.state = group.state /\ group'.data = StoredBy(slot)
      /\ group'.set = group.set \cup {slot}
  BY <1>3 DEF GroupSet, GroupType
<1>5. group' \in GroupType
  <2>1. StoredBy(slot) \in Data BY <1>2, StoredTyped DEF IInv
  <2> QED BY <1>3, <2>1 DEF GroupSet, GroupType
<1>6. GroupKept'
  <2>1. group'.data \in Stores(GroupSlots, "group_stop")
    BY <1>2, <1>4 DEF Stores, Registered
  <2>2. group'.state = "draining" => plan.late BY <1>2, <1>4
  <2> QED BY <1>1, <2>1, <2>2, PlanFrame DEF GroupKept
<1> QED BY <1>1, <1>5, <1>6, GroupStepKeeps

\* A step of the manager that leaves its field and its callbacks alone
LEMMA GroupStateFrame ==
  ASSUME IInv, plan' = plan, NEW state \in GroupStates, state # "draining",
         group' = [ group EXCEPT !.state = state ]
  PROVE  group' \in GroupType /\ GroupKept'
<1>1. group \in GroupType BY GroupTyped
<1>2. group'.state = state /\ group'.data = group.data /\ group'.set = group.set
  BY <1>1 DEF GroupType
<1> QED BY <1>1, <1>2, PlanFrame DEF IInv, GroupKept, GroupType

\* on_started of the manager casts the field.
LEMMA GroupStartRight ==
  ASSUME IInv, group.state # "draining"
  PROVE  LET called == Call(GroupTarget("group_started"), group.data, TRUE) IN
         /\ Agrees => \A k \in called : k.on = k.to
         /\ \A k \in called : k.real
<1> DEFINE t == GroupTarget("group_started")
<1>1. t \in Targets BY PlanTyped, SlotsListed DEF GroupTarget, Targets, IInv
<1>2. ASSUME Agrees, t \in Objects PROVE group.data = t
  <2>1. "group_started" \in group.set /\ t = plan.on["group_started"]
    BY <1>2, WrappersAssumption DEF GroupTarget
  <2>2. t \in Methods(IF plan.late THEN {"group_started", "group_stop"} ELSE {"group_started"})
    BY <1>2, <2>1 DEF Methods
  <2>3. group.data \in Stores(GroupSlots, "group_stop") BY <2>1 DEF IInv, GroupKept
  <2> QED BY <1>2, <2>2, <2>3, CastFinds DEF Agrees, GroupAgrees
<1> HIDE DEF t
<1> QED BY <1>1, <1>2 DEF Call, Targets, t

LEMMA GroupStartKeeps ==
  ASSUME IInv, GroupStart
  PROVE  IInv'
<1>1. /\ plan' = plan /\ srv' = srv /\ conn' = conn
      /\ group' = [ group EXCEPT !.state = "accepting" ]
      /\ calls' = Call(GroupTarget("group_started"), group.data, TRUE)
      /\ group.state # "draining"
  BY DEF GroupStart, CanStart
<1>2. group' \in GroupType /\ GroupKept'
  BY <1>1, GroupStateFrame DEF GroupStates
<1> QED BY <1>1, <1>2, GroupStartRight, GroupStepKeeps

LEMMA GroupGracefulStopKeeps ==
  ASSUME IInv, GroupGracefulStop
  PROVE  IInv'
<1> DEFINE t == plan.on["group_stop"]
           d == StoredByStop(t, group.data)
<1>1. /\ plan' = plan /\ srv' = srv /\ conn' = conn
      /\ \/ /\ group' = [ group EXCEPT !.state = "stopped", !.data = d ]
            /\ calls' = Call(t, d, TRUE)
         \/ /\ group' = [ group EXCEPT !.state = "draining", !.data = d ]
            /\ calls' = {}
  BY DEF GroupGracefulStop
<1>2. group \in GroupType /\ t \in Targets /\ t # None BY GroupTyped
<1>3. /\ t \in Objects => d = t
      /\ t \notin Objects => d = group.data
      /\ \A k \in Call(t, d, TRUE) : k.on = k.to /\ k.real
  BY <1>2, StopStores
<1> HIDE DEF d
<1>4. group'.data = d /\ group'.set = group.set BY <1>1, <1>2 DEF GroupType
<1>5. d \in Data BY <1>2, <1>3 DEF Data, GroupType
<1>6. group' \in GroupType
  <2>1. CASE group' = [ group EXCEPT !.state = "stopped", !.data = d ]
    BY <1>2, <1>5, <2>1 DEF GroupType, GroupStates
  <2>2. CASE group' = [ group EXCEPT !.state = "draining", !.data = d ]
    BY <1>2, <1>5, <2>2 DEF GroupType, GroupStates
  <2> QED BY <1>1, <2>1, <2>2
<1>7. GroupKept'
  <2>1. t \in Objects => t \in Stores(GroupSlots, "group_stop") BY DEF Stores, Methods
  <2>2. group.set # {} => d \in Stores(GroupSlots, "group_stop")
    BY <1>3, <2>1 DEF IInv, GroupKept
  <2> QED BY <1>1, <1>3, <1>4, <2>1, <2>2, PlanFrame DEF GroupKept
<1> QED BY <1>1, <1>3, <1>6, <1>7, GroupStepKeeps

\* A step that may report the end of a drain and leaves the manager not
\* draining
LEMMA GroupEndKeeps ==
  ASSUME IInv, plan' = plan, srv' = srv, conn' = conn,
         NEW state \in GroupStates, state # "draining",
         group' = [ group EXCEPT !.state = state ],
         \/ calls' = {}
         \/ /\ group.state = "draining"
            /\ calls' = Call(plan.on["group_stop"], group.data, TRUE)
  PROVE  IInv'
<1>1. group' \in GroupType /\ GroupKept' BY GroupStateFrame
<1>2. /\ Agrees => \A k \in calls' : k.on = k.to
      /\ \A k \in calls' : k.real
  BY GroupReportRight DEF IInv
<1> QED BY <1>1, <1>2, GroupStepKeeps
-----------------------------------------------------------------------------
(* The invariant.                                                          *)

LEMMA InitHolds == Init => IInv
<1> SUFFICES ASSUME Init PROVE IInv OBVIOUS
<1>1. srv.set = {} /\ srv.state # "accepting" /\ group.set = {} /\ group.state # "draining"
  BY DEF Init, Unused
<1>2. \A c \in Conns : conn[c] = NoConn BY DEF Init
<1>3. TypeOK
  <2>1. NoConn \in Connection BY DEF NoConn, Connection, Data, Targets
  <2>2. srv \in [ state : SrvStates, data : Data, set : SUBSET Callbacks ]
    BY DEF Init, Unused, SrvStates, Data
  <2>3. group \in [ state : GroupStates, data : Data, set : SUBSET GroupSlots ]
    BY DEF Init, Unused, GroupStates, Data
  <2> QED BY <2>1, <2>2, <2>3 DEF Init, TypeOK
<1>4. SrvKept /\ GroupKept BY <1>1 DEF SrvKept, GroupKept
<1>5. ConnKept BY <1>2 DEF ConnKept, NoConn
<1>6. OwnObject /\ RealConn BY DEF Init, OwnObject, RealConn
<1> QED BY <1>3, <1>4, <1>5, <1>6 DEF IInv

LEMMA NextKeeps == IInv /\ [Next]_vars => IInv'
<1> SUFFICES ASSUME IInv, [Next]_vars PROVE IInv' OBVIOUS
<1>1. ASSUME NEW slot \in ServerSlots, SrvSet(slot) PROVE IInv' BY <1>1, SrvSetKeeps
<1>2. CASE SrvStart BY <1>2, SrvStartKeeps
<1>3. CASE SrvStop
  BY <1>3, SrvEndKeeps DEF SrvStop, SrvStates
<1>4. CASE SrvGracefulStop BY <1>4, SrvGracefulStopKeeps
<1>5. CASE SrvDestroy
  BY <1>5, SrvEndKeeps DEF SrvDestroy, SrvStates
<1>6. ASSUME NEW c \in Conns, Accept(c) \/ Read(c) \/ Close(c) PROVE IInv'
  BY <1>6, AcceptKeeps, ReadKeeps, CloseKeeps
<1>7. ASSUME NEW slot \in GroupSlots, GroupSet(slot) PROVE IInv' BY <1>7, GroupSetKeeps
<1>8. CASE GroupStart BY <1>8, GroupStartKeeps
<1>9. CASE GroupGracefulStop BY <1>9, GroupGracefulStopKeeps
<1>10. CASE GroupReport
  BY <1>10, GroupEndKeeps DEF GroupReport, GroupStates
<1>11. CASE GroupStop
  BY <1>11, GroupEndKeeps DEF GroupStop, GroupEnds, GroupStates
<1>12. CASE GroupDestroy
  BY <1>12, GroupEndKeeps DEF GroupDestroy, GroupEnds, GroupStates
<1>13. CASE UNCHANGED vars
  <2>1. plan' = plan /\ srv' = srv /\ group' = group /\ conn' = conn /\ calls' = calls
    BY <1>13 DEF vars
  <2>2. TypeOK' BY <2>1 DEF IInv, TypeOK
  <2>3. OwnObject' /\ RealConn' BY <2>1, CallsFrame DEF IInv, OwnObject, RealConn
  <2> QED BY <2>1, <2>2, <2>3, SrvFrame, ConnFrame, GroupFrame DEF IInv
<1> QED BY <1>1, <1>2, <1>3, <1>4, <1>5, <1>6, <1>7, <1>8, <1>9, <1>10, <1>11, <1>12, <1>13
        DEF Next

\* The inductive invariant holds for any objects, connections and plans.
THEOREM Invariance == Spec => []IInv
BY InitHolds, NextKeeps, PTL DEF Spec

\* The state of the wrappers keeps its type.
THEOREM TypeCorrect == Spec => []TypeOK
<1>1. IInv => TypeOK BY DEF IInv
<1> QED BY <1>1, Invariance, PTL

\* Whatever the number of objects and connections, and in whatever order the
\* application registers, starts and stops: if it uses one object wherever a
\* thunk of evsrv++.h or evsrv_manager++.h casts the field data, each method
\* is called on its own object.
THEOREM ObjectsCorrect == Spec => []OwnObject
<1>1. IInv => OwnObject BY DEF IInv
<1> QED BY <1>1, Invariance, PTL

\* If the application creates every connection, as the thunks of evsrv++.h
\* take for granted, what they cast to srv_conn always is one.
THEOREM RealConnections == Spec => []RealConn
<1>1. IInv => RealConn BY DEF IInv
<1> QED BY <1>1, Invariance, PTL
=============================================================================
