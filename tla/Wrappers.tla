------------------------------ MODULE Wrappers ------------------------------
(***************************************************************************)
(* The C++ classes srv, srv_conn and srv_manager (src/include/*++.h).      *)
(*                                                                         *)
(* A method is registered with its object, but the C functions know no     *)
(* objects: the wrappers keep it in the field data of the server, the      *)
(* connection or the manager, one for all callbacks, and the thunk of each *)
(* callback casts what it finds there.  A connection callback casts the    *)
(* evsrv_conn to srv_conn, too, which it is only if the application has    *)
(* created it.  The life of the server is that of module Evsrv, seen from  *)
(* where callbacks are called.                                             *)
(***************************************************************************)
CONSTANTS
  Objects,   \* objects whose methods are registered
  Conns,     \* connections
  Null,      \* the NULL pointer
  Function,  \* a callback that is a function and needs no object
  None,      \* no callback
  Plans      \* the applications

Targets == Objects \cup {Function, None}
Data == Objects \cup {Null}

\* The callbacks an application registers with a server ("stop" is that of
\* graceful_stop), with the connections it creates, and with a manager.
ServerSlots == {"started", "read", "ready", "conn"}
GroupSlots == {"group_started"}
Slots == ServerSlots \cup GroupSlots \cup {"stop", "conn_read", "group_stop"}

\* A plan says which classes are used and who is registered; user_data goes
\* with a function of set_on_started.  A late application registers callbacks
\* at any time, the others before the first start.
Classes == { "srv", "srv_manager" }
Plan == [ uses : SUBSET Classes, on : [ Slots -> Targets ], user_data : Data, late : BOOLEAN ]

\* The example ex_cpp.cpp
Example ==
  [ uses |-> {"srv"}, user_data |-> Null, late |-> FALSE,
    on |-> [ slot \in Slots |-> IF slot = "ready" THEN None ELSE Function ] ]

ASSUME WrappersAssumption ==
  /\ Null # Function /\ Function # None /\ None # Null
  /\ {Null, Function, None} \cap Objects = {}
  /\ Plans \subseteq Plan
  /\ \A p \in Plans : None \notin {p.on["stop"], p.on["group_stop"]}

VARIABLES
  plan,   \* the application
  srv,    \* the server: its state, data, and the C callbacks that are set
  group,  \* the same of a manager
  conn,   \* the connections
  calls   \* the calls of callbacks in the last step

vars == << plan, srv, group, conn, calls >>
-----------------------------------------------------------------------------
(* Storing objects and calling back.                                       *)

SrvStates == { "idle", "accepting", "stopped", "destroyed" }
GroupStates == { "idle", "accepting", "draining", "stopped", "destroyed" }
Callbacks == { "started", "read", "ready", "create", "destroy" }

\* cxx: is the evsrv_conn part of an srv_conn?
Connection == [ open : BOOLEAN, cxx : BOOLEAN, data : Data, on_read : Targets ]
NoConn == [ open |-> FALSE, cxx |-> FALSE, data |-> Null, on_read |-> None ]

\* What a registration leaves in data
KeepsTarget(t) == t
Stored(t) == IF t \in Objects THEN t ELSE Null
StoredBy(slot) ==
  IF slot \in {"started", "group_started"} /\ plan.on[slot] = Function THEN plan.user_data
  ELSE Stored(plan.on[slot])

\* graceful_stop of a function stores nothing.
StopClears(t, d) == Stored(t)
StoredByStop(t, d) == IF t \in Objects THEN t ELSE d

\* The C callbacks a registration sets
DestroyOnly(slot) == IF slot = "conn" THEN {"destroy"} ELSE {slot}
Sets(slot) == IF slot = "conn" THEN {"create", "destroy"} ELSE {slot}

\* A call of the callback with the target t: the object it was registered
\* with, the one its thunk casts, and whether the connection it passes on is
\* what it is cast to.
Call(t, d, real) ==
  IF t = None THEN {}
  ELSE { [ to |-> t, on |-> IF t = Function THEN Function ELSE d, real |-> real ] }

SrvTarget(cb) ==
  IF cb \notin srv.set THEN None
  ELSE plan.on[IF cb \in {"create", "destroy"} THEN "conn" ELSE cb]

SrvCall(cb) == Call(SrvTarget(cb), srv.data, TRUE)
ConnCall(cb, k) == Call(SrvTarget(cb), k.data, k.cxx)

Unused(class) ==
  [ state |-> IF class \in plan.uses THEN "idle" ELSE "destroyed", data |-> Null, set |-> {} ]

Init ==
  /\ plan \in Plans
  /\ srv = Unused("srv") /\ group = Unused("srv_manager")
  /\ conn = [ c \in Conns |-> NoConn ]
  /\ calls = {}

\* The holder may be given callbacks, and started.
CanRegister(h, slot) ==
  /\ plan.on[slot] # None /\ h.state # "destroyed"
  /\ plan.late \/ h.state = "idle"
CanStart(h, slots) ==
  /\ h.state \in {"idle", "stopped"}
  /\ plan.late \/ \A slot \in slots : plan.on[slot] = None \/ Sets(slot) \subseteq h.set
-----------------------------------------------------------------------------
(* class srv                                                               *)

\* set_on_started, set_on_read, set_on_conn_ready, set_on_conn
SrvSet(slot) ==
  /\ CanRegister(srv, slot)
  /\ srv' = [ srv EXCEPT !.data = StoredBy(slot), !.set = @ \cup Sets(slot) ]
  /\ calls' = {}
  /\ UNCHANGED << plan, group, conn >>

\* start; when bind or listen fails nothing is called.
SrvStart ==
  /\ CanStart(srv, ServerSlots)
  /\ srv' = [ srv EXCEPT !.state = "accepting" ]
  /\ calls' = SrvCall("started")
  /\ UNCHANGED << plan, group, conn >>

\* The application's on_conn_create constructs an srv_conn and may call its
\* set_on_read; otherwise the library makes an evsrv_conn of its own.
NewConn ==
  IF "create" \in srv.set
  THEN [ open |-> TRUE, cxx |-> TRUE,
         data |-> Stored(plan.on["conn_read"]), on_read |-> plan.on["conn_read"] ]
  ELSE [ open |-> TRUE, cxx |-> FALSE, data |-> Null, on_read |-> SrvTarget("read") ]

Accept(c) ==
  /\ srv.state = "accepting" /\ ~conn[c].open
  /\ conn' = [ conn EXCEPT ![c] = NewConn ]
  /\ calls' = SrvCall("create") \cup ConnCall("ready", NewConn)
  /\ UNCHANGED << plan, srv, group >>

Read(c) ==
  /\ conn[c].open
  /\ calls' = Call(conn[c].on_read, conn[c].data, conn[c].cxx)
  /\ UNCHANGED << plan, srv, group, conn >>

Open == { c \in Conns : conn[c].open }
Closed(C) == [ c \in Conns |-> IF c \in C THEN NoConn ELSE conn[c] ]
CloseCalls(C) == UNION { ConnCall("destroy", conn[c]) : c \in C }

\* close; on_conn_destroy deletes the object, whose destructor cleans it.
Close(c) ==
  /\ conn[c].open
  /\ conn' = Closed({c})
  /\ calls' = CloseCalls({c})
  /\ UNCHANGED << plan, srv, group >>

SrvStop ==
  /\ srv.state = "accepting"
  /\ srv' = [ srv EXCEPT !.state = "stopped" ]
  /\ conn' = Closed(Open)
  /\ calls' = CloseCalls(Open)
  /\ UNCHANGED << plan, group >>

\* No srv_conn has an on_graceful_close: every connection is closed at once.
SrvGracefulStop ==
  LET d == StoredByStop(plan.on["stop"], srv.data) IN
  /\ srv.state = "accepting"
  /\ srv' = [ srv EXCEPT !.state = "stopped", !.data = d ]
  /\ conn' = Closed(Open)
  /\ calls' = CloseCalls(Open) \cup Call(plan.on["stop"], d, TRUE)
  /\ UNCHANGED << plan, group >>

\* ~srv
SrvDestroy ==
  /\ srv.state # "destroyed"
  /\ srv' = [ srv EXCEPT !.state = "destroyed" ]
  /\ conn' = Closed(Open)
  /\ calls' = CloseCalls(Open)
  /\ UNCHANGED << plan, group >>
-----------------------------------------------------------------------------
(* class srv_manager                                                       *)

GroupSet(slot) ==
  /\ CanRegister(group, slot)
  /\ group' = [ group EXCEPT !.data = StoredBy(slot), !.set = @ \cup {slot} ]
  /\ calls' = {}
  /\ UNCHANGED << plan, srv, conn >>

GroupTarget(slot) == IF slot \in group.set THEN plan.on[slot] ELSE None

GroupStart ==
  /\ CanStart(group, GroupSlots)
  /\ group' = [ group EXCEPT !.state = "accepting" ]
  /\ calls' = Call(GroupTarget("group_started"), group.data, TRUE)
  /\ UNCHANGED << plan, srv, conn >>

\* The end is reported at once, or when the servers have drained.
GroupGracefulStop ==
  LET d == StoredByStop(plan.on["group_stop"], group.data) IN
  /\ group.state = "accepting"
  /\ \/ /\ group' = [ group EXCEPT !.state = "stopped", !.data = d ]
        /\ calls' = Call(plan.on["group_stop"], d, TRUE)
     \/ /\ group' = [ group EXCEPT !.state = "draining", !.data = d ]
        /\ calls' = {}
  /\ UNCHANGED << plan, srv, conn >>

GroupReport ==
  /\ group.state = "draining"
  /\ group' = [ group EXCEPT !.state = "stopped" ]
  /\ calls' = Call(plan.on["group_stop"], group.data, TRUE)
  /\ UNCHANGED << plan, srv, conn >>

\* stop and ~srv_manager: servers that still drain may end it by that.
GroupEnds(state) ==
  /\ group' = [ group EXCEPT !.state = state ]
  /\ calls' \in { {}, IF group.state = "draining"
                      THEN Call(plan.on["group_stop"], group.data, TRUE) ELSE {} }
  /\ UNCHANGED << plan, srv, conn >>

GroupStop == group.state \in {"accepting", "draining"} /\ GroupEnds("stopped")
GroupDestroy == group.state # "destroyed" /\ GroupEnds("destroyed")
-----------------------------------------------------------------------------
Next ==
  \/ \E slot \in ServerSlots : SrvSet(slot)
  \/ SrvStart \/ SrvStop \/ SrvGracefulStop \/ SrvDestroy
  \/ \E c \in Conns : Accept(c) \/ Read(c) \/ Close(c)
  \/ \E slot \in GroupSlots : GroupSet(slot)
  \/ GroupStart \/ GroupGracefulStop \/ GroupReport \/ GroupStop \/ GroupDestroy

Spec == Init /\ [][Next]_vars
-----------------------------------------------------------------------------
(* Properties.                                                             *)

Methods(slots) == { plan.on[slot] : slot \in slots } \cap Objects
Registered(slots) == { slot \in slots : plan.on[slot] # None }

\* Callbacks that find their object in d: it must be all that is stored there.
OneObject(casts, stores) == casts = {} \/ \E o \in Objects : casts \cup stores = {o}

Stores(slots, stop) ==
  { StoredBy(slot) : slot \in Registered(slots) } \cup Methods({stop})

ServerAgrees == OneObject(Methods({"started", "conn"}), Stores(ServerSlots, "stop"))

\* The callbacks of connections that are registered with the server
ConnAgrees ==
  Methods({"read", "ready", "conn"}) # {} =>
    /\ ~plan.late /\ plan.on["conn"] # None
    /\ Methods({"ready", "conn"}) \subseteq Methods({"conn_read"})

GroupAgrees ==
  OneObject(Methods(IF plan.late THEN {"group_started", "group_stop"} ELSE {"group_started"}),
            Stores(GroupSlots, "group_stop"))

Agrees == ServerAgrees /\ ConnAgrees /\ GroupAgrees

\* The application creates every connection.
Creates ==
  Registered({"read", "ready", "conn"}) # {} => ~plan.late /\ plan.on["conn"] # None

TypeOK ==
  /\ plan \in Plans
  /\ srv \in [ state : SrvStates, data : Data, set : SUBSET Callbacks ]
  /\ group \in [ state : GroupStates, data : Data, set : SUBSET GroupSlots ]
  /\ conn \in [ Conns -> Connection ]

\* Every callback of an application that uses one object wherever its thunks
\* look for one is called on the object it was registered with, in whatever
\* order callbacks are registered and the server is stopped and started again
\* (evsrv++.h:117, 128-147, 151, 195, evsrv_manager++.h:49, 69, 81).
OwnObject == Agrees => \A k \in calls : k.on = k.to

\* What is cast to srv_conn is one (evsrv++.h:151, 156, 167, 172, 196, 201).
RealConn == Creates => \A k \in calls : k.real
=============================================================================
