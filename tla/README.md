# A verification of libevserver

libevserver is a small C library for writing TCP servers on a libev loop. It is
single-threaded: everything happens in callbacks of one loop, and what is hard
is the order in which callbacks, timers, peers and the application's own calls
come, and which objects still exist when they do.

This directory holds TLA+ models of the library, the TLC configurations that
check them on small instances, and TLAPS proofs of theorems about them for all
values of their constants. Everything is translated from the code under `src/`;
libev and the kernel are modelled from how that code uses them.

    tlc -config drain.cfg MCEvsrv          # a run, see the table below
    tlapm EvsrvProofs.tla                  # the proofs

## 1. The system

| Part | Source | State | Operations |
|---|---|---|---|
| server `evsrv` | `src/evsrv.c` | `state`, `active_connections`, the table `connections` by descriptor, the accept watcher, `on_graceful_stop` | init, bind, listen, accept, the accept callback, stop, graceful stop, destroy |
| connection `evsrv_conn` | `src/evsrv_conn.c` | `state`, socket, read buffer use, watchers `rw`, `ww`, timers `trw`, `tww`, the queue `wbuf`/`wuse`/`wlen` | init, start, stop, shutdown, close, destroy, write, the read timer calls, four callbacks |
| manager `evsrv_manager` | `src/evsrv_manager.c` | `state`, `srvs`, `active_srvs`, `stopped_srvs` | init, bind, listen, accept, stop, graceful stop, its callback, destroy |
| watcher macros | `include/common.h` | none | guarded stops of timers and I/O watchers |
| C++ wrappers `srv`, `srv_conn`, `srv_manager` | `include/*++.h` | one `data` pointer per object | forward to C, register callbacks and call the methods of objects |
| demos, examples, benchmark | `demo/`, `ex/`, `bench/` | the application's | what users of the library do |

How the parts interact:

* The **loop** calls the accept callback of the server and the read, write and
  timer callbacks of connections.
* The **server** creates connections (`on_conn_create` or itself), enters them
  in its table under their descriptor, counts them, and closes them in `stop`
  and `graceful_stop`.
* A **connection** that closes clears its table entry, decrements the counter
  of its server and, if it was the last of a graceful stop, reports the end
  with the server's callback. It can close at many places: end-of-file, errors
  of `read`, `write` or `writev`, a full buffer, a timeout, or any call of the
  application, also one made from `on_read`.
* The **manager** drives several servers and counts the callbacks of their
  graceful stops to make one report.

What is hard: the end of a graceful stop is decided in three places from two
counters and the *previous state* of whichever connection closes last; objects
are freed inside callbacks that go on afterwards; the application may call the
library from inside any callback, while a loop of the library is half done; an expired timer is not
"active"; a watcher can be initialised while libev has it in its lists; descriptors are reused; a queue longer than `IOV_MAX` is written in
batches with two separate bookkeepings; the manager counts servers without ever
resetting a counter. What makes each part right:

* server and connection: counter, table and sockets agree; nothing freed is
  used; nobody is admitted after a stop; a graceful stop reaches everyone, ends,
  and is reported once, at the end;
* write queue: bytes reach the peer in order, once, without a gap, and the
  watcher runs exactly while something is queued;
* manager: the report is made once, after the last server, and is made;
* calls from inside callbacks: the same when the outermost call has returned,
  and every call returns;
* C++ wrappers: a method is called on the object it was registered with, and
  what is cast to `srv_conn` is one.

The hazards behind these, each at its line, are listed in `PROJECT.json`.

## 2. The modules

| Module | Role |
|---|---|
| `LibEv` | timers and I/O watchers of libev, and the macros `evsrv_stop_timer` and `evsrv_stop_io` |
| `Evsrv` | one server with its connections |
| `ServerLife` | abstract: what a server promises its owner |
| `MCEvsrv`, `MCEvsrvReentry`, `MCEvsrvManager`, `MCWrappers` | values for TLC |
| `EvsrvProofs` | theorems about `Evsrv` |
| `EvsrvReentry` | the same functions cut where they call the application |
| `EvsrvReentryProofs` | the inductive invariant of nested calls and what follows from it |
| `EvsrvReentryTypeProofs` | the counter, also for applications that are not careful |
| `EvsrvReentryLifeProofs` | `EvsrvReentry` keeps the promise of `ServerLife` |
| `ConnWrite` | the write path of one connection, byte by byte |
| `ByteStream` | abstract: what the write path promises its user |
| `ConnWriteProofs` | theorems about `ConnWrite` |
| `EvsrvManager` | a group of servers, each as `ServerLife` has it |
| `EvsrvManagerProofs` | theorems about `EvsrvManager` |
| `Wrappers` | the C++ classes: objects, registrations and thunks |
| `WrappersProofs` | theorems about `Wrappers` |

`EvsrvManager` uses of a server only what `Evsrv` is shown to implement
(`ImplementsLife`), and `ServersKeepPromise` checks that the manager in turn
treats its servers as `ServerLife` allows. `Evsrv` knows of the write queue
whether it is empty; `ConnWrite` has its contents. `EvsrvReentry` has the
functions of `Evsrv` in smaller steps and without buffers, queues and timers; a
write that fails is a close there. Both keep the promise of `ServerLife`: `Evsrv`
(`ImplementsLife`) with whole functions, and `EvsrvReentry` (`CallsKeepLife`)
between any two callbacks.

### Evsrv

A step is one callback of the loop, run to its end, or one call of the API by
the application from a watcher of its own (a signal handler, a timer). That is
the granularity of the program: nothing preempts a callback. The variables are
the fields of `struct evsrv_s` and `struct evsrv_conn_s` that decide anything;
`stops` counts calls of `on_graceful_stop` since the server was bound, and
`fault` is set when the library or libev follows a pointer to a destroyed
connection, or a watcher is entered in libev's list a second time. After a fault
the behaviour is undefined and the model stops.

* Callbacks of the application are folded into the callback that makes them.
  `on_read` leaves some bytes in the buffer, or closes the connection;
  `on_graceful_close` closes or postpones (the set `F` of `GracefulStopBusy`);
  `on_conn_destroy` calls `evsrv_conn_destroy` and frees the object, at once or
  (`"defer_free"`) later.
* A watcher is modelled by what libev holds of it and by what it remembers.
  libev may have a timer in its heap and, once it has expired, its callback in the
  queue of the iteration; it may have an I/O watcher in the list of its
  descriptor. `ev_timer_init` and `ev_io_init` reset only what the watcher
  remembers: a timer whose callback they forget is `"stray"` (`"restarted"` when
  it is started again), a watcher whose list they forget is `"lost"`.
  `evsrv_conn_start` calls both without looking at `ww` or at a queued `trw`
  (`evsrv_conn.c:47`, `52`). What libev holds of a connection outlives it in the
  model too (`ConnDestroy`), and a callback made from it is a fault.
* Order within an iteration: libev queues sockets first and expired timers last,
  and empties its queue from the end, so timers run before sockets. Callbacks of
  sockets therefore wait for `NoTimerPending`. Signal handlers do not: libev's own
  watcher for signals has the highest priority, runs first and queues the handlers
  behind the timers. The same holds of periodic and check watchers and of other
  timers that expire in the same iteration. An application that calls the API from
  any of these has `"early_calls"` (`CanCall`); the demos do, for they stop the
  server in a handler of `SIGINT`. Without it calls come from sockets or between
  iterations.
* `"pause"` is `evsrv_conn_stop` and `evsrv_conn_start`, `"write_paused"` a write
  to a connection that has been stopped, which starts `ww`.
* An `EINTR` retry is not a step: it changes nothing.
* Each round of the loop in `_evsrv_accept_cb` is a step of its own. What can
  come between two rounds in the model can come between two callbacks in the
  program, and no part of the state differs.
* The sets `Peer` and `App` say what remote ends and the application may do.
  `Cooperative` names the environment in which a graceful stop works.
* The protocol bind, listen, accept is taken to be followed. `evsrv_stop` of a
  server never bound reads an uninitialised watcher; see `EvsrvManager`.

### ConnWrite

Bytes are numbered over the life of the connection, so a slot of the queue is
the interval it holds, and losing, doubling or reordering data is visible
(`Expected`). `submitted` counts what `evsrv_conn_write` was given, `sent` what
the kernel took. The three ways `_evsrv_conn_write_cb` ends are `WriteAll`,
`WritePart` and `WriteAgain`/`WriteFails`; the number of full batches of
`IOV_MAX` slots before is computed from where the write ends, and `wuse` is
decreased by the code's own, different, bookkeeping (`Kept`, `AfterBatches`).
`fault` stands for a use of freed memory, or data that overtakes lost data.
There is no action for `_evsrv_conn_write_timeout_cb`: the timer `tww` has a
repeat of zero, so `ev_timer_again` never starts it (run `write_timer`).

### EvsrvManager

The record `mgr` is `struct evsrv_manager_s`, with a counter of the reports
it makes since the group was bound. A round of a loop over `srvs` is a step
(`StopOne`, `GracefulStopOne`, `DestroyOne`; `loop` says which loop runs and
where it is), because a callback inside the loop changes what the rest of it
does. Nothing else happens between two rounds. `ManagerBind`, `ManagerListen`
and `ManagerAccept` make one step of their loops, whose rounds are independent.
Failures of bind and listen, stops of servers that were never bound, repeated
or mixed stops, and a restart of the stopped group are members of `app`, which
is chosen once from `Apps`.

`stopped_srvs` is never reset after `evsrv_manager_init`: it counts for one stop
only. `OneStop` says that one graceful stop, or the destruction, is all that is
asked for. `AtMostOneReport` and `ServersKeepPromise` hold without it; the other
properties do not, because the counter then includes servers of an earlier
stop.

### EvsrvReentry

`stack` holds the functions that have not returned, innermost first. A function
of the library is cut where it calls the application: after `on_conn_create`
("enter"), at each entry of the table in the loops of `evsrv_stop` and
`evsrv_graceful_stop`, after `on_conn_destroy` ("close"), after the stop in
`evsrv_destroy` and after `on_read`. While a callback is on top the application
may call `evsrv_stop`, `evsrv_graceful_stop`, `evsrv_conn_close` of its own or
of another connection, `evsrv_destroy`, or start the server again (`"abort"` is
a stop during a graceful stop); the calls nest, up to `MaxDepth` functions. `may`, chosen once from `Profiles`, says from
which callback the application makes which calls, and which of
`on_conn_create` and `on_conn_destroy` are set. An access to a connection or a
table that has been freed is a `fault`.

Not every call from every callback is safe, and `Careful` says which are. Every
line is needed: when `Careful` allows one of its calls, TLC finds a property
violated (for `on_graceful_close` with two calls per callback). A careful
application does not make the following calls:

| Inside | Not | Because |
|---|---|---|
| `on_conn_create` | any stop, destroy, or close of the new connection | the connection is counted but not in the table yet, and is entered there and started afterwards (`evsrv.c:184-202`) |
| `on_conn_destroy`, before `evsrv_conn_destroy` | any call | the connection is still in the table and is closed again (`evsrv_conn.c:115`) |
| `on_conn_destroy`, after it | any stop or destroy | the entry of the destroyed connection is cleared only when the callback has returned (`evsrv_conn.c:126`) |
| `on_read` | stop, destroy, close of its own connection | the read callback looks at the buffer afterwards (`evsrv_conn.c:221`) |
| `on_read` together with the end of `on_conn_destroy` | closing other connections in both | the second may be the one that is read from |
| `on_graceful_close` | closing other connections, stop, destroy | the loop and `evsrv_conn_close` both report the end (`evsrv.c:254`) |
| `on_graceful_stop`, if a graceful stop may be cut short by `evsrv_stop` | start or destroy | it is called inside the loop of `evsrv_stop`, which then goes on, and writes its state last (`evsrv.c:221-224`) |

and if it sets `on_conn_create` it sets `on_conn_destroy` too. `TypeOK` needs only
this last condition: without it the objects are never destroyed, a connection
can be closed again and again, and the counter goes below zero. `CallsReturn` is
also checked for the application that calls everything.

For `ServerLife` a connection is open until it has been taken off the counter
(`LifeOpen`). There is one exception: when the loop of `evsrv_graceful_stop` (or
the `on_graceful_close` it calls) closes the last connection of a drain,
`evsrv_conn_close` counts down to zero but leaves the report to the loop, which
looks at the counter only when the close has returned (`evsrv.c:254`). In
between the server is draining without a connection; that connection is open
until the loop has counted. `Restart` is bind, listen and accept in one, which
are two steps of `ServerLife`.

### Wrappers

The wrappers keep no state but the field `data` of the C objects: the object
whose method a thunk calls. A `plan` assigns to each callback of a server, of
the connections that the application creates, and of a manager an object, a
function or nothing; TLC takes every plan over two objects for a server and for
a group, the registrations of `ex/ex_cpp.cpp` (`Example`) among them. Callbacks
may be registered in any order, before the start or (`late`) at any time, and
the server may be stopped and started again. `calls` are the callbacks of the
last step: the object each was registered with (`to`), the one its thunk casts
(`on`), and whether the connection it passes on really is an `srv_conn`
(`real`).

`Agrees` is what an application has to do: use one object for `on_started`,
`set_on_conn` and everything else that is stored in the same server, and give
each `srv_conn` by its own `set_on_read` the object of the connection's
callbacks. `Creates` says that it creates every connection. No comment or
document says either; both follow from where the thunks look.
`srv_conn::set_on_graceful_close` cannot be used: its thunk returns `void` and
the callback type `bool`, so the template does not compile. A graceful stop of
a C++ server therefore closes all its connections at once.

## 3. The runs

| Run | Constants | Shows | States |
|---|---|---|---|
| `drain` | 3 connections and descriptors, cooperative | counter, table and sockets agree; a drain told to all, that ends and is reported once, at the end; `Evsrv` implements `ServerLife` | 282 |
| `serve` | 2 connections, read timeouts, end-of-file, errors, full buffers, shutdown, pause | bookkeeping, admission, timers, watchers and freed objects, while everything can happen except API calls that run before expired timers and writes to a stopped connection | 13031 |
| `hostile` | 2 connections, descriptors 0 and 3, every behaviour, closed connections freed at once | counter in range, room to read, no timer of a closed connection left to expire, reports only when empty | 245969 |
| `write_queue` | queue up to `IOV_MAX` = 4, messages up to 3 bytes, 9 bytes in all | the queue is intact; `ConnWrite` implements `ByteStream`, its liveness included | 498 |
| `mgr` | 3 servers with 2 connections each; bind and listen may fail, stops may be repeated or mixed, the group may be started again | counters; one report, at the end, and always; servers keep their promise | 56874 |
| `reentry` | 2 connections, one with `on_graceful_close`; 1 call per callback, at most 6 functions on the stack; the largest careful applications and one that calls everything | what holds at rest after nested calls, that every step is one of `ServerLife`, and that calls return | 55245 |
| `callbacks` | 2 objects, 2 connections, every plan for a server and every plan for a group | objects and casts | 1283827 |

Runs that end in a violation, each the short history of a disagreement between
the code and what a comment or a demo says of it (`findings` of
`PROJECT.json`):

| Run | Property | What happens |
|---|---|---|
| `lost_drain` | `DrainNotLost` | end-of-file on a connection whose closing is pending loses the callback of the graceful stop |
| `stale_timer` | `TimersOwned` | an expired read timer outlives a connection that a signal handler, as in the demos, or another early callback closes |
| `close_in_read` | `NeverUsesDestroyed` | the read callback uses the connection that `on_read` has closed |
| `long_queue_again` | `NothingLost` | `EAGAIN` after a full batch leaves freed slots in the queue |
| `write_timer` | `PartialWriteRestartsTimer` | the write timer is never running |

**Bounds.** The number of connections matters as none, one, the last but one and
the last of a drain, so three is enough for the drain; `serve` and `hostile` use
two, a connection and an other one, to afford all behaviours. Three servers
are one that fails, one that drains and one that is idle, in each order. A
buffer of two bytes can be empty, partly full and full. In `write_queue`
messages of three bytes can be written at the start, inside and at the end, and
nine bytes let a queue of four slots fill, empty and fill again. The long
queues of the violation runs need only one batch and a slot more. In `reentry`
one call per callback and six functions are enough to nest a stop, the close it
makes, the report of that close and a stop or restart in it; larger instances
(two calls and nine functions, 2.7 million states; three connections, 1.4
million) show nothing else. In `callbacks` two objects are one's own and another's, and two
connections are one that is there before a registration and one after. The one bound
in a guard of `EvsrvManager`, `stopped_srvs <= SrvsLen`, cuts nothing off: the
counter never decreases, and beyond that value no report can be made.
`MaxQueue`, `MaxLen` and `MaxBytes` bound what is written; the proofs have them
as arbitrary numbers.

**Deadlock** is not checked where the system really stops: a connection that is
closed (`ConnWrite`), a manager, a server or an object that is destroyed
(`EvsrvManager`, `EvsrvReentry`, `Wrappers`), and a fault (`hostile`,
`reentry`), after which behaviour is undefined.

**Fairness.** `FairSpec` of `Evsrv` and of `EvsrvManager` assume that the
application closes each connection whose closing it has postponed (as
`ex/ex_srv.c` does from a timer started in `on_graceful_close`, lines 15-20 and
75-85), and that the loop runs expired timers. Nothing is assumed of peers.
`FairSpec` of `ConnWrite` assumes that a `writev` called again and again makes
progress at some time, that is, that the peer reads; the loop calls it as long
as `ww` is active. `FairSpec` of `EvsrvManager` assumes also that a loop of the
manager goes on, and that of `EvsrvReentry` that every function and callback
returns (`WF_vars(Forward)`: it is one thread, and a callback that does not
return stops everything) and that `accept` finds the backlog empty at some time
(`SF_vars(AcceptEnds)`: at the beginning of a round, again and again). Fairness
of the actions themselves would prove too much:
`DrainTerminates` needs neither that data arrives nor that anyone connects.

## 4. The proofs

Checked by `tlapm` for every value of the constants, from the named
assumptions on constants of each module (`EvsrvAssumption`,
`ReentryAssumption`, `ConnWriteAssumption`, `ManagerAssumption`,
`WrappersAssumption`).

**`EvsrvProofs`.** The inductive invariant `IInv` adds to the properties what
they need to be inductive: `Counted` (the counter is the number of live
connections), `Table` (known under its own descriptor, none twice, only entry 0
may be left behind), `Phase` (connections and the accept watcher exist only in
the states that allow it; a reported server has stopped), and what libev holds:
`HeapOwned` and `Watched` (active timers and watchers belong to live
connections), `Writers` (a write watcher is lost only by `"write_paused"`),
`DeadTimers` (a queued callback is left behind only by `"early_calls"`) and
`NoTimers`; and `Room`. `Table` allows a stale entry 0 because the code does;
with it `TypeCorrect` needs no hypothesis, while `BookkeepingCorrect` excludes
descriptor 0. Every action has a lemma that it
keeps `IInv`, built on lemmas about the operators on one connection and on
cardinalities. The theorems:

| Theorem | Says | Under |
|---|---|---|
| `TypeCorrect` | `TypeOK`, in particular `active_connections` never negative | nothing |
| `AdmissionCorrect` | `AdmissionClosed` | nothing |
| `RoomCorrect` | `RoomToRead` | nothing |
| `ReportCorrect` | `ReportedWhenEmpty` | nothing |
| `BookkeepingCorrect` | `Bookkeeping` | no descriptor is 0 |
| `HeapCorrect` | `HeapOwned` | nothing |
| `TimersCorrect` | `TimersOwned` | no read timeout, or no `"early_calls"` |
| `WatchersCorrect` | `WatchersOwned` | no `"write_paused"` |
| `NoUseOfDestroyed` | `NeverUsesDestroyed` | those of `BookkeepingCorrect`, `TimersCorrect` and `WatchersCorrect`, no close in `on_read(conn, 0)`, and closed connections stay readable if `on_read` closes them |
| `ReportOnce` | `StopReportedOnce` | the graceful stop is not requested twice |
| `DrainKept`, `DrainMarksAll` | `DrainNotLost`, `DrainReachesAll` | `Cooperative` |
| `Refinement` | `ImplementsLife` | `Cooperative` |

The hypotheses are not conveniences: `lost_drain` violates `DrainNotLost` with end-of-file alone added
to a cooperative environment, `stale_timer` violates `TimersOwned` with
`"early_calls"`, `close_in_read` violates `NeverUsesDestroyed` without
`"defer_free"`, and with `"write_paused"` added to `serve` TLC finds
`WatchersOwned` and `NeverUsesDestroyed` violated. An application that stops
its server from a signal handler and has a read timeout is therefore outside
`TimersCorrect` and `NoUseOfDestroyed`, and the demos do so as soon as they set
a read timeout.

**`ConnWriteProofs`.** The invariant is `Holds`: the slots are live, not
empty, in order, each starts where the one before ends, from `sent` to
`submitted`. Its third conjunct (any two slots, not just neighbours, are in
order) follows from the others only by induction on their distance, so it is
carried along. From it follow the type of the variables (`WriteTypeCorrect`), that nothing is lost
(`QueueIntact`), that the queue fits its array (`QueueWithinArray`), that the
watcher runs exactly while data is queued (`WatcherCorrect`), that no freed slot
is used (`MemorySafe`) and that every step is one of `ByteStream`
(`StreamRefinement`), all under `OneBatch`: `MaxQueue <= IovMax`. That one
`writev` takes the whole queue is necessary; `long_queue_again` is what happens
with a second batch. (A partial write of the second batch loses the end of the
queue: `wuse` is decreased twice for the first one, at `evsrv_conn.c:317` and
`324`. `Kept` has this bookkeeping, but no property holds of it, and no run or
theorem is about a second batch that succeeds.)

**`EvsrvManagerProofs`.** The inductive invariant `IInv` has a part for every
application and one for `OneStop`. `Sound` says what a report means for
`stopped_srvs`, which is why there is at most one. `Ordered` says what the loop
that runs has already done to the servers before its index and what the servers
behind it still look like. `Matches` is what `CountersMatch` says of the counters, which is
true between any two rounds of a loop, too. That no server is
counted twice follows from `Ordered`; that the report is not early from
`Matches` and the cardinality of the stopped servers; that it is not lost from
the fact that a drained server is counted when its callback comes. One lemma for
each action, over lemmas about the cardinality of `InState` when one server
changes its state. `TypeCorrect`, `ReportOnce` and `PromisesKept` need no
hypothesis. `PromisesKept` says that whatever the manager is asked to do, each of
its servers makes steps of `ServerLife` only, so that the manager relies on its
servers for no more than `EvsrvProofs` proves of them.

**`EvsrvReentryProofs`.** No proof uses a bound: `MaxDepth`, `MaxCalls` and the
number of connections are arbitrary. The invariant `Sound` therefore speaks of
every function that has not returned:

* `Chain`: what may run somewhere above a function (`Over`) and directly above it
  (`On`). Above a loop of `evsrv_stop`, for instance, only closes with their
  callbacks and other calls of `evsrv_stop` can run, or `on_graceful_stop`,
  and that only if the application ever cuts a graceful stop short. These are
  the rules of `Careful` carried from calls to whole stacks.
* `Fits`: what a function that waits relies on when it goes on. The loop of
  `evsrv_graceful_stop` relies on every connection before its index being marked
  and every one behind it not (`FitsDrain`), a close on its entry of the table
  still being its own (`FitsClose`), the read callback on its connection
  serving (`FitsRead`), the accept callback on its new entry being free and the
  listener open (`FitsEnter`).
* `Books`: counter, table and connections agree, with the connections counted
  that a function on the stack is about to enter or to take off (`Counted`).
* `Phases`, `Freed`, `HalfClosed`, `Looping`, `Ending`: what the state says of
  the listener, the report and the freed table, and what is true when a certain
  function is on top.
* `Reached`: a drain with no loop left has a connection left, everyone is
  marked, and every close under way will see that it was marked. This is what
  makes the last one report.

Each step has a lemma that it keeps `Sound`. TLC has checked the invariant on
the instance of `reentry` and with three connections. `BooksBalance`,
`StoppedEmpty`, `FreedNeverUsed`, `EndReportedOnce` and `DrainReaches` follow for
every application that `Careful` allows; nothing else is assumed of it.

**`EvsrvReentryTypeProofs`.** For applications that are not careful only the
counter is left to say something about, and `TypeCorrect` says that it stays
between zero and the number of connections, if whoever sets `on_conn_create` sets
`on_conn_destroy`. Such an application may close a connection again while
`on_conn_destroy` looks at it, so that two functions wait to take it off. `Shaped`
says that between two such functions there is always an `on_conn_destroy` of that
connection, and `Going` counts only the function that is reached first: the
outer one is not reached without a fault, since `on_conn_destroy` then goes on
with an object that the inner close has freed. `Balance` (live and going
connections are disjoint, and the counter is their number) is inductive with
that.

**`EvsrvReentryLifeProofs`.** `NestedLife`: with `Sound` before and after a step,
every step of a careful application is one of `ServerLife` or a restart, or
changes nothing its owner sees. Most steps change nothing because `Counted` stays
as it is (`Quiet`). `LastCounted` is the lemma the exception in `LifeOpen` rests
on: a drain without a connection left has the loop that counts, or its
`on_graceful_close`, on top of the stack, and with it the name of the connection.

**`WrappersProofs`.** `SrvKept` and `GroupKept` say that once a callback is set
the field holds what *some* registration of the plan has stored; `ConnKept` that
an open connection either is an `srv_conn` with what its own `set_on_read` has
stored, or was made by the library, which happens only to an application that
registers late or no `set_on_conn`. From these and `Agrees` and `Creates`, which
are conditions on the plan alone, `OwnObject` and `RealConn` follow for every
call of a step.

**Only model-checked:** liveness (`DrainTerminates`, `StopReported`,
`CallsReturn`, and the fairness part of `ImplementsStream`). It depends on
fairness, whose `ENABLED` the prover does not know, and on arguments by
induction over a measure. Every invariant and every action property of the
passing runs is a theorem.

## 5. What is not modelled

* Addresses, socket options and logging: no state that decides anything. That
  `evsrv_bind` asks for `IPPROTO_TCP` also for a UNIX socket is a fact about the
  kernel.
* The content of messages, and unparsed bytes of the read buffer beyond their
  number.
* `SO_LINGER` with a timeout of zero: closing resets the connection and
  discards what the kernel has not sent. `sent` counts bytes the kernel took.
* In `EvsrvReentry`: shutdowns, timers and queued data; graceful stops of a
  server that is not accepting; a bind or listen that fails; `evsrv_stop` of a
  server never bound, which reads an uninitialised watcher.
* A socket that a failed `bind` or `listen` leaves open and a retry overwrites
  (`evsrv.c:87`): it is leaked, which no state of the library shows.
* Pausing a connection whose queue is not empty is in `Evsrv` but not in
  `ConnWrite`. It separates the queue from its watcher: after `evsrv_conn_start`
  the data stays unsent until something restarts `ww`, which `evsrv_conn_write`
  does not do while data is queued (`evsrv_conn.c:54`, `143`). No property of the
  runs catches this; nothing documents what should happen.
* Messages of length zero (`ConnWrite` writes at least one byte), and the
  `abort()` after `EINVAL`, which the code takes for a sign of corruption
  (`evsrv_conn.c:343`).
* Several of the listed hazards are excluded by a hypothesis where the properties
  are checked that name them: descriptor 0, a second batch, more than one stop of
  a group, a failed server that is stopped, calls from inside callbacks that
  `Careful` forbids, and wrappers used with several objects (`Agrees`). The code
  violates the properties without those hypotheses. `PROJECT.json` says so at
  each hazard.
* `int32_t active_connections` does not wrap: it is bounded by the table.
* Of the C++ wrappers the accessors and the methods that only forward to C.
* The demos, the C examples and the benchmark: applications, whose calls are
  members of `App`, `Profiles`, `Apps` and `Plans`. Two things in them are
  their own and not the library's: the framing of `ex/ex_srv.c:47-73`, and its
  timer `tw`, which `on_conn_destroy` (lines 38-45) frees without stopping it.

## 6. Plan

Done: `Evsrv` and `EvsrvReentry` with `ServerLife`, `ConnWrite` with
`ByteStream`, `EvsrvManager`, `Wrappers`, and the theorems above. Next, in this order:

1. *Composition.* `EvsrvManager` over servers of `Evsrv` itself (`INSTANCE`
   per server) in place of `ServerLife`, two servers with two connections.
2. *ConnWrite with pause*, `wnow` as state and `evsrv_conn_stop`/`start` with
   data queued; liveness of the queue when the connection is started again.
3. *Shutdowns and read timeouts in `EvsrvReentry`*, which change the state a
   nested close finds.
4. *Proofs*: a queue of several batches for the steps that are right
   (`WriteAll`); a measure that every step of `Forward` lowers, the safety half
   of `CallsReturn`.
