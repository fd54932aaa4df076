------------------------- MODULE EvsrvReentryProofs -------------------------
(***************************************************************************)
(* What is true of EvsrvReentry for any number of connections, for every   *)
(* careful application, and however deeply it calls the library from its   *)
(* callbacks.                                                              *)
(*                                                                         *)
(* The invariant speaks of every function that has not returned: which     *)
(* functions may run above it (Chain), and what it may rely on when it     *)
(* goes on (Fits).                                                         *)
(***************************************************************************)
EXTENDS EvsrvReentry, FiniteSetTheorems, SequenceTheorems,
        WellFoundedInduction, TLAPS

\* The functions and callbacks of the stack q
Frames(q) == { q[i] : i \in 1 .. Len(q) }

\* Callbacks from which an application may ask for everything
FreeCbs == { "on_started", "on_conn_ready", "on_graceful_stop" }
\* What runs while connections are being closed
Closing == { "close", "on_conn_destroy", "destroyed" }
\* The loop of evsrv_graceful_stop, and evsrv_stop and what waits for it
Drains == { "graceful_stop", "count" }
Stops == { "stop", "destroy" }

\* Does the application m ever cut a graceful stop short?
Aborts(m) == \E p \in m : p[2] = "abort"

\* What may run somewhere above the frame y
Over(m, x, y) ==
  /\ y.at # "on_conn_destroy"
  /\ y.at \in {"close", "destroyed", "on_conn_create", "on_read", "on_graceful_close", "count"} =>
       x.at \in Closing
  /\ y.at = "enter" => x.at \in Closing \cup {"on_conn_create"}
  /\ y.at = "read_cb" => x.at \in Closing \cup {"on_read"}
  /\ y.at = "graceful_stop" => x.at \in Closing \cup {"on_graceful_close"}
  /\ y.at \in Stops => \/ x.at \in Closing \cup {"stop"}
                       \/ x.at = "on_graceful_stop" /\ Aborts(m)
  /\ y.at \in FreeCbs =>
       x.at \notin {"accept_cb", "enter", "read_cb", "on_read", "on_conn_create", "on_conn_ready"}
  /\ y.at = "accept_cb" =>
       x.at \notin {"accept_cb", "enter", "read_cb", "on_read", "on_conn_create"}
  /\ y.at = "on_graceful_stop" /\ x.at = "on_started" => ~Aborts(m)
  /\ y.at \in {"on_read", "read_cb"} /\ x.at \in Closing => << "on_read", "close_other" >> \in m
  /\ x.at = "close" /\ y.at = "close" => x.conn # y.conn

\* Callbacks that belong to the function below them
Owned == { "on_conn_destroy", "destroyed", "on_conn_create", "on_read", "on_graceful_close" }

\* What may run directly above the frame y
On(x, y) ==
  /\ x.at = "on_conn_destroy" => y.at = "close" /\ y.conn = x.conn
  /\ x.at = "destroyed" => y.at = "close"
  /\ x.at = "on_conn_create" => y.at = "enter"
  /\ x.at = "on_read" => y.at = "read_cb" /\ y.conn = x.conn
  /\ x.at = "on_graceful_close" => y.at = "graceful_stop" /\ y.conn = x.conn
  /\ x.at = "close" => /\ y.at # "graceful_stop"
                       /\ y.at \in {"count", "on_graceful_close"} =>
                            x.conn = y.conn /\ x.prev # "PENDING_CLOSE"
  /\ y.at = "destroy" => x.at = "stop"

Chain(m, q) ==
  /\ \A i, j \in 1 .. Len(q) : i < j => Over(m, q[i], q[j])
  /\ \A i, j \in 1 .. Len(q) : j = i + 1 => On(q[i], q[j])
  /\ \A i \in 1 .. Len(q) : i = Len(q) => q[i].at \notin Owned

\* The functions that are about to put a connection into the table, or to take
\* it out and off the counter
Work(q) == { x \in Frames(q) : x.at \in {"enter", "close"} }
Leaving(q) == { x.conn : x \in { y \in Work(q) : y.at = "close" } }
Counted == Live \cup Leaving(stack)

InDrain(q) == \E x \in Frames(q) : x.at \in Drains

Serves(c) == conn[c].state \in {"ACTIVE", "PENDING_CLOSE"}
-----------------------------------------------------------------------------
(* What a function relies on.                                              *)

FitsEnter(x) == x.at = "enter" =>
  /\ x.conn \in Conns /\ x.n \in Fds
  /\ conn[x.conn].state = "CREATED" /\ conn[x.conn].sock = x.n
  /\ connections[x.n] = None
  /\ sock = TRUE

FitsClose(x) == x.at = "close" =>
  /\ x.conn \in Conns /\ x.n \in Fds
  /\ connections[x.n] = x.conn
  /\ conn[x.conn].state \in {"NONE", "STOPPED"}

FitsRead(x) == x.at = "read_cb" => x.conn \in Conns /\ Serves(x.conn)

FitsDestroy(x) == x.at = "on_conn_destroy" => x.conn \in Conns /\ conn[x.conn].state = "STOPPED"

FitsStop(x) ==
  /\ x.at \in Stops => sock = FALSE /\ (state = "GRACEFULLY_STOPPING" => Aborts(may))
  /\ x.at = "stop" => \A c \in Conns : Serves(c) => conn[c].sock >= x.n

\* The connection x.conn is the one its loop has come to.
FitsDrain(x) ==
  /\ x.at \in Drains =>
       /\ state = "GRACEFULLY_STOPPING"
       /\ \A c \in Conns : Serves(c) => /\ conn[c].sock >= x.n => conn[c].state = "ACTIVE"
                                        /\ conn[c].sock < x.n /\ c # x.conn => conn[c].state = "PENDING_CLOSE"
       /\ x.conn \in Conns /\ Serves(x.conn) => conn[x.conn].sock < x.n
  /\ x.at = "count" => x.conn \in Conns /\ ~Serves(x.conn)
  /\ x.at = "on_graceful_close" => x.conn \in Conns /\ conn[x.conn].state # "PENDING_CLOSE"

FitsAbort(x) == x.at = "on_graceful_stop" /\ Aborts(may) => state = "STOPPED"

Fits(x) == /\ FitsEnter(x) /\ FitsClose(x) /\ FitsRead(x) /\ FitsDestroy(x)
           /\ FitsStop(x) /\ FitsDrain(x) /\ FitsAbort(x)
-----------------------------------------------------------------------------
(* The inductive invariant.                                                *)

Typed ==
  /\ state \in { "IDLE", "ACCEPTING", "GRACEFULLY_STOPPING", "STOPPED" }
  /\ active_connections \in Int
  /\ connections \in [ Fds -> Conns \cup {None} ]
  /\ accept_rw \in BOOLEAN /\ sock \in BOOLEAN /\ gone \in BOOLEAN /\ fault = FALSE
  /\ conn \in [ Conns -> [ state : ConnStates, sock : Fds \cup {-1} ] ]
  /\ stack \in Seq(Frame)
  /\ told \in Nat
  /\ may \in Profiles

\* Counter, table and connections, the connections on their way included
Books ==
  /\ active_connections = Cardinality(Counted)
  /\ \A c \in Conns :
       /\ conn[c].state # "NONE" => conn[c].sock \in Fds
       /\ conn[c].state = "CREATED" => \E x \in Work(stack) : x.at = "enter" /\ x.conn = c
       /\ Serves(c) => connections[conn[c].sock] = c
  /\ \A f \in Fds : connections[f] # None =>
       \/ Serves(connections[f]) /\ conn[connections[f]].sock = f
       \/ \E x \in Work(stack) : x.at = "close" /\ x.n = f

\* A connection is half closed only while on_conn_destroy looks at it.
HalfClosed == \A c \in Conns : conn[c].state = "STOPPED" =>
  stack # << >> /\ Top.at = "on_conn_destroy" /\ Top.conn = c

Phases ==
  /\ accept_rw = sock
  /\ sock = TRUE => state = "ACCEPTING"
  /\ state \in {"IDLE", "STOPPED"} => Counted = {}
  /\ told \in {0, 1} /\ (told = 1 => state = "STOPPED")
  /\ \A c \in Conns : conn[c].state = "PENDING_CLOSE" => state = "GRACEFULLY_STOPPING"

Freed == gone = TRUE =>
  state = "STOPPED" /\ \A x \in Frames(stack) : x.at \in FreeCbs \cup {"accept_cb"}

\* The loop of evsrv_graceful_stop goes on only if a connection is left.
Looping == stack # << >> /\ Top.at = "graceful_stop" =>
  Counted # {} /\ (Top.conn \in Conns => conn[Top.conn].state # "ACTIVE")

\* evsrv_destroy goes on once evsrv_stop has returned.
Ending == stack # << >> /\ Top.at = "destroy" => state = "STOPPED"

\* When no such loop is left, every connection has been reached.
Reached == state = "GRACEFULLY_STOPPING" /\ ~InDrain(stack) =>
  /\ Counted # {}
  /\ \A c \in Conns : conn[c].state # "ACTIVE"
  /\ \A x \in Work(stack) : x.at = "close" => x.prev = "PENDING_CLOSE"

Sound ==
  /\ Typed /\ Chain(may, stack) /\ (\A x \in Frames(stack) : Fits(x))
  /\ Books /\ HalfClosed /\ Phases /\ Freed /\ Looping /\ Ending /\ Reached

IInv == Careful => Sound
-----------------------------------------------------------------------------
(* The stack: what pushing a frame adds, and what the top says of the rest. *)

\* x, put on the functions q
LEMMA Push ==
  ASSUME NEW q \in Seq(Frame), NEW x \in Frame
  PROVE  /\ << x >> \o q \in Seq(Frame) /\ << x >> \o q # << >>
         /\ Head(<< x >> \o q) = x /\ Tail(<< x >> \o q) = q
         /\ Frames(<< x >> \o q) = {x} \cup Frames(q)
<1> DEFINE s == << x >> \o q
<1>1. /\ s \in Seq(Frame) /\ s # << >> /\ Head(s) = x /\ Tail(s) = q /\ Len(s) = Len(q) + 1
      /\ s[1] = x /\ \A i \in 1 .. Len(q) : s[i + 1] = q[i]
  OBVIOUS
<1> HIDE DEF s
<1>2. Frames(s) \subseteq {x} \cup Frames(q)
  <2> SUFFICES ASSUME NEW i \in 1 .. Len(s), i # 1 PROVE s[i] \in Frames(q)
    BY <1>1 DEF Frames
  <2>1. i - 1 \in 1 .. Len(q) /\ s[(i - 1) + 1] = q[i - 1]
    BY <1>1
  <2> QED BY <2>1 DEF Frames
<1>3. {x} \cup Frames(q) \subseteq Frames(s)
  <2>1. 1 \in 1 .. Len(s) /\ s[1] = x
    BY <1>1
  <2>2. ASSUME NEW i \in 1 .. Len(q) PROVE q[i] \in Frames(s)
    <3>1. i + 1 \in 1 .. Len(s) /\ s[i + 1] = q[i]
      BY <1>1
    <3> QED BY <3>1 DEF Frames
  <2> QED BY <2>1, <2>2 DEF Frames
<1> QED BY <1>1, <1>2, <1>3 DEF s

\* The functions of the stack q, its top and the rest
LEMMA Pop ==
  ASSUME NEW q \in Seq(Frame), q # << >>
  PROVE  /\ Head(q) \in Frame /\ Tail(q) \in Seq(Frame)
         /\ q = << Head(q) >> \o Tail(q)
         /\ Frames(q) = {Head(q)} \cup Frames(Tail(q))
<1>1. Head(q) \in Frame /\ Tail(q) \in Seq(Frame) /\ q = << Head(q) >> \o Tail(q)
  OBVIOUS
<1>2. Frames(<< Head(q) >> \o Tail(q)) = {Head(q)} \cup Frames(Tail(q))
  BY <1>1, Push
<1> QED BY <1>1, <1>2

\* The empty stack has no frames;
LEMMA NoFrames == Frames(<< >>) = {} /\ << >> \in Seq(Frame)
BY DEF Frames

\* what is on a stack is a frame;
LEMMA InFrame == ASSUME NEW q \in Seq(Frame) PROVE Frames(q) \subseteq Frame
BY DEF Frames

\* a stack without frames is empty.
LEMMA EmptyStack == ASSUME NEW q \in Seq(Frame), Frames(q) = {} PROVE q = << >>
<1>1. CASE q # << >>
  BY <1>1, Pop
<1> QED BY <1>1

\* Two frames at once are one after the other.
LEMMA Joined ==
  ASSUME NEW x \in Frame, NEW y \in Frame
  PROVE  /\ << x >> \in Seq(Frame) /\ << y >> \in Seq(Frame)
         /\ << x, y >> = << x >> \o << y >>
<1> DEFINE s == << x, y >>
           t == << x >> \o << y >>
<1>1. << x >> \in Seq(Frame) /\ << y >> \in Seq(Frame)
  OBVIOUS
<1>2. s \in Seq(Frame) /\ Len(s) = 2 /\ s[1] = x /\ s[2] = y
  OBVIOUS
<1>3. t \in Seq(Frame) /\ Len(t) = 2 /\ t[1] = x /\ t[2] = y
  BY <1>1
<1> HIDE DEF s, t
<1>4. s = t
  <2>1. \A i \in 1 .. Len(s) : s[i] = t[i]
    BY <1>2, <1>3
  <2> QED BY <1>2, <1>3, <2>1, SeqEqual
<1> QED BY <1>1, <1>4 DEF s, t

\* Two frames pushed at once
LEMMA PushTwo ==
  ASSUME NEW q \in Seq(Frame), NEW x \in Frame, NEW y \in Frame
  PROVE  << x, y >> \o q = << x >> \o (<< y >> \o q)
<1>1. << x >> \in Seq(Frame) /\ << y >> \in Seq(Frame) /\ << x, y >> = << x >> \o << y >>
  BY Joined
<1>2. (<< x >> \o << y >>) \o q = << x >> \o (<< y >> \o q)
  BY <1>1, ConcatAssociative
<1> QED BY <1>1, <1>2

\* The forms in which EvsrvReentry puts one or two frames on a stack
LEMMA PushJoined ==
  ASSUME NEW q \in Seq(Frame), NEW x \in Frame, NEW y \in Frame
  PROVE  /\ (<< x >> \o << y >>) \o q = << x >> \o (<< y >> \o q)
         /\ (<< >> \o << y >>) \o q = << y >> \o q
         /\ << x >> \o << >> = << x >>
         /\ << x, y >> = << x >> \o (<< y >> \o << >>)
<1>1. /\ << x >> \in Seq(Frame) /\ << y >> \in Seq(Frame) /\ << y >> \o q \in Seq(Frame)
      /\ << x, y >> = << x >> \o << y >>
  BY Joined
<1>2. (<< x >> \o << y >>) \o q = << x >> \o (<< y >> \o q)
  BY <1>1, ConcatAssociative
<1>3. /\ << >> \o << y >> = << y >>
      /\ << x >> \o << >> = << x >> /\ << y >> \o << >> = << y >>
  BY <1>1, ConcatEmptySeq
<1> QED BY <1>1, <1>2, <1>3

\* What work and which connections are on the way once x is on q
LEMMA PushWork ==
  ASSUME NEW q \in Seq(Frame), NEW x \in Frame
  PROVE  /\ x.at \in {"enter", "close"} => Work(<< x >> \o q) = {x} \cup Work(q)
         /\ x.at \notin {"enter", "close"} => Work(<< x >> \o q) = Work(q)
         /\ x.at = "close" => Leaving(<< x >> \o q) = {x.conn} \cup Leaving(q)
         /\ x.at # "close" => Leaving(<< x >> \o q) = Leaving(q)
         /\ InDrain(<< x >> \o q) <=> x.at \in Drains \/ InDrain(q)
<1> DEFINE s == << x >> \o q
<1>1. Frames(s) = {x} \cup Frames(q)
  BY Push
<1> HIDE DEF s
<1>2. /\ x.at \in {"enter", "close"} => Work(s) = {x} \cup Work(q)
      /\ x.at \notin {"enter", "close"} => Work(s) = Work(q)
  BY <1>1 DEF Work
<1>3. x.at = "close" => Leaving(s) = {x.conn} \cup Leaving(q)
  BY <1>2 DEF Leaving, Work
<1>4. x.at # "close" => Leaving(s) = Leaving(q)
  BY <1>2 DEF Leaving, Work
<1>5. InDrain(s) <=> x.at \in Drains \/ InDrain(q)
  BY <1>1 DEF InDrain
<1> QED BY <1>2, <1>3, <1>4, <1>5 DEF s

\* May x run on the functions q?
MayRun(m, x, q) ==
  /\ \A y \in Frames(q) : Over(m, x, y)
  /\ q # << >> => On(x, Head(q))
  /\ q = << >> => x.at \notin Owned

\* Pushing keeps the chain if the new frame may run there;
LEMMA PushChain ==
  ASSUME NEW m, NEW q \in Seq(Frame), NEW x \in Frame, Chain(m, q), MayRun(m, x, q)
  PROVE  Chain(m, << x >> \o q)
<1> DEFINE s == << x >> \o q
<1>1. /\ s \in Seq(Frame) /\ Len(s) = Len(q) + 1 /\ s[1] = x
      /\ \A i \in 1 .. Len(q) : s[i + 1] = q[i]
      /\ Len(q) \in Nat /\ (q # << >> => Len(q) > 0 /\ Head(q) = q[1])
      /\ (q = << >> => Len(q) = 0)
  OBVIOUS
<1> HIDE DEF s
<1>2. ASSUME NEW i \in 1 .. Len(s), i # 1
      PROVE  i - 1 \in 1 .. Len(q) /\ s[i] = q[i - 1]
  BY <1>1, <1>2
<1>3. \A i, j \in 1 .. Len(s) : i < j => Over(m, s[i], s[j])
  <2> SUFFICES ASSUME NEW i \in 1 .. Len(s), NEW j \in 1 .. Len(s), i < j
               PROVE  Over(m, s[i], s[j])
    OBVIOUS
  <2>1. j - 1 \in 1 .. Len(q) /\ s[j] = q[j - 1]
    BY <1>2
  <2>2. CASE i = 1
    <3>1. s[j] \in Frames(q)
      BY <2>1 DEF Frames
    <3> QED BY <1>1, <2>2, <3>1 DEF MayRun
  <2>3. CASE i # 1
    <3>1. i - 1 \in 1 .. Len(q) /\ s[i] = q[i - 1] /\ i - 1 < j - 1
      BY <1>2, <2>3
    <3> QED BY <2>1, <3>1 DEF Chain
  <2> QED BY <2>2, <2>3
<1>4. \A i, j \in 1 .. Len(s) : j = i + 1 => On(s[i], s[j])
  <2> SUFFICES ASSUME NEW i \in 1 .. Len(s), NEW j \in 1 .. Len(s), j = i + 1
               PROVE  On(s[i], s[j])
    OBVIOUS
  <2>1. j - 1 \in 1 .. Len(q) /\ s[j] = q[j - 1]
    BY <1>2
  <2>2. CASE i = 1
    BY <1>1, <2>1, <2>2 DEF MayRun
  <2>3. CASE i # 1
    <3>1. i - 1 \in 1 .. Len(q) /\ s[i] = q[i - 1] /\ j - 1 = (i - 1) + 1
      BY <1>2, <2>3
    <3> QED BY <2>1, <3>1 DEF Chain
  <2> QED BY <2>2, <2>3
<1>5. \A i \in 1 .. Len(s) : i = Len(s) => s[i].at \notin Owned
  <2> SUFFICES ASSUME NEW i \in 1 .. Len(s), i = Len(s) PROVE s[i].at \notin Owned
    OBVIOUS
  <2>1. CASE i = 1
    <3>1. q = << >> /\ s[i] = x
      BY <1>1, <2>1
    <3> QED BY <3>1 DEF MayRun
  <2>2. CASE i # 1
    <3>1. i - 1 \in 1 .. Len(q) /\ s[i] = q[i - 1] /\ i - 1 = Len(q)
      BY <1>1, <1>2, <2>2
    <3> QED BY <3>1 DEF Chain
  <2> QED BY <2>1, <2>2
<1> QED BY <1>3, <1>4, <1>5 DEF s, Chain

\* a chain without its top is a chain, and the top may run on it.
LEMMA PopChain ==
  ASSUME NEW m, NEW q \in Seq(Frame), q # << >>, Chain(m, q)
  PROVE  Chain(m, Tail(q)) /\ MayRun(m, Head(q), Tail(q))
<1> DEFINE t == Tail(q)
<1>1. /\ t \in Seq(Frame) /\ Len(q) = Len(t) + 1 /\ q[1] = Head(q)
      /\ \A i \in 1 .. Len(t) : t[i] = q[i + 1]
      /\ Len(t) \in Nat /\ (t # << >> => Len(t) > 0 /\ Head(t) = t[1])
      /\ (t = << >> => Len(t) = 0)
  <2>1. t \in Seq(Frame) /\ Len(t) = Len(q) - 1 /\ \A i \in 1 .. Len(t) : t[i] = q[i + 1]
    BY HeadTailProperties
  <2>2. Len(q) \in Nat /\ Len(t) \in Nat /\ q[1] = Head(q)
    BY <2>1
  <2> HIDE DEF t
  <2>3. (t # << >> => Len(t) > 0 /\ Head(t) = t[1]) /\ (t = << >> => Len(t) = 0)
    BY <2>1
  <2> QED BY <2>1, <2>2, <2>3
<1> HIDE DEF t
<1>2. ASSUME NEW i \in 1 .. Len(t)
      PROVE  i + 1 \in 1 .. Len(q) /\ t[i] = q[i + 1]
  BY <1>1
<1>3. Chain(m, t)
  <2>1. \A i, j \in 1 .. Len(t) : i < j => Over(m, t[i], t[j])
    <3> SUFFICES ASSUME NEW i \in 1 .. Len(t), NEW j \in 1 .. Len(t), i < j
                 PROVE  Over(m, t[i], t[j])
      OBVIOUS
    <3>1. i + 1 < j + 1 /\ i + 1 \in 1 .. Len(q) /\ j + 1 \in 1 .. Len(q)
      BY <1>2
    <3> QED BY <1>2, <3>1 DEF Chain
  <2>2. \A i, j \in 1 .. Len(t) : j = i + 1 => On(t[i], t[j])
    <3> SUFFICES ASSUME NEW i \in 1 .. Len(t), NEW j \in 1 .. Len(t), j = i + 1
                 PROVE  On(t[i], t[j])
      OBVIOUS
    <3>1. j + 1 = (i + 1) + 1 /\ i + 1 \in 1 .. Len(q) /\ j + 1 \in 1 .. Len(q)
      BY <1>2
    <3> QED BY <1>2, <3>1 DEF Chain
  <2>3. \A i \in 1 .. Len(t) : i = Len(t) => t[i].at \notin Owned
    BY <1>1, <1>2 DEF Chain
  <2> QED BY <2>1, <2>2, <2>3 DEF Chain
<1>4. \A y \in Frames(t) : Over(m, Head(q), y)
  <2> SUFFICES ASSUME NEW i \in 1 .. Len(t) PROVE Over(m, Head(q), t[i])
    BY DEF Frames
  <2>1. 1 \in 1 .. Len(q) /\ i + 1 \in 1 .. Len(q) /\ 1 < i + 1
    BY <1>1, <1>2
  <2> QED BY <1>1, <1>2, <2>1 DEF Chain
<1>5. t # << >> => On(Head(q), Head(t))
  <2> SUFFICES ASSUME t # << >> PROVE On(Head(q), Head(t))
    OBVIOUS
  <2>1. 1 \in 1 .. Len(q) /\ 2 \in 1 .. Len(q) /\ 2 = 1 + 1 /\ Head(t) = q[2]
    BY <1>1
  <2> QED BY <1>1, <2>1 DEF Chain
<1>6. t = << >> => Head(q).at \notin Owned
  BY <1>1 DEF Chain
<1> QED BY <1>3, <1>4, <1>5, <1>6 DEF t, MayRun

\* No function at all is a chain.
LEMMA NoChain == ASSUME NEW m PROVE Chain(m, << >>)
BY DEF Chain

\* A callback that belongs to a function runs directly above it.
LEMMA Owner ==
  ASSUME NEW m, NEW q \in Seq(Frame), Chain(m, q), NEW x \in Frames(q), x.at \in Owned
  PROVE  \E y \in Frames(q) : On(x, y)
<1>1. PICK i \in 1 .. Len(q) : x = q[i]
  BY DEF Frames
<1>2. i # Len(q)
  BY <1>1 DEF Chain
<1>3. i + 1 \in 1 .. Len(q)
  BY <1>2
<1>4. On(q[i], q[i + 1])
  BY <1>3 DEF Chain
<1> QED BY <1>1, <1>3, <1>4 DEF Frames
-----------------------------------------------------------------------------
(* What a careful application asks for, and from where.                    *)

\* What a careful application asks for from which callback
LEMMA CarefulCalls ==
  ASSUME Careful
  PROVE  /\ \A call : << "on_conn_create", call >> \in may => call \in {"set", "close_other"}
         /\ \A call : << "on_conn_destroy", call >> \in may => call = "set"
         /\ \A call : << "destroyed", call >> \in may => call = "close_other"
         /\ \A call : << "on_read", call >> \in may => call = "close_other"
         /\ \A call : << "on_graceful_close", call >> \in may => call = "close_own"
         /\ << "on_read", "close_other" >> \in may => << "destroyed", "close_other" >> \notin may
         /\ Aborts(may) => /\ << "on_graceful_stop", "start" >> \notin may
                           /\ << "on_graceful_stop", "destroy" >> \notin may
         /\ (\E s \in Settings : s \in may) => IsSet("on_conn_destroy")
<1>1. \A p \in may : p[1] \in DOMAIN Harmless => p[2] \in Harmless[p[1]]
  BY DEF Careful
<1>2. \A cb, call : << cb, call >> \in may =>
        (cb \in DOMAIN Harmless => call \in Harmless[cb])
  <2> SUFFICES ASSUME NEW cb, NEW call, << cb, call >> \in may, cb \in DOMAIN Harmless
               PROVE  call \in Harmless[cb]
    OBVIOUS
  <2>1. << cb, call >>[1] = cb /\ << cb, call >>[2] = call
    OBVIOUS
  <2> QED BY <1>1, <2>1
<1>3. /\ DOMAIN Harmless = {"on_conn_create", "on_conn_destroy", "destroyed", "on_read",
                            "on_graceful_close"}
      /\ Harmless["on_conn_create"] = {"set", "close_other"}
      /\ Harmless["on_conn_destroy"] = {"set"}
      /\ Harmless["destroyed"] = {"close_other"}
      /\ Harmless["on_read"] = {"close_other"}
      /\ Harmless["on_graceful_close"] = {"close_own"}
  BY DEF Harmless
<1>4. /\ \A call : << "on_conn_create", call >> \in may => call \in {"set", "close_other"}
      /\ \A call : << "on_conn_destroy", call >> \in may => call = "set"
      /\ \A call : << "destroyed", call >> \in may => call = "close_other"
      /\ \A call : << "on_read", call >> \in may => call = "close_other"
      /\ \A call : << "on_graceful_close", call >> \in may => call = "close_own"
  BY <1>2, <1>3
<1>5. << "on_read", "close_other" >> \in may => << "destroyed", "close_other" >> \notin may
  BY DEF Careful
<1>6. Aborts(may) => /\ << "on_graceful_stop", "start" >> \notin may
                     /\ << "on_graceful_stop", "destroy" >> \notin may
  BY DEF Careful, Aborts
<1>7. (\E s \in Settings : s \in may) => IsSet("on_conn_destroy")
  <2> SUFFICES ASSUME NEW s \in Settings, s \in may PROVE IsSet("on_conn_destroy")
    OBVIOUS
  <2>1. s = << "on_conn_create", "set" >> \/ s = << "on_conn_destroy", "set" >>
    BY DEF Settings
  <2> QED BY <2>1 DEF Careful, IsSet
<1> QED BY <1>4, <1>5, <1>6, <1>7

\* The calls that concern the server are made from a watcher, or from one of
\* the callbacks FreeCbs.
LEMMA FreeCalls ==
  ASSUME Careful, NEW call, Calling(call), stack # << >>,
         call \in {"start", "stop", "abort", "graceful_stop", "destroy"}
  PROVE  Top.at \in FreeCbs /\ << Top.at, call >> \in may
<1>1. Top.at \in Callbacks /\ << Top.at, call >> \in may
  BY DEF Calling
<1>2. Top.at \notin {"on_conn_create", "on_conn_destroy", "destroyed", "on_read",
                     "on_graceful_close"}
  BY <1>1, CarefulCalls
<1> QED BY <1>1, <1>2 DEF Callbacks, FreeCbs

\* An application that calls evsrv_stop during a graceful stop
LEMMA AbortCalls == ASSUME NEW call, Calling(call), call = "abort" PROVE Aborts(may)
<1>1. PICK cb : << cb, call >> \in may
  BY DEF Calling
<1>2. << cb, call >>[2] = "abort"
  OBVIOUS
<1> QED BY <1>1, <1>2 DEF Aborts

\* A call is made from a callback, of a server that is not freed.
LEMMA CallsRunning ==
  ASSUME NEW call, Calling(call)
  PROVE  gone # TRUE /\ (stack # << >> => Top.at \in Callbacks)
BY DEF Calling
-----------------------------------------------------------------------------
(* What depends on the stack only, and what does not depend on it.         *)

\* A callback that may make one call less is the same function otherwise.
Alike(x, y) == x.at = y.at /\ x.conn = y.conn /\ x.prev = y.prev

\* Making the call changes nothing else about the callback,
LEMMA OneCallLess ==
  ASSUME NEW x \in Frame
  PROVE  [ x EXCEPT !.n = @ - 1 ] \in Frame /\ Alike(x, [ x EXCEPT !.n = @ - 1 ])
BY DEF Frame, Alike

\* so it may still run where it does
LEMMA SameFrame ==
  ASSUME NEW m, NEW x, NEW y, NEW q, Alike(x, y), MayRun(m, x, q)
  PROVE  MayRun(m, y, q)
BY DEF Alike, MayRun, Over, On, Owned

\* and relies on what it did.
LEMMA SameFits ==
  ASSUME NEW x, NEW y, Alike(x, y), x.at \in Callbacks, Fits(x)
  PROVE  Fits(y)
BY DEF Alike, Callbacks, Fits, FitsEnter, FitsClose, FitsRead, FitsDestroy, FitsStop, FitsDrain,
       FitsAbort, Drains, Stops

\* The stack opened: its top and the rest
LEMMA Opened ==
  ASSUME Sound, stack # << >>
  PROVE  /\ Top \in Frame /\ Below \in Seq(Frame) /\ stack = << Top >> \o Below
         /\ Frames(stack) = {Top} \cup Frames(Below)
         /\ Frames(Below) \subseteq Frame
         /\ Chain(may, Below) /\ MayRun(may, Top, Below)
         /\ Fits(Top) /\ \A x \in Frames(Below) : Fits(x)
<1>1. stack \in Seq(Frame) /\ Chain(may, stack) /\ \A x \in Frames(stack) : Fits(x)
  BY DEF Sound, Typed
<1>2. /\ Top \in Frame /\ Below \in Seq(Frame) /\ stack = << Top >> \o Below
      /\ Frames(stack) = {Top} \cup Frames(Below)
  BY <1>1, Pop DEF Top, Below
<1>3. Chain(may, Below) /\ MayRun(may, Top, Below)
  BY <1>1, PopChain DEF Top, Below
<1>4. Frames(Below) \subseteq Frame
  BY <1>2, InFrame
<1> QED BY <1>1, <1>2, <1>3, <1>4

\* What the top adds to the rest
LEMMA OpenedWork ==
  ASSUME Sound, stack # << >>
  PROVE  /\ Top.at \in {"enter", "close"} => Work(stack) = {Top} \cup Work(Below)
         /\ Top.at \notin {"enter", "close"} => Work(stack) = Work(Below)
         /\ Top.at = "close" => Leaving(stack) = {Top.conn} \cup Leaving(Below)
         /\ Top.at # "close" => Leaving(stack) = Leaving(Below)
         /\ InDrain(stack) <=> Top.at \in Drains \/ InDrain(Below)
BY Opened, PushWork

\* The functions that wait for a call are those that were there before it.
LEMMA CallerStack ==
  ASSUME Sound, NEW call, Calling(call)
  PROVE  /\ Caller \in Seq(Frame) /\ Chain(may, Caller)
         /\ (Caller = << >> <=> stack = << >>)
         /\ stack # << >> => /\ Alike(Top, Head(Caller)) /\ Tail(Caller) = Below
                             /\ Frames(Caller) = {Head(Caller)} \cup Frames(Below)
         /\ stack = << >> => Frames(Caller) = {}
         /\ Work(Caller) = Work(stack) /\ Leaving(Caller) = Leaving(stack)
         /\ InDrain(Caller) <=> InDrain(stack)
         /\ \A x \in Frames(Caller) : Fits(x)
<1>1. CASE stack = << >>
  BY <1>1, NoFrames, NoChain DEF Caller
<1>2. CASE stack # << >>
  <2> DEFINE t == [ Top EXCEPT !.n = @ - 1 ]
  <2>1. Top.at \in Callbacks /\ Top \in Frame /\ Below \in Seq(Frame)
    BY <1>2, Opened DEF Calling
  <2>2. t \in Frame /\ Alike(Top, t)
    BY <2>1, OneCallLess
  <2>3. Caller = << t >> \o Below
    BY <1>2 DEF Caller
  <2>4. t.at \notin {"enter", "close"} /\ t.at \notin Drains /\ t.at = Top.at
    BY <2>1, <2>2 DEF Callbacks, Drains, Alike
  <2> HIDE DEF t
  <2>5. /\ Caller \in Seq(Frame) /\ Caller # << >> /\ Head(Caller) = t /\ Tail(Caller) = Below
        /\ Frames(Caller) = {t} \cup Frames(Below)
    BY <2>1, <2>2, <2>3, Push
  <2>6. /\ Work(Caller) = Work(Below) /\ Leaving(Caller) = Leaving(Below)
        /\ InDrain(Caller) <=> InDrain(Below)
    BY <2>1, <2>2, <2>3, <2>4, PushWork
  <2>7. /\ Work(stack) = Work(Below) /\ Leaving(stack) = Leaving(Below)
        /\ InDrain(stack) <=> InDrain(Below)
    BY <1>2, <2>4, OpenedWork
  <2>8. Chain(may, Caller)
    <3>1. MayRun(may, t, Below) /\ Chain(may, Below)
      BY <1>2, <2>2, Opened, SameFrame
    <3> QED BY <2>1, <2>2, <2>3, <3>1, PushChain
  <2>9. \A x \in Frames(Caller) : Fits(x)
    <3>1. Fits(t)
      BY <1>2, <2>1, <2>2, Opened, SameFits
    <3> QED BY <1>2, <2>5, <3>1, Opened
  <2> QED BY <1>2, <2>2, <2>5, <2>6, <2>7, <2>8, <2>9
<1> QED BY <1>1, <1>2
-----------------------------------------------------------------------------
(* What the invariant says at rest and of a call.                          *)

\* The stack after x has been put on the functions q
LEMMA Pushed ==
  ASSUME NEW q \in Seq(Frame), NEW x \in Frame, stack' = << x >> \o q, may' = may,
         Chain(may, q), MayRun(may, x, q)
  PROVE  /\ stack' \in Seq(Frame) /\ stack' # << >> /\ Head(stack') = x /\ Tail(stack') = q
         /\ Frames(stack') = {x} \cup Frames(q)
         /\ Chain(may', stack')
         /\ x.at \in {"enter", "close"} => Work(stack') = {x} \cup Work(q)
         /\ x.at \notin {"enter", "close"} => Work(stack') = Work(q)
         /\ x.at = "close" => Leaving(stack') = {x.conn} \cup Leaving(q)
         /\ x.at # "close" => Leaving(stack') = Leaving(q)
         /\ InDrain(stack') <=> x.at \in Drains \/ InDrain(q)
BY Push, PushChain, PushWork

\* The counter is never negative, and zero when nothing is counted.
LEMMA CountedIs ==
  ASSUME Sound
  PROVE  /\ Counted \subseteq Conns /\ IsFiniteSet(Counted)
         /\ active_connections = Cardinality(Counted)
         /\ active_connections \in Nat
         /\ active_connections = 0 <=> Counted = {}
<1>1. \A x \in Work(stack) : x.at = "close" => x.conn \in Conns
  BY DEF Sound, Work, Fits, FitsClose
<1>2. Counted \subseteq Conns
  BY <1>1 DEF Counted, Live, Leaving
<1>3. IsFiniteSet(Counted)
  BY <1>2, FS_Subset, ReentryAssumption
<1>4. active_connections = Cardinality(Counted)
  BY DEF Sound, Books
<1> QED BY <1>2, <1>3, <1>4, FS_CardinalityType, FS_EmptySet

\* Outside on_conn_destroy no connection is half closed.
LEMMA NoneHalfClosed ==
  ASSUME Sound, stack = << >> \/ Top.at # "on_conn_destroy"
  PROVE  \A c \in Conns : conn[c].state # "STOPPED"
BY DEF Sound, HalfClosed

\* Without a function at work every connection serves.
LEMMA AllServe ==
  ASSUME Sound, stack = << >> \/ Top.at # "on_conn_destroy", Work(stack) = {}
  PROVE  /\ \A c \in Live : Serves(c)
         /\ Leaving(stack) = {} /\ Counted = Live
         /\ \A f \in Fds : connections[f] # None =>
              /\ connections[f] \in Conns /\ Serves(connections[f])
              /\ conn[connections[f]].sock = f
<1>1. \A c \in Conns : conn[c].state \notin {"STOPPED", "CREATED"}
  BY NoneHalfClosed DEF Sound, Books
<1>2. \A c \in Live : Serves(c)
  BY <1>1 DEF Live, Serves, Sound, Typed, ConnStates
<1>3. Leaving(stack) = {}
  BY DEF Leaving
<1>4. \A f \in Fds : connections[f] # None =>
        /\ connections[f] \in Conns /\ Serves(connections[f])
        /\ conn[connections[f]].sock = f
  BY DEF Sound, Books, Typed
<1> QED BY <1>2, <1>3, <1>4 DEF Counted

\* What lies below a callback from which everything may be asked for
LEMMA BelowFree ==
  ASSUME Sound, stack # << >>, Top.at \in FreeCbs
  PROVE  \A x \in Frames(Below) :
           \/ x.at \in FreeCbs \cup {"accept_cb"}
           \/ x.at \in Stops /\ Top.at = "on_graceful_stop" /\ Aborts(may)
<1> SUFFICES ASSUME NEW x \in Frames(Below), x.at \notin FreeCbs \cup {"accept_cb"}
             PROVE  x.at \in Stops /\ Top.at = "on_graceful_stop" /\ Aborts(may)
  OBVIOUS
<1>1. x \in Frame /\ Over(may, Top, x)
  BY Opened DEF MayRun
<1>2. x.at \in Points \cup Callbacks
  BY <1>1 DEF Frame
<1>3. x.at \in Stops
  BY <1>1, <1>2 DEF Over, FreeCbs, Closing, Stops, Points, Callbacks
<1> QED BY <1>1, <1>3 DEF Over, FreeCbs, Closing, Stops

\* What is on the stack when one of the calls of the server is made
LEMMA FreeCaller ==
  ASSUME Sound, Careful, NEW call, Calling(call),
         call \in {"start", "stop", "abort", "graceful_stop", "destroy"}
  PROVE  /\ Caller # << >> => Head(Caller).at \in FreeCbs
         /\ \A x \in Frames(Caller) :
              \/ x.at \in FreeCbs \cup {"accept_cb"}
              \/ x.at \in Stops /\ Aborts(may) /\ state = "STOPPED"
                 /\ call \notin {"start", "destroy"}
         /\ Work(stack) = {} /\ Work(Caller) = {} /\ ~InDrain(stack) /\ ~InDrain(Caller)
         /\ stack = << >> \/ Top.at \in FreeCbs
<1>1. CASE stack = << >>
  <2>1. Caller = << >> /\ Frames(Caller) = {} /\ Frames(stack) = {}
    BY <1>1, CallerStack, NoFrames
  <2> QED BY <1>1, <2>1 DEF Work, InDrain
<1>2. CASE stack # << >>
  <2>1. Top.at \in FreeCbs /\ << Top.at, call >> \in may
    BY <1>2, FreeCalls
  <2>2. \A x \in Frames(Below) :
          \/ x.at \in FreeCbs \cup {"accept_cb"}
          \/ x.at \in Stops /\ Top.at = "on_graceful_stop" /\ Aborts(may)
    BY <1>2, <2>1, BelowFree
  <2>3. Top.at = "on_graceful_stop" /\ Aborts(may) =>
          state = "STOPPED" /\ call \notin {"start", "destroy"}
    <3>1. Fits(Top)
      BY <1>2, Opened
    <3> QED BY <2>1, <3>1, CarefulCalls DEF Fits, FitsAbort
  <2>4. /\ Head(Caller).at = Top.at
        /\ Frames(Caller) = {Head(Caller)} \cup Frames(Below)
        /\ Frames(stack) = {Top} \cup Frames(Below)
    BY <1>2, CallerStack, Opened DEF Alike
  <2>5. \A x \in Frames(Caller) :
          \/ x.at \in FreeCbs \cup {"accept_cb"}
          \/ x.at \in Stops /\ Aborts(may) /\ state = "STOPPED"
             /\ call \notin {"start", "destroy"}
    BY <2>1, <2>2, <2>3, <2>4
  <2>6. \A x \in Frames(stack) : x.at \in FreeCbs \cup Stops \cup {"accept_cb"}
    BY <2>1, <2>2, <2>4
  <2>7. Work(stack) = {} /\ ~InDrain(stack)
    BY <2>6 DEF Work, InDrain, Drains, FreeCbs, Stops
  <2> QED BY <2>1, <2>4, <2>5, <2>7, CallerStack
<1> QED BY <1>1, <1>2
-----------------------------------------------------------------------------
(* Parts of the invariant that a step leaves alone.                        *)

\* What a function relies on is unchanged with the variables it is about.
LEMMA FitsSame ==
  ASSUME NEW x, Fits(x), UNCHANGED << conn, connections, sock, state, may >>
  PROVE  Fits(x)'
BY DEF Fits, FitsEnter, FitsClose, FitsRead, FitsDestroy, FitsStop, FitsDrain, FitsAbort, Serves

\* Functions that rely on nothing
Relaxed == FreeCbs \cup {"accept_cb", "on_read", "on_conn_create", "destroyed"}

\* Some functions rely on nothing but the state.
LEMMA FitsRelaxed ==
  ASSUME NEW x, x.at \in Relaxed,
         x.at = "on_graceful_stop" /\ Aborts(may)' => state' = "STOPPED"
  PROVE  Fits(x)'
BY DEF Fits, FitsEnter, FitsClose, FitsRead, FitsDestroy, FitsStop, FitsDrain, FitsAbort,
       Relaxed, FreeCbs, Stops, Drains

\* The books depend on the stack only through the connections on their way.
LEMMA BooksSame ==
  ASSUME Books, UNCHANGED << conn, connections, active_connections >>,
         Work(stack') = Work(stack)
  PROVE  Books' /\ Counted' = Counted
<1>1. Leaving(stack') = Leaving(stack)
  BY DEF Leaving
<1>2. Live' = Live
  BY DEF Live
<1>3. Counted' = Counted
  BY <1>1, <1>2 DEF Counted
<1> QED BY <1>3 DEF Books, Serves

\* Two lemmas for the steps that change nothing but the stack
LEMMA TypedSame ==
  ASSUME Typed, UNCHANGED << srv, conn, fault, may >>, stack' \in Seq(Frame)
  PROVE  Typed'
BY DEF Typed, srv

\* The phases depend on the counter only through what is counted.
LEMMA PhasesSame ==
  ASSUME Phases, UNCHANGED << state, accept_rw, sock, told, conn >>, Counted' = Counted
  PROVE  Phases'
BY DEF Phases
-----------------------------------------------------------------------------
(* Steps: the calls that concern the server.                               *)

\* The frames EvsrvReentry pushes
LEMMA AtFrame ==
  ASSUME NEW p \in Points, NEW c \in Conns \cup {None}, NEW n \in Int
  PROVE  At(p, c, n) \in Frame /\ At(p, c, n).at = p /\ At(p, c, n).conn = c
         /\ At(p, c, n).n = n /\ At(p, c, n).prev = "NONE"
BY DEF At, Frame, ConnStates

\* A callback just made
LEMMA AppFrame ==
  ASSUME NEW cb \in Callbacks, NEW c \in Conns \cup {None}
  PROVE  App(cb, c) \in Frame /\ App(cb, c).at = cb /\ App(cb, c).conn = c
         /\ App(cb, c).prev = "NONE"
BY ReentryAssumption DEF App, At, Frame, ConnStates

\* Descriptors are numbers, and a connection that exists has one.
LEMMA Sockets ==
  /\ Fds \subseteq Nat \ {0} /\ Fds \subseteq Int /\ None \notin Conns
  /\ Sound => \A c \in Conns : conn[c].state # "NONE" => conn[c].sock \in Nat /\ conn[c].sock \in Fds
<1>1. Fds \subseteq Nat \ {0} /\ None \notin Conns
  BY ReentryAssumption
<1>2. Sound => \A c \in Conns : conn[c].state # "NONE" => conn[c].sock \in Fds
  BY DEF Sound, Books
<1>3. Fds \subseteq Int
  BY <1>1
<1> QED BY <1>1, <1>2, <1>3

\* evsrv_start begins with a server that counts no connection.
LEMMA StartSound == ASSUME Sound, Careful, EvsrvStart PROVE Sound'
<1> DEFINE x == App("on_started", None)
<1>1. Calling("start") /\ state \in {"IDLE", "STOPPED"}
  BY DEF EvsrvStart
<1>2. x \in Frame /\ x.at = "on_started"
  BY AppFrame DEF Callbacks
<1>3. stack' = << x >> \o Caller /\ may' = may
  BY DEF EvsrvStart
<1> HIDE DEF x
<1>4. /\ Caller \in Seq(Frame) /\ Chain(may, Caller)
      /\ Work(Caller) = Work(stack) /\ \A y \in Frames(Caller) : Fits(y)
  BY <1>1, CallerStack
<1>5. /\ \A y \in Frames(Caller) : y.at \in FreeCbs \cup {"accept_cb"}
      /\ Work(Caller) = {} /\ (Caller # << >> => Head(Caller).at \in FreeCbs)
      /\ (stack = << >> \/ Top.at \in FreeCbs)
  BY <1>1, FreeCaller
<1>6. Aborts(may) => \A y \in Frames(Caller) : y.at # "on_graceful_stop"
  <2> SUFFICES ASSUME Aborts(may), NEW y \in Frames(Caller), y.at = "on_graceful_stop"
               PROVE  FALSE
    OBVIOUS
  <2>1. stack # << >> /\ Frames(Caller) = {Head(Caller)} \cup Frames(Below)
        /\ Top.at = Head(Caller).at
    BY <1>1, CallerStack DEF Alike
  <2>2. Top.at \in FreeCbs /\ << Top.at, "start" >> \in may
    BY <1>1, <2>1, FreeCalls
  <2>3. Top.at # "on_graceful_stop"
    BY <2>2, CarefulCalls
  <2>4. y \in Frames(Below)
    BY <2>1, <2>3
  <2>5. Over(may, Top, y)
    BY <2>1, <2>4, Opened DEF MayRun
  <2> QED BY <2>2, <2>3, <2>5 DEF Over, FreeCbs
<1>7. MayRun(may, x, Caller)
  <2>1. \A y \in Frames(Caller) : Over(may, x, y)
    BY <1>2, <1>5, <1>6 DEF Over, FreeCbs, Stops
  <2> QED BY <1>2, <1>5, <2>1 DEF MayRun, On, FreeCbs, Owned
<1>8. /\ stack' \in Seq(Frame) /\ stack' # << >> /\ Head(stack') = x
      /\ Frames(stack') = {x} \cup Frames(Caller)
      /\ Chain(may', stack') /\ Work(stack') = Work(stack)
  BY <1>2, <1>3, <1>4, <1>7, Pushed
<1>9. /\ UNCHANGED << active_connections, connections, conn, gone, fault, may >>
      /\ state' = "ACCEPTING" /\ sock' = TRUE /\ accept_rw' = TRUE /\ told' = 0
      /\ gone # TRUE
  BY DEF EvsrvStart, Calling
<1>10. Books' /\ Counted' = Counted
  BY <1>8, <1>9, BooksSame DEF Sound
<1>11. \A c \in Conns : conn[c].state = "NONE"
  BY <1>1 DEF Sound, Phases, Counted, Live
<1>12. Typed'
  BY <1>8, <1>9 DEF Sound, Typed
<1>13. \A y \in Frames(stack') : Fits(y)'
  BY <1>2, <1>5, <1>6, <1>8, <1>9, FitsRelaxed DEF Relaxed, FreeCbs
<1>14. HalfClosed' /\ Phases'
  BY <1>9, <1>11 DEF HalfClosed, Phases
<1>15. Freed' /\ Looping' /\ Ending' /\ Reached'
  BY <1>2, <1>8, <1>9 DEF Freed, Looping, Ending, Reached, Top
<1> QED BY <1>8, <1>10, <1>12, <1>13, <1>14, <1>15 DEF Sound

\* The only loop that may wait for evsrv_stop is one of evsrv_stop itself.
LEMMA StopSound == ASSUME Sound, Careful, EvsrvStop PROVE Sound'
<1> DEFINE x == At("stop", None, 0)
<1>1. PICK call \in {"abort", "stop"} :
        Calling(call) /\ (state = "GRACEFULLY_STOPPING" => call = "abort")
  BY DEF EvsrvStop
<1>2. x \in Frame /\ x.at = "stop" /\ x.n = 0
  BY AtFrame DEF Points
<1>3. stack' = << x >> \o Caller /\ may' = may
  BY DEF EvsrvStop
<1> HIDE DEF x
<1>4. /\ Caller \in Seq(Frame) /\ Chain(may, Caller)
      /\ Work(Caller) = Work(stack) /\ \A y \in Frames(Caller) : Fits(y)
      /\ InDrain(Caller) <=> InDrain(stack)
  BY <1>1, CallerStack
<1>5. /\ \A y \in Frames(Caller) : y.at \in FreeCbs \cup Stops \cup {"accept_cb"}
      /\ Work(Caller) = {} /\ (Caller # << >> => Head(Caller).at \in FreeCbs)
      /\ (stack = << >> \/ Top.at \in FreeCbs)
  BY <1>1, FreeCaller
<1>6. MayRun(may, x, Caller)
  <2>1. \A y \in Frames(Caller) : Over(may, x, y)
    BY <1>2, <1>5 DEF Over, FreeCbs, Stops
  <2> QED BY <1>2, <1>5, <2>1 DEF MayRun, On, FreeCbs, Owned
<1>7. /\ stack' \in Seq(Frame) /\ stack' # << >> /\ Head(stack') = x
      /\ Frames(stack') = {x} \cup Frames(Caller)
      /\ Chain(may', stack') /\ Work(stack') = Work(stack)
      /\ InDrain(stack') <=> InDrain(stack)
  BY <1>2, <1>3, <1>4, <1>6, Pushed DEF Drains
<1>8. /\ UNCHANGED << state, active_connections, connections, conn, told, gone, fault, may >>
      /\ sock' = FALSE /\ accept_rw' = FALSE /\ gone # TRUE
  BY <1>1 DEF EvsrvStop, CloseListener, Calling
<1>9. Books' /\ Counted' = Counted
  BY <1>7, <1>8, BooksSame DEF Sound
<1>10. Typed'
  BY <1>7, <1>8 DEF Sound, Typed
<1>11. \A y \in Frames(Caller) : Fits(y)'
  <2> SUFFICES ASSUME NEW y \in Frames(Caller) PROVE Fits(y)'
    OBVIOUS
  <2>1. Fits(y) /\ y.at \in FreeCbs \cup Stops \cup {"accept_cb"}
    BY <1>4, <1>5
  <2> QED BY <1>8, <2>1 DEF Fits, FitsEnter, FitsClose, FitsRead, FitsDestroy, FitsStop, FitsDrain,
                            FitsAbort, Serves, Stops, Drains, FreeCbs
<1>12. Fits(x)'
  <2>1. state = "GRACEFULLY_STOPPING" => Aborts(may)
    BY <1>1, AbortCalls
  <2>2. \A c \in Conns : Serves(c) => conn[c].sock >= 0
    BY Sockets DEF Serves
  <2> QED BY <1>2, <1>8, <2>1, <2>2 DEF Fits, FitsEnter, FitsClose, FitsRead, FitsDestroy, FitsStop,
                                   FitsDrain, FitsAbort, Serves, Stops, Drains
<1>13. HalfClosed'
  <2>1. \A c \in Conns : conn[c].state # "STOPPED"
    BY <1>5, NoneHalfClosed DEF FreeCbs
  <2> QED BY <1>8, <2>1 DEF HalfClosed
<1>14. Phases'
  BY <1>8, <1>9 DEF Sound, Phases
<1>15. Freed' /\ Looping' /\ Ending'
  BY <1>2, <1>7, <1>8 DEF Freed, Looping, Ending, Top
<1>16. Reached'
  BY <1>7, <1>8, <1>9 DEF Sound, Reached
<1> QED BY <1>7, <1>9, <1>10, <1>11, <1>12, <1>13, <1>14, <1>15, <1>16 DEF Sound

\* A graceful stop begins with every connection active.
LEMMA GracefulStopSound == ASSUME Sound, Careful, GracefulStop PROVE Sound'
<1>1. /\ Calling("graceful_stop") /\ state = "ACCEPTING" /\ gone # TRUE
      /\ UNCHANGED << active_connections, connections, conn, gone, fault, may >>
      /\ sock' = FALSE /\ accept_rw' = FALSE
  BY DEF GracefulStop, CloseListener, Calling
<1>2. /\ Caller \in Seq(Frame) /\ Chain(may, Caller)
      /\ Work(Caller) = Work(stack) /\ \A y \in Frames(Caller) : Fits(y)
  BY <1>1, CallerStack
<1>3. /\ \A y \in Frames(Caller) : y.at \in FreeCbs \cup {"accept_cb"}
      /\ Work(stack) = {} /\ (Caller # << >> => Head(Caller).at \in FreeCbs)
      /\ (stack = << >> \/ Top.at \in FreeCbs)
  BY <1>1, FreeCaller
<1>4. Aborts(may) => \A y \in Frames(Caller) : y.at # "on_graceful_stop"
  BY <1>1, <1>2 DEF Fits, FitsAbort
<1>5. told = 0 /\ \A c \in Conns : conn[c].state # "PENDING_CLOSE"
  BY <1>1 DEF Sound, Phases
<1>6. \A c \in Conns : conn[c].state # "STOPPED"
  BY <1>3, NoneHalfClosed DEF FreeCbs
<1>7. HalfClosed'
  BY <1>1, <1>6 DEF HalfClosed
<1>8. ASSUME NEW x \in Frame, stack' = << x >> \o Caller, x.at \in {"on_graceful_stop", "graceful_stop"}
      PROVE  /\ stack' \in Seq(Frame) /\ stack' # << >> /\ Head(stack') = x
             /\ Frames(stack') = {x} \cup Frames(Caller)
             /\ Chain(may', stack') /\ Work(stack') = Work(stack)
             /\ InDrain(stack') <=> x.at \in Drains \/ InDrain(Caller)
             /\ Books' /\ Counted' = Counted
  <2>1. MayRun(may, x, Caller)
    <3>1. \A y \in Frames(Caller) : Over(may, x, y)
      BY <1>3, <1>8 DEF Over, FreeCbs, Stops
    <3> QED BY <1>3, <1>8, <3>1 DEF MayRun, On, FreeCbs, Owned
  <2>2. /\ stack' \in Seq(Frame) /\ stack' # << >> /\ Head(stack') = x
        /\ Frames(stack') = {x} \cup Frames(Caller)
        /\ Chain(may', stack') /\ Work(stack') = Work(stack)
        /\ InDrain(stack') <=> x.at \in Drains \/ InDrain(Caller)
    BY <1>1, <1>2, <1>8, <2>1, Pushed
  <2> QED BY <1>1, <2>2, BooksSame DEF Sound
<1>9. CASE /\ active_connections = 0 /\ state' = "STOPPED" /\ told' = told + 1
           /\ stack' = << App("on_graceful_stop", None) >> \o Caller
  <2> DEFINE x == App("on_graceful_stop", None)
  <2>0. state' = "STOPPED" /\ told' = 1
    BY <1>5, <1>9
  <2>1. x \in Frame /\ x.at = "on_graceful_stop" /\ stack' = << x >> \o Caller
    BY <1>9, AppFrame DEF Callbacks
  <2> HIDE DEF x
  <2>2. /\ stack' \in Seq(Frame) /\ stack' # << >> /\ Head(stack') = x
        /\ Frames(stack') = {x} \cup Frames(Caller)
        /\ Chain(may', stack') /\ Books' /\ Counted' = Counted
    BY <1>8, <2>1
  <2>3. Counted = {}
    BY <1>9, CountedIs
  <2>4. Typed'
    BY <1>1, <2>0, <2>2 DEF Sound, Typed
  <2>5. \A y \in Frames(stack') : Fits(y)'
    BY <1>3, <1>9, <2>1, <2>2, FitsRelaxed DEF Relaxed, FreeCbs
  <2>6. Phases'
    BY <1>1, <1>5, <2>0, <2>2, <2>3 DEF Phases
  <2>7. Freed' /\ Looping' /\ Ending' /\ Reached'
    BY <1>1, <2>0, <2>1, <2>2 DEF Freed, Looping, Ending, Reached, Top
  <2> QED BY <1>7, <2>2, <2>4, <2>5, <2>6, <2>7 DEF Sound
<1>10. CASE /\ active_connections # 0 /\ state' = "GRACEFULLY_STOPPING" /\ told' = told
            /\ stack' = << At("graceful_stop", None, 0) >> \o Caller
  <2> DEFINE x == At("graceful_stop", None, 0)
  <2>0. state' = "GRACEFULLY_STOPPING" /\ told' = 0 /\ stack' = << x >> \o Caller
    BY <1>5, <1>10
  <2>1. x \in Frame /\ x.at = "graceful_stop" /\ x.conn = None /\ x.n = 0
    BY AtFrame DEF Points
  <2> HIDE DEF x
  <2>2. /\ stack' \in Seq(Frame) /\ stack' # << >> /\ Head(stack') = x
        /\ Frames(stack') = {x} \cup Frames(Caller)
        /\ Chain(may', stack') /\ Books' /\ Counted' = Counted
        /\ InDrain(stack')
    BY <1>8, <2>0, <2>1 DEF Drains
  <2>3. Counted # {}
    BY <1>10, CountedIs
  <2>4. Typed'
    BY <1>1, <1>10, <2>2 DEF Sound, Typed
  <2>5. \A y \in Frames(Caller) : Fits(y)'
    BY <1>1, <1>3, <1>4, FitsRelaxed DEF Relaxed, FreeCbs
  <2>6. Fits(x)'
    <3>1. \A c \in Conns : Serves(c) => conn[c].state = "ACTIVE" /\ conn[c].sock \in Nat
      BY <1>5, Sockets DEF Serves
    <3>2. \A c \in Conns : Serves(c)' => conn'[c].state = "ACTIVE" /\ ~(conn'[c].sock < 0)
      BY <1>1, <3>1 DEF Serves
    <3>3. FitsDrain(x)'
      BY <1>10, <2>1, <3>2, Sockets DEF FitsDrain, Drains
    <3> QED BY <2>1, <3>3 DEF Fits, FitsEnter, FitsClose, FitsRead, FitsDestroy, FitsStop,
                              FitsAbort, Stops
  <2>7. Phases'
    <3>1. state' = "GRACEFULLY_STOPPING" /\ told' = 0 /\ accept_rw' = FALSE /\ sock' = FALSE
      BY <1>1, <2>0
    <3>2. accept_rw' = sock'
      BY <3>1
    <3> QED BY <3>1, <3>2 DEF Phases
  <2>8. Freed' /\ Looping' /\ Ending' /\ Reached'
    BY <1>1, <2>0, <2>1, <2>2, <2>3, Sockets DEF Freed, Looping, Ending, Reached, Top
  <2> QED BY <1>7, <2>2, <2>4, <2>5, <2>6, <2>7, <2>8 DEF Sound
<1> QED BY <1>9, <1>10 DEF GracefulStop

\* evsrv_destroy frees the table only of a server without connections.
LEMMA DestroySound == ASSUME Sound, Careful, EvsrvDestroy PROVE Sound'
<1>1. /\ Calling("destroy") /\ (state = "GRACEFULLY_STOPPING" => Calling("abort"))
      /\ UNCHANGED << state, active_connections, connections, conn, told, fault, may >>
      /\ state # "IDLE" /\ gone # TRUE
  BY DEF EvsrvDestroy, Calling
<1>2. /\ Caller \in Seq(Frame) /\ Chain(may, Caller)
      /\ Work(Caller) = Work(stack) /\ \A y \in Frames(Caller) : Fits(y)
  BY <1>1, CallerStack
<1>3. /\ \A y \in Frames(Caller) : y.at \in FreeCbs \cup {"accept_cb"}
      /\ Work(stack) = {} /\ (Caller # << >> => Head(Caller).at \in FreeCbs)
      /\ (stack = << >> \/ Top.at \in FreeCbs) /\ ~InDrain(stack) /\ ~InDrain(Caller)
  BY <1>1, FreeCaller
<1>4. \A c \in Conns : conn[c].state # "STOPPED"
  BY <1>3, NoneHalfClosed DEF FreeCbs
<1>5. HalfClosed'
  BY <1>1, <1>4 DEF HalfClosed
<1>6. CASE /\ state # "STOPPED" /\ CloseListener /\ gone' = gone
           /\ stack' = << At("stop", None, 0), At("destroy", None, 0) >> \o Caller
  <2> DEFINE x == At("stop", None, 0)
             y == At("destroy", None, 0)
             q == << y >> \o Caller
  <2>1. /\ x \in Frame /\ x.at = "stop" /\ x.n = 0
        /\ y \in Frame /\ y.at = "destroy"
    BY AtFrame DEF Points
  <2>2. stack' = << x, y >> \o Caller
    BY <1>6
  <2> HIDE DEF x, y
  <2>3. stack' = << x >> \o q
    BY <1>2, <2>1, <2>2, PushTwo
  <2>4. MayRun(may, y, Caller)
    <3>1. \A z \in Frames(Caller) : Over(may, y, z)
      BY <1>3, <2>1 DEF Over, FreeCbs, Stops
    <3> QED BY <1>3, <2>1, <3>1 DEF MayRun, On, FreeCbs, Owned
  <2>5. /\ q \in Seq(Frame) /\ q # << >> /\ Head(q) = y
        /\ Frames(q) = {y} \cup Frames(Caller)
        /\ Chain(may, q) /\ Work(q) = Work(stack) /\ ~InDrain(q)
    BY <1>2, <1>3, <2>1, <2>4, Push, PushChain, PushWork DEF Drains
  <2> HIDE DEF q
  <2>6. MayRun(may, x, q)
    <3>1. \A z \in Frames(q) : Over(may, x, z)
      BY <1>3, <2>1, <2>5 DEF Over, FreeCbs, Stops
    <3> QED BY <2>1, <2>5, <3>1 DEF MayRun, On
  <2>7. /\ stack' \in Seq(Frame) /\ stack' # << >> /\ Head(stack') = x
        /\ Frames(stack') = {x, y} \cup Frames(Caller)
        /\ Chain(may', stack') /\ Work(stack') = Work(stack) /\ ~InDrain(stack')
    BY <1>1, <2>1, <2>3, <2>5, <2>6, Pushed DEF Drains
  <2>8. Books' /\ Counted' = Counted
    BY <1>1, <2>7, BooksSame DEF Sound
  <2>9. sock' = FALSE /\ accept_rw' = FALSE /\ gone' = gone
    BY <1>6 DEF CloseListener
  <2>10. Typed'
    BY <1>1, <2>7, <2>9 DEF Sound, Typed
  <2>11. \A z \in Frames(Caller) : Fits(z)'
    <3> SUFFICES ASSUME NEW z \in Frames(Caller) PROVE Fits(z)'
      OBVIOUS
    <3>1. z.at \in Relaxed /\ FitsAbort(z)
      BY <1>2, <1>3 DEF Fits, Relaxed
    <3> QED BY <1>1, <3>1, FitsRelaxed DEF FitsAbort
  <2>12. Fits(x)' /\ Fits(y)'
    <3>1. state = "GRACEFULLY_STOPPING" => Aborts(may)
      BY <1>1, AbortCalls
    <3>2. \A c \in Conns : Serves(c) => conn[c].sock >= 0
      BY Sockets DEF Serves
    <3> QED BY <1>1, <2>1, <2>9, <3>1, <3>2 DEF Fits, FitsEnter, FitsClose, FitsRead, FitsDestroy,
               FitsStop, FitsDrain, FitsAbort, Serves, Stops, Drains
  <2>13. Phases'
    <3>1. accept_rw' = sock' /\ sock' # TRUE
      BY <2>9
    <3> QED BY <1>1, <2>8, <3>1 DEF Sound, Phases
  <2>14. Freed' /\ Looping' /\ Ending'
    BY <1>1, <2>1, <2>7, <2>9 DEF Freed, Looping, Ending, Top
  <2>15. Reached'
    BY <1>1, <1>3, <2>7, <2>8 DEF Sound, Reached
  <2> QED BY <1>5, <2>7, <2>8, <2>10, <2>11, <2>12, <2>13, <2>14, <2>15 DEF Sound
<1>7. CASE /\ state = "STOPPED" /\ gone' = TRUE /\ stack' = Caller
           /\ UNCHANGED << accept_rw, sock >>
  <2>1. /\ stack' \in Seq(Frame) /\ Chain(may', stack') /\ Work(stack') = Work(stack)
        /\ \A y \in Frames(stack') : y.at \in FreeCbs \cup {"accept_cb"} /\ Fits(y)
        /\ stack' # << >> => Head(stack').at \in FreeCbs
    BY <1>1, <1>2, <1>3, <1>7
  <2>2. Books' /\ Counted' = Counted
    BY <1>1, <2>1, BooksSame DEF Sound
  <2>3. Typed'
    BY <1>1, <1>7, <2>1 DEF Sound, Typed
  <2>4. \A y \in Frames(stack') : Fits(y)'
    BY <1>1, <1>7, <2>1, FitsSame
  <2>5. Phases'
    BY <1>1, <1>7, <2>2 DEF Sound, Phases
  <2>6. Freed' /\ Looping' /\ Ending' /\ Reached'
    BY <1>1, <1>7, <2>1 DEF Freed, Looping, Ending, Reached, Top, FreeCbs
  <2> QED BY <1>5, <2>1, <2>2, <2>3, <2>4, <2>5, <2>6 DEF Sound
<1> QED BY <1>6, <1>7 DEF EvsrvDestroy

\* Nothing that looks at the table waits for evsrv_destroy.
LEMMA DestroyEndsSound == ASSUME Sound, Careful, DestroyEnds PROVE Sound'
<1>1. /\ stack # << >> /\ Top.at = "destroy" /\ stack' = Below
      /\ UNCHANGED << state, active_connections, connections, accept_rw, sock, conn, told,
                      fault, may >>
      /\ gone' = TRUE
  BY DEF DestroyEnds, Runs
<1>2. /\ Below \in Seq(Frame) /\ Chain(may, Below) /\ MayRun(may, Top, Below)
      /\ Frames(Below) \subseteq Frame /\ \A x \in Frames(Below) : Fits(x)
  BY <1>1, Opened
<1>3. Work(stack') = Work(stack)
  BY <1>1, OpenedWork
<1>4. state = "STOPPED"
  BY <1>1 DEF Sound, Ending
<1>5. \A x \in Frames(Below) : x.at \in FreeCbs \cup {"accept_cb"}
  <2> SUFFICES ASSUME NEW x \in Frames(Below) PROVE x.at \in FreeCbs \cup {"accept_cb"}
    OBVIOUS
  <2>1. Over(may, Top, x) /\ x.at \in Points \cup Callbacks
    BY <1>2 DEF MayRun, Frame
  <2> QED BY <1>1, <2>1 DEF Over, FreeCbs, Closing, Stops, Points, Callbacks
<1>6. stack' # << >> => Head(stack').at \in FreeCbs \cup {"accept_cb"}
  <2> SUFFICES ASSUME stack' # << >> PROVE Head(stack').at \in FreeCbs \cup {"accept_cb"}
    OBVIOUS
  <2>1. Head(Below) \in Frames(Below)
    BY <1>1, <1>2, Pop
  <2> QED BY <1>1, <1>5, <2>1
<1>7. Books' /\ Counted' = Counted
  BY <1>1, <1>3, BooksSame DEF Sound
<1>8. Typed'
  BY <1>1, <1>2 DEF Sound, Typed
<1>9. \A x \in Frames(stack') : Fits(x)'
  BY <1>1, <1>2, FitsSame
<1>10. HalfClosed'
  <2>1. \A c \in Conns : conn[c].state # "STOPPED"
    BY <1>1, NoneHalfClosed
  <2> QED BY <1>1, <2>1 DEF HalfClosed
<1>11. Phases'
  BY <1>1, <1>7 DEF Sound, Phases
<1>12. Freed' /\ Looping' /\ Ending' /\ Reached'
  BY <1>1, <1>4, <1>5, <1>6 DEF Freed, Looping, Ending, Reached, Top, FreeCbs
<1>13. Chain(may', stack')
  BY <1>1, <1>2
<1> QED BY <1>7, <1>8, <1>9, <1>10, <1>11, <1>12, <1>13 DEF Sound
-----------------------------------------------------------------------------
(* Steps: a connection is closed.                                          *)

\* The connection c after evsrv_conn_close has marked it
LEMMA Marked ==
  ASSUME Sound, Careful, NEW c \in Conns, NEW fs, BeginClose(c, fs), conn[c].state # "NONE"
  PROVE  /\ conn' \in [ Conns -> [ state : ConnStates, sock : Fds \cup {-1} ] ]
         /\ \A d \in Conns : d # c => conn'[d] = conn[d]
         /\ conn'[c].state \in {"NONE", "STOPPED"}
         /\ conn'[c].state = "STOPPED" => conn'[c].sock = conn[c].sock
         /\ conn'[c].state = "STOPPED" <=> IsSet("on_conn_destroy")
<1>1. conn \in [ Conns -> [ state : ConnStates, sock : Fds \cup {-1} ] ]
  BY DEF Sound, Typed
<1>2. (\E s \in Settings : s \in may) <=> IsSet("on_conn_destroy")
  <2>1. << "on_conn_destroy", "set" >> \in Settings
    BY DEF Settings
  <2> QED BY <2>1, CarefulCalls DEF IsSet
<1>3. conn' = [ conn EXCEPT ![c] = IF \E s \in Settings : s \in may
                                   THEN [ @ EXCEPT !.state = "STOPPED" ] ELSE NoConn ]
  BY DEF BeginClose
<1>4. CASE IsSet("on_conn_destroy")
  <2>1. conn' = [ conn EXCEPT ![c] = [ conn[c] EXCEPT !.state = "STOPPED" ] ]
    BY <1>2, <1>3, <1>4
  <2> QED BY <1>1, <1>4, <2>1 DEF ConnStates
<1>5. CASE ~IsSet("on_conn_destroy")
  <2>1. conn' = [ conn EXCEPT ![c] = NoConn ]
    BY <1>2, <1>3, <1>5
  <2> QED BY <1>1, <1>5, <2>1 DEF ConnStates, NoConn
<1> QED BY <1>4, <1>5

\* What the functions waiting for the close rely on
LEMMA MarkedFits ==
  ASSUME Sound, Careful, NEW c \in Conns, NEW fs, BeginClose(c, fs), Serves(c),
         NEW y, Fits(y), y.at # "on_conn_destroy", y.at = "read_cb" => y.conn # c
  PROVE  Fits(y)'
<1>1. /\ \A d \in Conns : d # c => conn'[d] = conn[d]
      /\ conn'[c].state \in {"NONE", "STOPPED"}
  BY Marked DEF Serves
<1>2. UNCHANGED << state, connections, sock, may >>
  BY DEF BeginClose, srv
<1>3. \A d \in Conns : Serves(d)' <=> Serves(d) /\ d # c
  BY <1>1 DEF Serves
<1>4. conn[c].state # "CREATED" /\ conn[c].state \notin {"NONE", "STOPPED"}
  BY DEF Serves
<1>5. FitsEnter(y)'
  <2> SUFFICES ASSUME y.at = "enter" PROVE FitsEnter(y)'
    BY DEF FitsEnter
  <2>1. FitsEnter(y)
    BY DEF Fits
  <2> QED BY <1>1, <1>2, <1>4, <2>1 DEF FitsEnter
<1>6. FitsClose(y)'
  BY <1>1, <1>2 DEF Fits, FitsClose
<1>7. FitsRead(y)'
  BY <1>3 DEF Fits, FitsRead
<1>8. FitsDestroy(y)'
  BY DEF FitsDestroy
<1>9. FitsStop(y)'
  BY <1>1, <1>2, <1>3 DEF Fits, FitsStop
<1>10. FitsDrain(y)'
  BY <1>1, <1>2, <1>3 DEF Fits, FitsDrain
<1>11. FitsAbort(y)'
  BY <1>2 DEF Fits, FitsAbort
<1> QED BY <1>5, <1>6, <1>7, <1>8, <1>9, <1>10, <1>11 DEF Fits

\* The functions fs that wait for the close of c
Waiting(c, fs) ==
  /\ fs \in Seq(Frame) /\ Chain(may, fs)
  /\ Work(fs) = Work(stack) /\ (InDrain(fs) <=> InDrain(stack))
  /\ \A y \in Frames(fs) :
       /\ y.at # "on_conn_destroy"
       /\ y.at \in {"on_read", "read_cb"} => << "on_read", "close_other" >> \in may
       /\ y.at = "close" => y.conn # c
  /\ fs # << >> =>
       /\ Head(fs).at \notin {"graceful_stop", "destroy"}
       /\ Head(fs).at \in {"count", "on_graceful_close"} =>
            Head(fs).conn = c /\ conn[c].state # "PENDING_CLOSE"

\* x has been put on fs to close c, and perhaps on_conn_destroy on it.
Stacked(x, c, fs) ==
  /\ x.at = "close" /\ x.conn = c /\ x.n = conn[c].sock /\ x.prev = conn[c].state
  /\ stack' \in Seq(Frame) /\ stack' # << >> /\ Chain(may', stack')
  /\ Work(stack') = {x} \cup Work(stack)
  /\ Leaving(stack') = {c} \cup Leaving(stack)
  /\ InDrain(stack') <=> InDrain(stack)
  /\ \A y \in Frames(stack') :
       \/ y = x \/ y \in Frames(fs)
       \/ y.at = "on_conn_destroy" /\ y.conn = c /\ IsSet("on_conn_destroy")
  /\ Head(stack').at \in {"close", "on_conn_destroy"}
  /\ IsSet("on_conn_destroy") =>
       Head(stack').at = "on_conn_destroy" /\ Head(stack').conn = c

\* The stack once a close has begun
LEMMA CloseStack ==
  ASSUME Sound, Careful, NEW c \in Conns, NEW fs, BeginClose(c, fs), Serves(c), Waiting(c, fs)
  PROVE  \E x \in Frame : Stacked(x, c, fs)
<1> DEFINE x == [ At("close", c, conn[c].sock) EXCEPT !.prev = conn[c].state ]
           d == App("on_conn_destroy", c)
           q == << x >> \o fs
<1>1. conn[c].sock \in Int /\ conn[c].state \in ConnStates
  BY Sockets DEF Serves, Sound, Typed
<1>2. /\ x \in Frame /\ x.at = "close" /\ x.conn = c /\ x.n = conn[c].sock
      /\ x.prev = conn[c].state
  BY <1>1 DEF At, Frame, Points
<1>3. d \in Frame /\ d.at = "on_conn_destroy" /\ d.conn = c
  BY AppFrame DEF Callbacks
<1>4. stack' = Asks("on_conn_destroy", c) \o << x >> \o fs /\ may' = may
  BY DEF BeginClose
<1>5. Asks("on_conn_destroy", c) = IF IsSet("on_conn_destroy") THEN << d >> ELSE << >>
  BY DEF Asks
<1> HIDE DEF x, d
<1>6. MayRun(may, x, fs)
  <2>1. \A y \in Frames(fs) : Over(may, x, y)
    BY <1>2 DEF Waiting, Over, Closing
  <2> QED BY <1>2, <2>1 DEF Waiting, MayRun, On, Owned
<1>7. fs \in Seq(Frame) /\ Chain(may, fs) /\ Work(fs) = Work(stack) /\ (InDrain(fs) <=> InDrain(stack))
      /\ Leaving(fs) = Leaving(stack)
  BY DEF Waiting, Leaving
<1>8. /\ q \in Seq(Frame) /\ q # << >> /\ Head(q) = x /\ Frames(q) = {x} \cup Frames(fs)
      /\ Chain(may, q) /\ Work(q) = {x} \cup Work(stack)
      /\ Leaving(q) = {c} \cup Leaving(stack)
      /\ InDrain(q) <=> InDrain(stack)
  BY <1>2, <1>6, <1>7, Push, PushChain, PushWork DEF Drains
<1>9. CASE ~IsSet("on_conn_destroy")
  <2>1. stack' = (<< >> \o << x >>) \o fs
    BY <1>4, <1>5, <1>9
  <2>2. stack' = q
    BY <1>2, <1>7, <2>1, PushJoined
  <2> HIDE DEF q
  <2>3. /\ stack' \in Seq(Frame) /\ stack' # << >> /\ Head(stack') = x /\ Chain(may', stack')
        /\ Frames(stack') = {x} \cup Frames(fs) /\ Work(stack') = {x} \cup Work(stack)
        /\ Leaving(stack') = {c} \cup Leaving(stack) /\ (InDrain(stack') <=> InDrain(stack))
    BY <1>4, <1>8, <2>2
  <2>4. \A y \in Frames(stack') : y = x \/ y \in Frames(fs)
    BY <2>3
  <2>5. Stacked(x, c, fs)
    BY <1>2, <1>9, <2>3, <2>4 DEF Stacked
  <2> QED BY <1>2, <2>5
<1>10. CASE IsSet("on_conn_destroy")
  <2>1. stack' = (<< d >> \o << x >>) \o fs
    BY <1>4, <1>5, <1>10
  <2>2. stack' = << d >> \o q
    BY <1>2, <1>3, <1>7, <2>1, PushJoined
  <2> HIDE DEF q
  <2>3. MayRun(may, d, q)
    <3>1. \A y \in Frames(q) : Over(may, d, y)
      BY <1>2, <1>3, <1>8 DEF Waiting, Over, Closing
    <3> QED BY <1>2, <1>3, <1>8, <3>1 DEF MayRun, On
  <2>4. /\ stack' \in Seq(Frame) /\ stack' # << >> /\ Head(stack') = d
        /\ Frames(stack') = {d} \cup Frames(q) /\ Chain(may', stack')
        /\ Work(stack') = Work(q) /\ Leaving(stack') = Leaving(q)
        /\ InDrain(stack') <=> InDrain(q)
    BY <1>3, <1>4, <1>8, <2>2, <2>3, Pushed DEF Drains
  <2>5. /\ Work(stack') = {x} \cup Work(stack) /\ Leaving(stack') = {c} \cup Leaving(stack)
        /\ InDrain(stack') <=> InDrain(stack)
        /\ Head(stack').at = "on_conn_destroy" /\ Head(stack').conn = c
    BY <1>3, <1>8, <2>4
  <2>6. \A y \in Frames(stack') :
          y = x \/ y \in Frames(fs) \/ (y.at = "on_conn_destroy" /\ y.conn = c)
    BY <1>3, <1>8, <2>4
  <2>7. Stacked(x, c, fs)
    BY <1>2, <1>10, <2>4, <2>5, <2>6 DEF Stacked
  <2> QED BY <1>2, <2>7
<1> QED BY <1>9, <1>10

\* A close may begin whoever asks for it: the loops, the application, a failure.
LEMMA CloseSound ==
  ASSUME Sound, Careful, NEW c \in Conns, NEW fs, BeginClose(c, fs), Serves(c), Waiting(c, fs),
         \A d \in Conns : conn[d].state # "STOPPED", gone # TRUE,
         \A y \in Frames(fs) : Fits(y)'
  PROVE  Sound'
<1>1. PICK x \in Frame : Stacked(x, c, fs)
  BY CloseStack
<1>a. /\ x.at = "close" /\ x.conn = c /\ x.n = conn[c].sock /\ x.prev = conn[c].state
      /\ stack' \in Seq(Frame) /\ stack' # << >> /\ Chain(may', stack')
      /\ Work(stack') = {x} \cup Work(stack)
      /\ Leaving(stack') = {c} \cup Leaving(stack)
      /\ InDrain(stack') <=> InDrain(stack)
      /\ \A y \in Frames(stack') :
           \/ y = x \/ y \in Frames(fs)
           \/ y.at = "on_conn_destroy" /\ y.conn = c /\ IsSet("on_conn_destroy")
      /\ Head(stack').at \in {"close", "on_conn_destroy"}
      /\ IsSet("on_conn_destroy") =>
           Head(stack').at = "on_conn_destroy" /\ Head(stack').conn = c
  BY <1>1 DEF Stacked
<1>2. UNCHANGED << state, active_connections, connections, accept_rw, sock, told, gone, fault, may >>
  BY DEF BeginClose, srv
<1>3. /\ conn' \in [ Conns -> [ state : ConnStates, sock : Fds \cup {-1} ] ]
      /\ \A d \in Conns : d # c => conn'[d] = conn[d]
      /\ conn'[c].state \in {"NONE", "STOPPED"}
      /\ conn'[c].state = "STOPPED" => conn'[c].sock = conn[c].sock
      /\ conn'[c].state = "STOPPED" <=> IsSet("on_conn_destroy")
  BY Marked DEF Serves
<1>4. /\ conn[c].sock \in Fds /\ connections[conn[c].sock] = c
      /\ conn[c].state \in {"ACTIVE", "PENDING_CLOSE"}
  BY Sockets DEF Sound, Books, Serves
<1>5. Counted' = Counted
  <2>1. c \in Live /\ Live \ {c} \subseteq Live' /\ Live' \subseteq Live
    BY <1>3, <1>4 DEF Live
  <2> QED BY <1>a, <2>1 DEF Counted
<1>6. Typed'
  BY <1>a, <1>2, <1>3 DEF Sound, Typed
<1>7. \A y \in Frames(stack') : Fits(y)'
  <2>1. Fits(x)'
    BY <1>a, <1>2, <1>3, <1>4 DEF Fits, FitsEnter, FitsClose, FitsRead, FitsDestroy, FitsStop,
       FitsDrain, FitsAbort, Stops, Drains
  <2>2. ASSUME NEW y, y.at = "on_conn_destroy", y.conn = c, IsSet("on_conn_destroy")
        PROVE  Fits(y)'
    BY <1>3, <2>2 DEF Fits, FitsEnter, FitsClose, FitsRead, FitsDestroy, FitsStop,
       FitsDrain, FitsAbort, Stops, Drains
  <2> QED BY <1>a, <2>1, <2>2
<1>8. Books'
  <2>1. \A d \in Conns : /\ Serves(d)' => Serves(d) /\ d # c
                         /\ d # c => conn'[d] = conn[d]
    BY <1>3 DEF Serves
  <2>2. active_connections' = Cardinality(Counted')
    BY <1>2, <1>5 DEF Sound, Books
  <2>3. ASSUME NEW d \in Conns
        PROVE  /\ conn'[d].state # "NONE" => conn'[d].sock \in Fds
               /\ conn'[d].state = "CREATED" => \E z \in Work(stack') : z.at = "enter" /\ z.conn = d
               /\ Serves(d)' => connections'[conn'[d].sock] = d
    <3>1. CASE d = c
      BY <1>3, <1>4, <2>1, <3>1
    <3>2. CASE d # c
      BY <1>a, <1>2, <2>1, <3>2 DEF Sound, Books
    <3> QED BY <3>1, <3>2
  <2>4. ASSUME NEW f \in Fds, connections'[f] # None
        PROVE  \/ (Serves(connections[f]) /\ conn[connections[f]].sock = f)'
               \/ \E z \in Work(stack') : z.at = "close" /\ z.n = f
    <3>1. CASE \E z \in Work(stack) : z.at = "close" /\ z.n = f
      BY <1>a, <3>1
    <3>2. CASE Serves(connections[f]) /\ conn[connections[f]].sock = f
      <4>1. CASE connections[f] = c
        <5>1. x \in Work(stack') /\ x.at = "close" /\ x.n = f
          BY <1>a, <3>2, <4>1
        <5> QED BY <5>1
      <4>2. CASE connections[f] # c
        <5>1. connections[f] \in Conns
          BY <1>2, <2>4 DEF Sound, Typed
        <5>2. conn'[connections'[f]] = conn[connections[f]]
          BY <1>2, <1>3, <4>2, <5>1
        <5> QED BY <3>2, <5>2 DEF Serves
      <4> QED BY <4>1, <4>2
    <3> QED BY <1>2, <2>4, <3>1, <3>2 DEF Sound, Books
  <2> QED BY <2>2, <2>3, <2>4 DEF Books
<1>9. HalfClosed'
  BY <1>a, <1>3 DEF HalfClosed, Top
<1>10. Phases'
  <2>1. \A d \in Conns : conn'[d].state = "PENDING_CLOSE" => conn[d].state = "PENDING_CLOSE"
    BY <1>3
  <2> QED BY <1>2, <1>5, <2>1 DEF Sound, Phases
<1>11. Freed' /\ Looping' /\ Ending'
  BY <1>a, <1>2 DEF Freed, Looping, Ending, Top
<1>12. Reached'
  <2> SUFFICES ASSUME state' = "GRACEFULLY_STOPPING", ~InDrain(stack') PROVE Reached'
    BY DEF Reached
  <2>1. /\ Counted # {} /\ \A d \in Conns : conn[d].state # "ACTIVE"
        /\ \A z \in Work(stack) : z.at = "close" => z.prev = "PENDING_CLOSE"
    BY <1>a, <1>2 DEF Sound, Reached
  <2>2. \A d \in Conns : conn'[d].state # "ACTIVE"
    BY <1>3, <2>1
  <2>3. \A z \in Work(stack') : z.at = "close" => z.prev = "PENDING_CLOSE"
    BY <1>a, <1>4, <2>1
  <2> QED BY <1>5, <2>1, <2>2, <2>3 DEF Reached
<1> QED BY <1>a, <1>6, <1>7, <1>8, <1>9, <1>10, <1>11, <1>12 DEF Sound
-----------------------------------------------------------------------------
(* Steps: the loops of evsrv_stop and evsrv_graceful_stop.                 *)

\* Min is the least element of a set of numbers.
LEMMA MinIs ==
  ASSUME NEW S, S \subseteq Nat, S # {}
  PROVE  Min(S) \in S /\ \A y \in S : Min(S) =< y
<1>1. PICK x \in S : \A y \in S : ~(<< y, x >> \in OpToRel(<, Nat))
  BY NatLessThanWellFounded, WFMin
<1>2. \A y \in S : x =< y
  <2> SUFFICES ASSUME NEW y \in S PROVE x =< y
    OBVIOUS
  <2>1. x \in Nat /\ y \in Nat
    BY <1>1
  <2>2. ~(y < x)
    BY <1>1, <2>1 DEF OpToRel
  <2> QED BY <2>1, <2>2
<1> QED BY <1>1, <1>2 DEF Min

\* What lies below the loops
LEMMA BelowLoop ==
  ASSUME Sound, stack # << >>, Top.at \in {"stop", "graceful_stop", "count"}
  PROVE  /\ \A x \in Frames(Below) :
              x.at \in FreeCbs \cup {"accept_cb"} \/ (x.at \in Stops /\ Top.at = "stop")
         /\ Work(stack) = {} /\ Work(Below) = {} /\ ~InDrain(Below)
         /\ gone # TRUE
<1>1. \A x \in Frames(Below) :
        x.at \in FreeCbs \cup {"accept_cb"} \/ (x.at \in Stops /\ Top.at = "stop")
  <2> SUFFICES ASSUME NEW x \in Frames(Below)
               PROVE  x.at \in FreeCbs \cup {"accept_cb"} \/ (x.at \in Stops /\ Top.at = "stop")
    OBVIOUS
  <2>1. Over(may, Top, x) /\ x.at \in Points \cup Callbacks
    BY Opened DEF MayRun, Frame
  <2> QED BY <2>1 DEF Over, FreeCbs, Closing, Stops, Points, Callbacks
<1>2. Work(Below) = {} /\ ~InDrain(Below)
  BY <1>1 DEF Work, InDrain, FreeCbs, Stops, Drains
<1>3. Work(stack) = {}
  BY <1>2, OpenedWork
<1>4. gone # TRUE
  <2>1. Top \in Frames(stack)
    BY Opened
  <2> QED BY <2>1 DEF Sound, Freed, FreeCbs
<1> QED BY <1>1, <1>2, <1>3, <1>4

\* The entry a loop comes to, and the connection it finds there
LEMMA Found ==
  ASSUME Sound, stack # << >>, Top.at \in {"stop", "graceful_stop"}, Entries(Top.n) # {}
  PROVE  LET f == Min(Entries(Top.n))
             c == connections[f]
         IN /\ f \in Fds /\ f \in Nat /\ f >= Top.n
            /\ c \in Conns /\ Serves(c) /\ conn[c].sock = f
            /\ \A d \in Conns : Serves(d) /\ d # c /\ conn[d].sock >= Top.n => conn[d].sock > f
<1> DEFINE S == Entries(Top.n)
           f == Min(S)
<1>1. S \subseteq Nat /\ S # {} /\ S \subseteq Fds
  BY Sockets DEF Entries, OpenFds
<1>2. f \in S /\ \A y \in S : f =< y
  BY <1>1, MinIs
<1>3. f \in Fds /\ f \in Nat /\ f >= Top.n /\ connections[f] # None
  BY <1>1, <1>2 DEF Entries, OpenFds
<1>4. /\ connections[f] \in Conns /\ Serves(connections[f])
      /\ conn[connections[f]].sock = f
  BY <1>3, AllServe, BelowLoop
<1>5. ASSUME NEW d \in Conns, Serves(d), d # connections[f], conn[d].sock >= Top.n
      PROVE  conn[d].sock > f
  <2>1. connections[conn[d].sock] = d /\ conn[d].sock \in Fds /\ conn[d].sock \in Nat
    BY <1>5, Sockets DEF Sound, Books, Serves
  <2>2. conn[d].sock \in S
    BY <1>5, <2>1, Sockets DEF Entries, OpenFds
  <2>3. conn[d].sock # f
    BY <1>5, <2>1
  <2> QED BY <1>2, <1>3, <2>1, <2>2, <2>3
<1> HIDE DEF f, S
<1> QED BY <1>3, <1>4, <1>5 DEF f, S

\* No connection is left where the loop has come to.
LEMMA NoneLeft ==
  ASSUME Sound, stack # << >>, Entries(Top.n) = {}
  PROVE  \A d \in Conns : Serves(d) => ~(conn[d].sock >= Top.n)
<1> SUFFICES ASSUME NEW d \in Conns, Serves(d), conn[d].sock >= Top.n PROVE FALSE
  OBVIOUS
<1>1. connections[conn[d].sock] = d /\ conn[d].sock \in Fds
  BY Sockets DEF Sound, Books, Serves
<1>2. conn[d].sock \in Entries(Top.n)
  BY <1>1, Sockets DEF Entries, OpenFds
<1> QED BY <1>2

\* A new index, or a new name, for the function at the top of the stack
LEMMA Renewed ==
  ASSUME Sound, stack # << >>, Top.at \in {"stop", "graceful_stop", "count"}, NEW x \in Frame,
         x.at = Top.at \/ (Top.at # "stop" /\ x.at \in Drains)
  PROVE  /\ << x >> \o Below \in Seq(Frame) /\ << x >> \o Below # << >>
         /\ Head(<< x >> \o Below) = x
         /\ Frames(<< x >> \o Below) = {x} \cup Frames(Below)
         /\ MayRun(may, x, Below) /\ Chain(may, << x >> \o Below)
         /\ Work(<< x >> \o Below) = Work(stack) /\ Work(stack) = {}
         /\ InDrain(<< x >> \o Below) <=> InDrain(stack)
<1>1. /\ Below \in Seq(Frame) /\ Chain(may, Below) /\ MayRun(may, Top, Below)
      /\ Frames(Below) \subseteq Frame
  BY Opened
<1>2. /\ \A y \in Frames(Below) :
           y.at \in FreeCbs \cup {"accept_cb"} \/ (y.at \in Stops /\ Top.at = "stop")
      /\ Work(stack) = {} /\ Work(Below) = {} /\ ~InDrain(Below)
  BY BelowLoop
<1>3. MayRun(may, x, Below)
  <2>1. \A y \in Frames(Below) : Over(may, x, y)
    BY <1>2 DEF Over, FreeCbs, Stops, Drains
  <2>2. Below # << >> => On(x, Head(Below))
    BY <1>1 DEF MayRun, On, Drains
  <2> QED BY <2>1, <2>2 DEF MayRun, Owned, Drains
<1>4. InDrain(stack) <=> Top.at \in Drains
  BY <1>2, OpenedWork
<1> QED BY <1>1, <1>2, <1>3, <1>4, Push, PushChain, PushWork DEF Drains

\* The loop of evsrv_stop closes the next connection, or ends with none left.
LEMMA StopLoopSound == ASSUME Sound, Careful, StopLoop PROVE Sound'
<1>1. stack # << >> /\ Top.at = "stop"
  BY DEF StopLoop, Runs
<1>2. /\ Below \in Seq(Frame) /\ Chain(may, Below) /\ MayRun(may, Top, Below)
      /\ Top \in Frame /\ Fits(Top) /\ \A x \in Frames(Below) : Fits(x)
  BY <1>1, Opened
<1>3. /\ \A x \in Frames(Below) : x.at \in FreeCbs \cup Stops \cup {"accept_cb"}
      /\ Work(stack) = {} /\ Work(Below) = {} /\ ~InDrain(Below) /\ gone # TRUE
  BY <1>1, BelowLoop
<1>4. \A c \in Conns : conn[c].state # "STOPPED"
  BY <1>1, NoneHalfClosed
<1>5. /\ sock = FALSE /\ (state = "GRACEFULLY_STOPPING" => Aborts(may))
      /\ \A c \in Conns : Serves(c) => conn[c].sock >= Top.n
      /\ Top.n \in Int
  BY <1>1, <1>2 DEF Fits, FitsStop, Stops, Frame
<1>6. CASE Entries(Top.n) # {}
  <2>1. PICK f \in Fds : f = Min(Entries(Top.n))
    BY <1>1, <1>6, Found
  <2>2. PICK c \in Conns : c = connections[f]
    BY <1>1, <1>6, <2>1, Found
  <2>3. /\ f \in Nat /\ f >= Top.n /\ Serves(c) /\ conn[c].sock = f
        /\ \A d \in Conns : Serves(d) /\ d # c /\ conn[d].sock >= Top.n => conn[d].sock > f
    BY <1>1, <1>6, <2>1, <2>2, Found
  <2>4. PICK x \in Frame : x = At("stop", None, Following(f)) /\ x.at = "stop" /\ x.n = f + 1
    <3>1. Following(f) \in Int /\ Following(f) = f + 1
      BY <2>3 DEF Following
    <3>2. "stop" \in Points
      BY DEF Points
    <3> QED BY <3>1, <3>2, AtFrame
  <2> DEFINE fs == << x >> \o Below
  <2>5. BeginClose(c, fs)
    <3>1. c \in Live
      BY <2>3 DEF Live, Serves
    <3> QED BY <1>3, <1>6, <2>1, <2>2, <2>4, <3>1 DEF StopLoop
  <2>6. /\ fs \in Seq(Frame) /\ Head(fs) = x /\ Frames(fs) = {x} \cup Frames(Below)
        /\ Chain(may, fs) /\ Work(fs) = Work(stack) /\ (InDrain(fs) <=> InDrain(stack))
    BY <1>1, <2>4, Renewed
  <2> HIDE DEF fs
  <2>7. Waiting(c, fs)
    BY <1>3, <2>4, <2>6 DEF Waiting, FreeCbs, Stops
  <2>8. \A y \in Frames(Below) : Fits(y)'
    <3> SUFFICES ASSUME NEW y \in Frames(Below) PROVE Fits(y)'
      OBVIOUS
    <3>1. Fits(y) /\ y.at \notin {"on_conn_destroy", "read_cb"}
      BY <1>2, <1>3 DEF FreeCbs, Stops
    <3> QED BY <2>3, <2>5, <3>1, MarkedFits
  <2>9. Fits(x)'
    <3>1. /\ \A d \in Conns : d # c => conn'[d] = conn[d]
          /\ conn'[c].state \in {"NONE", "STOPPED"}
      BY <2>3, <2>5, Marked DEF Serves
    <3>2. UNCHANGED << state, sock, may >>
      BY <2>5 DEF BeginClose, srv
    <3>3. ASSUME NEW d \in Conns, Serves(d)' PROVE conn'[d].sock >= f + 1
      <4>1. d # c
        BY <3>1, <3>3 DEF Serves
      <4>2. Serves(d) /\ conn'[d].sock = conn[d].sock /\ conn[d].sock \in Nat
        BY <3>1, <3>3, <4>1, Sockets DEF Serves
      <4> QED BY <1>5, <2>3, <4>1, <4>2
    <3>4. FitsStop(x)'
      BY <1>5, <2>4, <3>2, <3>3 DEF FitsStop, Stops
    <3> QED BY <2>4, <3>4 DEF Fits, FitsEnter, FitsClose, FitsRead, FitsDestroy, FitsDrain,
                              FitsAbort, Drains
  <2>10. \A y \in Frames(fs) : Fits(y)'
    BY <2>6, <2>8, <2>9
  <2> QED BY <1>3, <1>4, <2>3, <2>5, <2>7, <2>10, CloseSound
<1>7. CASE Entries(Top.n) = {}
  <2>1. /\ state' = "STOPPED" /\ stack' = Below
        /\ UNCHANGED << active_connections, connections, accept_rw, sock, conn, told, gone, fault, may >>
    BY <1>3, <1>7 DEF StopLoop
  <2>2. Live = {} /\ Counted = {}
    <3>1. \A d \in Conns : ~Serves(d)
      BY <1>1, <1>5, <1>7, NoneLeft
    <3> QED BY <1>1, <1>3, <3>1, AllServe DEF Live
  <2>3. \A d \in Conns : conn[d].state = "NONE"
    BY <2>2 DEF Live
  <2>4. Books' /\ Counted' = Counted
    BY <1>3, <2>1, BooksSame DEF Sound
  <2>5. Typed'
    BY <1>2, <2>1 DEF Sound, Typed
  <2>6. \A x \in Frames(stack') : Fits(x)'
    <3> SUFFICES ASSUME NEW x \in Frames(Below) PROVE Fits(x)'
      BY <2>1
    <3>1. Fits(x) /\ x.at \in FreeCbs \cup Stops \cup {"accept_cb"}
      BY <1>2, <1>3
    <3> QED BY <2>1, <3>1 DEF Fits, FitsEnter, FitsClose, FitsRead, FitsDestroy, FitsStop, FitsDrain,
               FitsAbort, Serves, Stops, Drains, FreeCbs
  <2>7. HalfClosed' /\ Phases'
    <3>1. told \in {0, 1} /\ accept_rw = sock /\ (sock = TRUE => FALSE)
      BY <1>5 DEF Sound, Phases
    <3> QED BY <2>1, <2>2, <2>3, <2>4, <3>1 DEF HalfClosed, Phases
  <2>8. stack' # << >> => Head(stack').at # "graceful_stop"
    <3> SUFFICES ASSUME Below # << >> PROVE Head(Below).at # "graceful_stop"
      BY <2>1
    <3>1. Head(Below) \in Frames(Below)
      BY <1>2, Pop
    <3> QED BY <1>3, <3>1 DEF FreeCbs, Stops
  <2>9. Freed' /\ Looping' /\ Ending' /\ Reached'
    BY <1>3, <2>1, <2>8 DEF Freed, Looping, Ending, Reached, Top
  <2>10. Chain(may', stack')
    BY <1>2, <2>1
  <2> QED BY <2>4, <2>5, <2>6, <2>7, <2>9, <2>10 DEF Sound
<1> QED BY <1>6, <1>7

\* The loop of a graceful stop closes or asks the next connection, or ends.
LEMMA GracefulLoopSound == ASSUME Sound, Careful, GracefulLoop PROVE Sound'
<1>1. stack # << >> /\ Top.at = "graceful_stop"
  BY DEF GracefulLoop, Runs
<1>2. /\ Below \in Seq(Frame) /\ Chain(may, Below) /\ MayRun(may, Top, Below)
      /\ Top \in Frame /\ Fits(Top) /\ \A x \in Frames(Below) : Fits(x)
  BY <1>1, Opened
<1>3. /\ \A x \in Frames(Below) : x.at \in FreeCbs \cup {"accept_cb"}
      /\ Work(stack) = {} /\ Work(Below) = {} /\ ~InDrain(Below) /\ gone # TRUE
  BY <1>1, BelowLoop
<1>4. \A c \in Conns : conn[c].state # "STOPPED"
  BY <1>1, NoneHalfClosed
<1>5. /\ state = "GRACEFULLY_STOPPING" /\ Top.n \in Int
      /\ \A c \in Conns : Serves(c) =>
           /\ conn[c].sock >= Top.n => conn[c].state = "ACTIVE"
           /\ conn[c].sock < Top.n => conn[c].state = "PENDING_CLOSE"
      /\ Counted # {}
  <2>1. FitsDrain(Top) /\ Looping /\ Top.n \in Int
    BY <1>2 DEF Fits, Frame, Sound
  <2>2. \A c \in Conns : Serves(c) => conn[c].state # "ACTIVE" \/ c # Top.conn
    BY <1>1, <2>1 DEF Looping
  <2> QED BY <1>1, <2>1, <2>2 DEF FitsDrain, Drains, Serves, Looping
<1>6. InDrain(stack)
  BY <1>1, OpenedWork DEF Drains
<1>7. ASSUME NEW f \in Fds, NEW c \in Conns, f = Min(Entries(Top.n)), c = connections[f],
             Entries(Top.n) # {}
      PROVE  /\ f \in Nat /\ Serves(c) /\ conn[c].sock = f /\ conn[c].state = "ACTIVE"
             /\ \A d \in Conns : Serves(d) /\ d # c =>
                  /\ conn[d].sock >= f + 1 => conn[d].state = "ACTIVE"
                  /\ conn[d].sock < f + 1 => conn[d].state = "PENDING_CLOSE"
  <2>1. /\ f \in Nat /\ f >= Top.n /\ Serves(c) /\ conn[c].sock = f
        /\ \A d \in Conns : Serves(d) /\ d # c /\ conn[d].sock >= Top.n => conn[d].sock > f
    BY <1>1, <1>7, Found
  <2>2. \A d \in Conns : Serves(d) => conn[d].sock \in Int
    BY Sockets DEF Serves
  <2> QED BY <1>5, <2>1, <2>2
<1>8. ASSUME NEW f \in Fds, NEW c \in Conns, f = Min(Entries(Top.n)), c = connections[f],
             Entries(Top.n) # {}, c \in Live \ Graceful,
             BeginClose(c, << At("count", c, Following(f)) >> \o Below)
      PROVE  Sound'
  <2>1. /\ f \in Nat /\ Serves(c) /\ conn[c].sock = f /\ conn[c].state = "ACTIVE"
        /\ \A d \in Conns : Serves(d) /\ d # c =>
             /\ conn[d].sock >= f + 1 => conn[d].state = "ACTIVE"
             /\ conn[d].sock < f + 1 => conn[d].state = "PENDING_CLOSE"
    BY <1>7, <1>8
  <2>2. PICK x \in Frame : /\ x = At("count", c, Following(f))
                           /\ x.at = "count" /\ x.n = f + 1 /\ x.conn = c
    <3>1. Following(f) \in Int /\ Following(f) = f + 1
      BY <2>1 DEF Following
    <3>2. "count" \in Points
      BY DEF Points
    <3> QED BY <3>1, <3>2, AtFrame
  <2> DEFINE fs == << x >> \o Below
  <2>3. BeginClose(c, fs)
    BY <1>8, <2>2
  <2>4. /\ fs \in Seq(Frame) /\ Head(fs) = x /\ Frames(fs) = {x} \cup Frames(Below)
        /\ Chain(may, fs) /\ Work(fs) = Work(stack) /\ (InDrain(fs) <=> InDrain(stack))
    BY <1>1, <2>2, Renewed DEF Drains
  <2> HIDE DEF fs
  <2>5. Waiting(c, fs)
    BY <1>3, <2>1, <2>2, <2>4 DEF Waiting, FreeCbs
  <2>6. \A y \in Frames(Below) : Fits(y)'
    <3> SUFFICES ASSUME NEW y \in Frames(Below) PROVE Fits(y)'
      OBVIOUS
    <3>1. Fits(y) /\ y.at \notin {"on_conn_destroy", "read_cb"}
      BY <1>2, <1>3 DEF FreeCbs
    <3> QED BY <2>1, <2>3, <3>1, MarkedFits
  <2>7. Fits(x)'
    <3>1. /\ \A d \in Conns : d # c => conn'[d] = conn[d]
          /\ conn'[c].state \in {"NONE", "STOPPED"}
      BY <2>1, <2>3, Marked DEF Serves
    <3>2. state' = state
      BY <2>3 DEF BeginClose, srv
    <3>3. \A d \in Conns : Serves(d)' => Serves(d) /\ d # c /\ conn'[d] = conn[d]
      BY <3>1 DEF Serves
    <3>4. FitsDrain(x)'
      BY <1>5, <2>1, <2>2, <3>2, <3>3 DEF FitsDrain, Drains
    <3> QED BY <2>2, <3>4 DEF Fits, FitsEnter, FitsClose, FitsRead, FitsDestroy, FitsStop,
                              FitsAbort, Stops
  <2>8. \A y \in Frames(fs) : Fits(y)'
    BY <2>4, <2>6, <2>7
  <2> QED BY <1>3, <1>4, <2>1, <2>3, <2>5, <2>8, CloseSound
<1>9. ASSUME NEW f \in Fds, NEW c \in Conns, f = Min(Entries(Top.n)), c = connections[f],
             Entries(Top.n) # {},
             stack' = << App("on_graceful_close", c), At("graceful_stop", c, Following(f)) >> \o Below,
             UNCHANGED << srv, conn, fault, may >>
      PROVE  Sound'
  <2>1. /\ f \in Nat /\ Serves(c) /\ conn[c].sock = f /\ conn[c].state = "ACTIVE"
        /\ \A d \in Conns : Serves(d) /\ d # c =>
             /\ conn[d].sock >= f + 1 => conn[d].state = "ACTIVE"
             /\ conn[d].sock < f + 1 => conn[d].state = "PENDING_CLOSE"
    BY <1>7, <1>9
  <2>2. PICK x \in Frame : /\ x = At("graceful_stop", c, Following(f))
                           /\ x.at = "graceful_stop" /\ x.n = f + 1 /\ x.conn = c
    <3>1. Following(f) \in Int /\ Following(f) = f + 1
      BY <2>1 DEF Following
    <3>2. "graceful_stop" \in Points
      BY DEF Points
    <3> QED BY <3>1, <3>2, AtFrame
  <2>3. PICK y \in Frame : /\ y = App("on_graceful_close", c)
                           /\ y.at = "on_graceful_close" /\ y.conn = c
    <3>1. "on_graceful_close" \in Callbacks
      BY DEF Callbacks
    <3> QED BY <3>1, AppFrame
  <2> DEFINE q == << x >> \o Below
  <2>4. stack' = << y >> \o q
    <3>1. stack' = << y, x >> \o Below
      BY <1>9, <2>2, <2>3
    <3> QED BY <1>2, <3>1, PushTwo
  <2>5. /\ q \in Seq(Frame) /\ q # << >> /\ Head(q) = x /\ Frames(q) = {x} \cup Frames(Below)
        /\ Chain(may, q) /\ Work(q) = Work(stack) /\ InDrain(q)
    BY <1>1, <1>6, <2>2, Renewed
  <2> HIDE DEF q
  <2>6. MayRun(may, y, q)
    <3>1. \A z \in Frames(q) : Over(may, y, z)
      BY <1>3, <2>2, <2>3, <2>5 DEF Over, FreeCbs, Stops
    <3> QED BY <2>2, <2>3, <2>5, <3>1 DEF MayRun, On
  <2>7. /\ UNCHANGED << state, active_connections, connections, accept_rw, sock, told, gone,
                        conn, fault, may >>
    BY <1>9 DEF srv
  <2>8. /\ stack' \in Seq(Frame) /\ stack' # << >> /\ Head(stack') = y
        /\ Frames(stack') = {y, x} \cup Frames(Below)
        /\ Chain(may', stack') /\ Work(stack') = Work(stack) /\ InDrain(stack')
    BY <2>3, <2>4, <2>5, <2>6, <2>7, Pushed
  <2>9. Books' /\ Counted' = Counted
    BY <2>7, <2>8, BooksSame DEF Sound
  <2>10. Typed' /\ Phases'
    BY <1>9, <2>7, <2>8, <2>9, TypedSame, PhasesSame DEF Sound
  <2>11. Fits(x) /\ Fits(y)
    <3>1. FitsDrain(x)
      BY <1>5, <2>1, <2>2 DEF FitsDrain, Drains
    <3>2. FitsDrain(y)
      BY <2>1, <2>3 DEF FitsDrain, Drains
    <3> QED BY <2>2, <2>3, <3>1, <3>2 DEF Fits, FitsEnter, FitsClose, FitsRead, FitsDestroy,
               FitsStop, FitsAbort, Stops
  <2>12. \A z \in Frames(stack') : Fits(z)'
    BY <1>2, <2>7, <2>8, <2>11, FitsSame
  <2>13. HalfClosed'
    BY <1>4, <2>7 DEF HalfClosed
  <2>14. Freed' /\ Looping' /\ Ending' /\ Reached'
    BY <1>3, <2>3, <2>7, <2>8 DEF Freed, Looping, Ending, Reached, Top
  <2> QED BY <2>8, <2>9, <2>10, <2>12, <2>13, <2>14 DEF Sound
<1>10. CASE Entries(Top.n) # {}
  <2>1. PICK f \in Fds : f = Min(Entries(Top.n))
    BY <1>1, <1>10, Found
  <2>2. PICK c \in Conns : c = connections[f]
    BY <1>1, <1>10, <2>1, Found
  <2>3. c \in Live
    BY <1>7, <1>10, <2>1, <2>2 DEF Live, Serves
  <2> QED BY <1>3, <1>8, <1>9, <1>10, <2>1, <2>2, <2>3 DEF GracefulLoop
<1>11. CASE Entries(Top.n) = {}
  <2>1. stack' = Below /\ UNCHANGED << srv, conn, fault, may >>
    BY <1>3, <1>11 DEF GracefulLoop
  <2>2. UNCHANGED << state, active_connections, connections, accept_rw, sock, told, gone,
                     conn, fault, may >>
    BY <2>1 DEF srv
  <2>3. Books' /\ Counted' = Counted
    BY <1>3, <2>1, <2>2, BooksSame DEF Sound
  <2>4. Typed' /\ Phases'
    BY <1>2, <2>1, <2>2, <2>3, TypedSame, PhasesSame DEF Sound
  <2>5. \A x \in Frames(stack') : Fits(x)'
    BY <1>2, <2>1, <2>2, FitsSame
  <2>6. HalfClosed'
    BY <1>4, <2>2 DEF HalfClosed
  <2>7. stack' # << >> => Head(stack').at \in FreeCbs \cup {"accept_cb"}
    <3> SUFFICES ASSUME Below # << >> PROVE Head(Below).at \in FreeCbs \cup {"accept_cb"}
      BY <2>1
    <3>1. Head(Below) \in Frames(Below)
      BY <1>2, Pop
    <3> QED BY <1>3, <3>1
  <2>8. Freed' /\ Looping' /\ Ending'
    BY <1>3, <2>1, <2>2, <2>7 DEF Freed, Looping, Ending, Top, FreeCbs
  <2>9. \A c \in Conns : conn[c].state # "ACTIVE"
    <3>1. \A c \in Conns : Serves(c) => ~(conn[c].sock >= Top.n) /\ conn[c].sock \in Int
      BY <1>1, <1>11, NoneLeft, Sockets DEF Serves
    <3> QED BY <1>5, <3>1 DEF Serves
  <2>10. Reached'
    BY <1>3, <1>5, <2>1, <2>2, <2>3, <2>9 DEF Reached
  <2> QED BY <1>2, <2>1, <2>2, <2>3, <2>4, <2>5, <2>6, <2>8, <2>10 DEF Sound
<1> QED BY <1>10, <1>11

\* on_graceful_close runs on the loop that has called it.
LEMMA OnTheLoop ==
  ASSUME Sound, stack # << >>, Top.at = "on_graceful_close"
  PROVE  /\ Below # << >> /\ Head(Below).at = "graceful_stop" /\ Head(Below).conn = Top.conn
         /\ Head(Below) \in Frame /\ Tail(Below) \in Seq(Frame)
         /\ Frames(Below) = {Head(Below)} \cup Frames(Tail(Below))
         /\ Chain(may, Tail(Below)) /\ MayRun(may, Head(Below), Tail(Below))
         /\ \A x \in Frames(Tail(Below)) : x.at \in FreeCbs \cup {"accept_cb"}
         /\ Work(stack) = {} /\ InDrain(stack) /\ gone # TRUE /\ state = "GRACEFULLY_STOPPING"
         /\ Top.conn \in Conns /\ conn[Top.conn].state # "PENDING_CLOSE"
<1>1. /\ Below \in Seq(Frame) /\ Chain(may, Below) /\ MayRun(may, Top, Below)
      /\ Frames(Below) \subseteq Frame /\ Fits(Top) /\ \A x \in Frames(Below) : Fits(x)
      /\ Frames(stack) = {Top} \cup Frames(Below)
  BY Opened
<1>2. Below # << >> /\ Head(Below).at = "graceful_stop" /\ Head(Below).conn = Top.conn
  BY <1>1 DEF MayRun, On, Owned
<1>3. /\ Head(Below) \in Frame /\ Tail(Below) \in Seq(Frame)
      /\ Frames(Below) = {Head(Below)} \cup Frames(Tail(Below))
  BY <1>1, <1>2, Pop
<1>4. Chain(may, Tail(Below)) /\ MayRun(may, Head(Below), Tail(Below))
  BY <1>1, <1>2, PopChain
<1>5. \A x \in Frames(Tail(Below)) : x.at \in FreeCbs \cup {"accept_cb"}
  <2> SUFFICES ASSUME NEW x \in Frames(Tail(Below)) PROVE x.at \in FreeCbs \cup {"accept_cb"}
    OBVIOUS
  <2>1. Over(may, Head(Below), x) /\ x \in Frame
    BY <1>1, <1>3, <1>4 DEF MayRun
  <2>2. x.at \in Points \cup Callbacks
    BY <2>1 DEF Frame
  <2> QED BY <1>2, <2>1, <2>2 DEF Over, FreeCbs, Closing, Stops, Points, Callbacks
<1>6. Work(stack) = {} /\ InDrain(stack)
  BY <1>1, <1>2, <1>3, <1>5 DEF Work, InDrain, FreeCbs, Drains
<1>7. gone # TRUE
  BY <1>1 DEF Sound, Freed, FreeCbs
<1>8. state = "GRACEFULLY_STOPPING"
  <2>1. Fits(Head(Below))
    BY <1>1, <1>3
  <2> QED BY <1>2, <2>1 DEF Fits, FitsDrain, Drains
<1>9. Top.conn \in Conns /\ conn[Top.conn].state # "PENDING_CLOSE"
  BY <1>1 DEF Fits, FitsDrain
<1> QED BY <1>2, <1>3, <1>4, <1>5, <1>6, <1>7, <1>8, <1>9

\* A function that goes on is the same but for the place.
LEMMA Renamed ==
  ASSUME NEW x \in Frame, NEW p \in Points
  PROVE  /\ [ x EXCEPT !.at = p ] \in Frame /\ [ x EXCEPT !.at = p ].at = p
         /\ [ x EXCEPT !.at = p ].conn = x.conn /\ [ x EXCEPT !.at = p ].n = x.n
         /\ [ x EXCEPT !.at = p ].prev = x.prev
BY DEF Frame

\* on_graceful_close has closed its connection, or leaves it pending.
LEMMA CloseReturnsSound == ASSUME Sound, Careful, GracefulCloseReturns PROVE Sound'
<1>1. /\ stack # << >> /\ Top.at = "on_graceful_close" /\ UNCHANGED << srv, fault, may >>
  BY DEF GracefulCloseReturns, Runs
<1>2. UNCHANGED << state, active_connections, connections, accept_rw, sock, told, gone, fault, may >>
  BY <1>1 DEF srv
<1>3. PICK g \in Frame : g = Head(Below)
  BY <1>1, OnTheLoop
<1>4. PICK c \in Conns : c = Top.conn
  BY <1>1, OnTheLoop
<1> DEFINE q == Tail(Below)
<1>5. /\ g.at = "graceful_stop" /\ g.conn = c
      /\ q \in Seq(Frame) /\ Frames(Below) = {g} \cup Frames(q)
      /\ Chain(may, q) /\ MayRun(may, g, q)
      /\ \A x \in Frames(q) : x.at \in FreeCbs \cup {"accept_cb"}
      /\ Work(stack) = {} /\ InDrain(stack) /\ gone # TRUE /\ state = "GRACEFULLY_STOPPING"
      /\ conn[c].state # "PENDING_CLOSE"
  BY <1>1, <1>3, <1>4, OnTheLoop
<1>6. Fits(g) /\ \A x \in Frames(q) : Fits(x)
  BY <1>1, <1>5, Opened
<1>7. \A d \in Conns : conn[d].state # "STOPPED"
  BY <1>1, NoneHalfClosed
<1>8. c \in Live => Serves(c)
  BY <1>1, <1>5, AllServe
<1>9. ASSUME NEW p \in {"count", "graceful_stop"}, stack' = << [ g EXCEPT !.at = p ] >> \o q
      PROVE  \E x \in Frame :
               /\ x.at = p /\ x.conn = c /\ x.n = g.n
               /\ stack' \in Seq(Frame) /\ stack' # << >> /\ Head(stack') = x
               /\ Frames(stack') = {x} \cup Frames(q) /\ Chain(may', stack')
               /\ Work(stack') = {} /\ InDrain(stack')
  <2>1. PICK x \in Frame : /\ x = [ g EXCEPT !.at = p ]
                           /\ x.at = p /\ x.conn = c /\ x.n = g.n
    <3>1. p \in Points
      BY DEF Points
    <3> QED BY <1>5, <3>1, Renamed
  <2>2. MayRun(may, x, q)
    <3>1. \A y \in Frames(q) : Over(may, x, y)
      BY <1>5, <2>1 DEF Over, FreeCbs, Stops
    <3>2. q # << >> => On(x, Head(q))
      BY <1>5, <2>1 DEF MayRun, On
    <3> QED BY <2>1, <3>1, <3>2 DEF MayRun, Owned
  <2>3. Work(q) = {}
    BY <1>5 DEF Work, FreeCbs
  <2> HIDE DEF q
  <2>4. stack' = << x >> \o q
    BY <1>9, <2>1
  <2>5. p \in Drains /\ p \notin {"enter", "close"} /\ may' = may
    BY <1>2 DEF Drains
  <2>6. /\ stack' \in Seq(Frame) /\ stack' # << >> /\ Head(stack') = x
        /\ Frames(stack') = {x} \cup Frames(q) /\ Chain(may', stack')
        /\ Work(stack') = Work(q) /\ InDrain(stack')
    BY <1>5, <2>1, <2>2, <2>4, <2>5, Pushed
  <2> QED BY <2>1, <2>3, <2>6
<1> HIDE DEF q
<1>10. CASE c \notin Live /\ stack' = << [ g EXCEPT !.at = "count" ] >> \o q /\ conn' = conn
  <2>1. PICK x \in Frame :
               /\ x.at = "count" /\ x.conn = c /\ x.n = g.n
               /\ stack' \in Seq(Frame) /\ stack' # << >> /\ Head(stack') = x
               /\ Frames(stack') = {x} \cup Frames(q) /\ Chain(may', stack')
               /\ Work(stack') = {} /\ InDrain(stack')
    BY <1>9, <1>10
  <2>2. Books' /\ Counted' = Counted
    BY <1>2, <1>5, <1>10, <2>1, BooksSame DEF Sound
  <2>3. Typed' /\ Phases'
    BY <1>1, <1>2, <1>10, <2>1, <2>2, TypedSame, PhasesSame DEF Sound
  <2>4. Fits(x)
    <3>1. ~Serves(c)
      BY <1>10 DEF Live, Serves
    <3>2. FitsDrain(g)
      BY <1>6 DEF Fits
    <3>3. FitsDrain(x)
      BY <1>5, <2>1, <3>1, <3>2 DEF FitsDrain, Drains
    <3> QED BY <2>1, <3>3 DEF Fits, FitsEnter, FitsClose, FitsRead, FitsDestroy, FitsStop,
                              FitsAbort, Stops
  <2>5. \A y \in Frames(stack') : Fits(y)'
    BY <1>2, <1>6, <1>10, <2>1, <2>4, FitsSame
  <2>6. HalfClosed'
    BY <1>7, <1>10 DEF HalfClosed
  <2>7. Freed' /\ Looping' /\ Ending' /\ Reached'
    BY <1>2, <1>5, <2>1 DEF Freed, Looping, Ending, Reached, Top
  <2> QED BY <2>1, <2>2, <2>3, <2>5, <2>6, <2>7 DEF Sound
<1>11. CASE /\ c \in Live /\ stack' = << [ g EXCEPT !.at = "graceful_stop" ] >> \o q
            /\ conn' = [ conn EXCEPT ![c].state = "PENDING_CLOSE" ]
  <2>1. PICK x \in Frame :
               /\ x.at = "graceful_stop" /\ x.conn = c /\ x.n = g.n
               /\ stack' \in Seq(Frame) /\ stack' # << >> /\ Head(stack') = x
               /\ Frames(stack') = {x} \cup Frames(q) /\ Chain(may', stack')
               /\ Work(stack') = {} /\ InDrain(stack')
    BY <1>9, <1>11
  <2>2. /\ \A d \in Conns : d # c => conn'[d] = conn[d]
        /\ conn'[c].state = "PENDING_CLOSE" /\ conn'[c].sock = conn[c].sock
        /\ conn' \in [ Conns -> [ state : ConnStates, sock : Fds \cup {-1} ] ]
    <3>1. conn \in [ Conns -> [ state : ConnStates, sock : Fds \cup {-1} ] ]
      BY DEF Sound, Typed
    <3> QED BY <1>11, <3>1 DEF ConnStates
  <2>3. Serves(c) /\ conn[c].sock \in Fds
    BY <1>8, <1>11, Sockets DEF Serves
  <2>4. \A d \in Conns : Serves(d)' <=> Serves(d)
    BY <2>2, <2>3 DEF Serves
  <2>5. Live' = Live /\ Counted' = Counted
    <3>1. Live' = Live
      BY <2>2, <2>3 DEF Live, Serves
    <3>2. Leaving(stack') = Leaving(stack)
      BY <1>5, <2>1 DEF Leaving
    <3> QED BY <3>1, <3>2 DEF Counted
  <2>6. Counted # {}
    BY <1>11 DEF Counted
  <2>7. Typed'
    BY <1>2, <2>1, <2>2 DEF Sound, Typed
  <2>8. Books'
    <3>1. active_connections' = Cardinality(Counted')
      BY <1>2, <2>5 DEF Sound, Books
    <3>2. \A d \in Conns : conn'[d].sock = conn[d].sock
      BY <2>2
    <3>3. \A d \in Conns :
            /\ conn'[d].state # "NONE" => conn'[d].sock \in Fds
            /\ conn'[d].state = "CREATED" => \E z \in Work(stack') : z.at = "enter" /\ z.conn = d
            /\ Serves(d)' => connections'[conn'[d].sock] = d
      BY <1>2, <1>5, <2>1, <2>2, <2>3, <2>4, <3>2 DEF Sound, Books
    <3>4. ASSUME NEW f \in Fds, connections'[f] # None
          PROVE  (Serves(connections[f]) /\ conn[connections[f]].sock = f)'
      <4>1. /\ Serves(connections[f]) /\ conn[connections[f]].sock = f /\ connections[f] \in Conns
        BY <1>1, <1>2, <1>5, <3>4, AllServe
      <4> QED BY <1>2, <2>4, <3>2, <4>1
    <3> QED BY <3>1, <3>3, <3>4 DEF Books
  <2>9. Fits(x)'
    <3>1. FitsDrain(g)
      BY <1>6 DEF Fits
    <3>2. conn[c].sock < g.n
      BY <1>5, <2>3, <3>1 DEF FitsDrain, Drains
    <3>3. \A d \in Conns : Serves(d) => conn[d].sock \in Int
      BY Sockets DEF Serves
    <3>4. \A d \in Conns : Serves(d) =>
            /\ conn[d].sock >= g.n => conn[d].state = "ACTIVE"
            /\ conn[d].sock < g.n /\ d # c => conn[d].state = "PENDING_CLOSE"
      BY <1>5, <3>1 DEF FitsDrain, Drains
    <3>5. \A d \in Conns : Serves(d)' =>
            /\ conn'[d].sock >= x.n => conn'[d].state = "ACTIVE"
            /\ conn'[d].sock < x.n /\ d # c => conn'[d].state = "PENDING_CLOSE"
      <4> SUFFICES ASSUME NEW d \in Conns, Serves(d)'
                   PROVE  /\ conn'[d].sock >= x.n => conn'[d].state = "ACTIVE"
                          /\ conn'[d].sock < x.n /\ d # c => conn'[d].state = "PENDING_CLOSE"
        OBVIOUS
      <4>1. CASE d = c
        <5>1. ~(conn'[d].sock >= x.n)
          <6>1. g.n \in Int
            BY DEF Frame
          <6> QED BY <2>1, <2>2, <2>3, <3>2, <3>3, <4>1, <6>1
        <5> QED BY <4>1, <5>1
      <4>2. CASE d # c
        BY <2>1, <2>2, <2>4, <3>4, <4>2
      <4> QED BY <4>1, <4>2
    <3>6. conn'[c].sock < x.n
      BY <2>1, <2>2, <3>2
    <3>7. FitsDrain(x)'
      BY <1>2, <1>5, <2>1, <3>5, <3>6 DEF FitsDrain, Drains
    <3> QED BY <2>1, <3>7 DEF Fits, FitsEnter, FitsClose, FitsRead, FitsDestroy, FitsStop,
                              FitsAbort, Stops
  <2>10. \A y \in Frames(q) : Fits(y)'
    <3> SUFFICES ASSUME NEW y \in Frames(q) PROVE Fits(y)'
      OBVIOUS
    <3>1. y.at \in Relaxed /\ FitsAbort(y)
      BY <1>5, <1>6 DEF Fits, Relaxed
    <3> QED BY <1>2, <3>1, FitsRelaxed DEF FitsAbort
  <2>11. HalfClosed'
    BY <1>7, <2>2 DEF HalfClosed
  <2>12. Phases'
    <3>1. accept_rw = sock /\ (sock = TRUE => FALSE) /\ told \in {0, 1} /\ told # 1
      BY <1>5 DEF Sound, Phases
    <3> QED BY <1>2, <1>5, <3>1 DEF Phases
  <2>13. Freed' /\ Looping' /\ Ending' /\ Reached'
    BY <1>2, <1>5, <2>1, <2>2, <2>5, <2>6 DEF Freed, Looping, Ending, Reached, Top
  <2> QED BY <2>1, <2>7, <2>8, <2>9, <2>10, <2>11, <2>12, <2>13 DEF Sound
<1> QED BY <1>3, <1>4, <1>10, <1>11 DEF GracefulCloseReturns, q

\* The loop of a graceful stop ends the drain if it has closed the last connection.
LEMMA CountSound == ASSUME Sound, Careful, GracefulCount PROVE Sound'
<1>1. /\ stack # << >> /\ Top.at = "count"
      /\ UNCHANGED << active_connections, connections, accept_rw, sock, conn, gone, fault, may >>
  BY DEF GracefulCount, Runs
<1>2. /\ Below \in Seq(Frame) /\ Chain(may, Below) /\ MayRun(may, Top, Below)
      /\ Top \in Frame /\ Fits(Top) /\ \A x \in Frames(Below) : Fits(x)
  BY <1>1, Opened
<1>3. /\ \A x \in Frames(Below) : x.at \in FreeCbs \cup {"accept_cb"}
      /\ Work(stack) = {} /\ Work(Below) = {} /\ ~InDrain(Below) /\ gone # TRUE
  BY <1>1, BelowLoop
<1>4. HalfClosed'
  <2>1. \A c \in Conns : conn[c].state # "STOPPED"
    BY <1>1, NoneHalfClosed
  <2> QED BY <1>1, <2>1 DEF HalfClosed
<1>5. FitsDrain(Top) /\ state = "GRACEFULLY_STOPPING" /\ Top.conn \in Conns /\ ~Serves(Top.conn)
  BY <1>1, <1>2 DEF Fits, FitsDrain, Drains
<1>6. told = 0 /\ sock # TRUE /\ accept_rw = sock
  BY <1>5 DEF Sound, Phases
<1>7. CASE active_connections = 0 /\ Report
  <2>1. /\ state' = "STOPPED" /\ told' = 1
        /\ stack' = << App("on_graceful_stop", None) >> \o Below
    BY <1>6, <1>7 DEF Report
  <2>2. PICK x \in Frame : x = App("on_graceful_stop", None) /\ x.at = "on_graceful_stop"
    <3>1. "on_graceful_stop" \in Callbacks
      BY DEF Callbacks
    <3> QED BY <3>1, AppFrame
  <2>3. MayRun(may, x, Below)
    <3>1. \A y \in Frames(Below) : Over(may, x, y)
      BY <1>3, <2>2 DEF Over, FreeCbs, Stops
    <3>2. Below # << >> => On(x, Head(Below))
      BY <1>1, <1>2, <2>2 DEF MayRun, On
    <3> QED BY <2>2, <3>1, <3>2 DEF MayRun, Owned
  <2>4. /\ stack' \in Seq(Frame) /\ stack' # << >> /\ Head(stack') = x
        /\ Frames(stack') = {x} \cup Frames(Below)
        /\ Chain(may', stack') /\ Work(stack') = Work(stack)
    <3>1. stack' = << x >> \o Below
      BY <2>1, <2>2
    <3> QED BY <1>1, <1>2, <1>3, <2>2, <2>3, <3>1, Pushed
  <2>5. Books' /\ Counted' = Counted
    BY <1>1, <2>4, BooksSame DEF Sound
  <2>6. Counted = {}
    BY <1>7, CountedIs
  <2>7. Typed'
    BY <1>1, <2>1, <2>4 DEF Sound, Typed
  <2>8. \A y \in Frames(stack') : Fits(y)'
    BY <1>3, <2>1, <2>2, <2>4, FitsRelaxed DEF Relaxed, FreeCbs
  <2>9. Phases'
    <3>1. \A c \in Conns : conn[c].state # "PENDING_CLOSE"
      BY <2>6 DEF Counted, Live
    <3> QED BY <1>1, <1>6, <2>1, <2>5, <2>6, <3>1 DEF Phases
  <2>10. Freed' /\ Looping' /\ Ending' /\ Reached'
    BY <1>1, <1>3, <2>1, <2>2, <2>4 DEF Freed, Looping, Ending, Reached, Top
  <2> QED BY <1>4, <2>4, <2>5, <2>7, <2>8, <2>9, <2>10 DEF Sound
<1>8. CASE /\ active_connections # 0
           /\ stack' = << [ Top EXCEPT !.at = "graceful_stop" ] >> \o Below
           /\ UNCHANGED << state, told >>
  <2>1. UNCHANGED << state, active_connections, connections, accept_rw, sock, conn, told, gone,
                     fault, may >>
    BY <1>1, <1>8
  <2>2. PICK x \in Frame : /\ x = [ Top EXCEPT !.at = "graceful_stop" ]
                           /\ x.at = "graceful_stop" /\ x.conn = Top.conn /\ x.n = Top.n
    <3>1. "graceful_stop" \in Points
      BY DEF Points
    <3> QED BY <1>2, <3>1, Renamed
  <2>3. /\ stack' \in Seq(Frame) /\ stack' # << >> /\ Head(stack') = x
        /\ Frames(stack') = {x} \cup Frames(Below)
        /\ Chain(may', stack') /\ Work(stack') = Work(stack) /\ InDrain(stack')
    <3>1. stack' = << x >> \o Below
      BY <1>8, <2>2
    <3>2. InDrain(stack)
      BY <1>1, OpenedWork DEF Drains
    <3> QED BY <1>1, <2>1, <2>2, <3>1, <3>2, Renewed DEF Drains
  <2>4. Books' /\ Counted' = Counted
    BY <2>1, <2>3, BooksSame DEF Sound
  <2>5. Counted # {}
    BY <1>8, CountedIs
  <2>6. Typed' /\ Phases'
    BY <2>1, <2>3, <2>4, PhasesSame DEF Sound, Typed
  <2>7. Fits(x)
    <3>1. FitsDrain(x)
      BY <1>1, <1>5, <2>2 DEF FitsDrain, Drains
    <3> QED BY <2>2, <3>1 DEF Fits, FitsEnter, FitsClose, FitsRead, FitsDestroy, FitsStop,
                              FitsAbort, Stops
  <2>8. \A y \in Frames(stack') : Fits(y)'
    BY <1>2, <2>1, <2>3, <2>7, FitsSame
  <2>9. Freed' /\ Looping' /\ Ending' /\ Reached'
    BY <1>3, <1>5, <2>1, <2>2, <2>3, <2>4, <2>5 DEF Freed, Looping, Ending, Reached, Top, Serves
  <2> QED BY <1>4, <2>3, <2>4, <2>6, <2>8, <2>9 DEF Sound
<1> QED BY <1>7, <1>8 DEF GracefulCount
-----------------------------------------------------------------------------
(* Steps: a connection is closed by the application, or by the library.    *)

\* A failed read or write closes a connection from the loop.
LEMMA FailsSound == ASSUME Sound, Careful, NEW c \in Conns, Fails(c) PROVE Sound'
<1>1. stack = << >> /\ Serves(c) /\ BeginClose(c, << >>)
  BY DEF Fails, Idle, Serves
<1>2. Frames(stack) = {} /\ << >> \in Seq(Frame) /\ Chain(may, << >>)
  BY <1>1, NoFrames, NoChain
<1>3. Waiting(c, << >>) /\ Frames(<< >>) = {}
  BY <1>1, <1>2 DEF Waiting
<1>4. gone # TRUE
  <2>1. Live # {} /\ Counted # {}
    BY <1>1 DEF Live, Serves, Counted
  <2> QED BY <2>1 DEF Sound, Freed, Phases
<1> QED BY <1>1, <1>3, <1>4, NoneHalfClosed, CloseSound

\* The callbacks from which an application closes a connection, and which
LEMMA CloseCalls ==
  ASSUME Sound, Careful, NEW c \in Conns, stack # << >>, c \in Live,
         NEW call \in {"close_own", "close_other"}, Calling(call),
         call = "close_own" => Top.conn = c,
         call = "close_other" => Top.conn # c /\ conn[c].state # "CREATED"
  PROVE  /\ \/ Top.at \in FreeCbs
            \/ Top.at \in {"on_conn_create", "destroyed", "on_read"} /\ call = "close_other"
            \/ Top.at = "on_graceful_close" /\ call = "close_own"
         /\ << Top.at, call >> \in may
         /\ Serves(c)
<1>1. Top.at \in Callbacks /\ << Top.at, call >> \in may
  BY DEF Calling
<1>2. \/ Top.at \in FreeCbs
      \/ Top.at \in {"on_conn_create", "destroyed", "on_read"} /\ call = "close_other"
      \/ Top.at = "on_graceful_close" /\ call = "close_own"
  BY <1>1, CarefulCalls DEF Callbacks, FreeCbs
<1>3. conn[c].state # "CREATED"
  <2> SUFFICES ASSUME call = "close_own" PROVE conn[c].state # "CREATED"
    OBVIOUS
  <2>1. CASE Top.at \in FreeCbs
    <3>1. \A x \in Frames(stack) : x.at # "enter"
      BY <2>1, BelowFree, Opened DEF FreeCbs, Stops
    <3> QED BY <3>1 DEF Sound, Books, Work
  <2>2. CASE Top.at = "on_graceful_close"
    BY <2>2, OnTheLoop DEF Sound, Books
  <2> QED BY <1>2, <2>1, <2>2
<1>4. conn[c].state # "STOPPED"
  BY <1>2, NoneHalfClosed DEF FreeCbs
<1>5. conn[c].state \in ConnStates /\ conn[c].state # "NONE"
  BY DEF Sound, Typed, Live
<1> QED BY <1>1, <1>2, <1>3, <1>4, <1>5 DEF Serves, ConnStates

\* A careful application closes a connection no function goes on with.
LEMMA ConnCloseSound == ASSUME Sound, Careful, NEW c \in Conns, ConnClose(c) PROVE Sound'
<1>1. PICK call \in {"close_own", "close_other"} :
        /\ Calling(call)
        /\ call = "close_own" => Own(c)
        /\ call = "close_other" => ~Own(c) /\ conn[c].state # "CREATED"
  BY DEF ConnClose
<1>2. c \in Live /\ BeginClose(c, Caller) /\ gone # TRUE
  BY <1>1 DEF ConnClose, Calling
<1>3. /\ Caller \in Seq(Frame) /\ Chain(may, Caller)
      /\ Work(Caller) = Work(stack) /\ (InDrain(Caller) <=> InDrain(stack))
      /\ \A x \in Frames(Caller) : Fits(x)
      /\ (Caller = << >> <=> stack = << >>)
  BY <1>1, CallerStack
<1>4. CASE stack = << >>
  <2>1. Frames(stack) = {} /\ Frames(Caller) = {}
    BY <1>1, <1>4, CallerStack, NoFrames
  <2>2. Serves(c)
    BY <1>2, <1>4, <2>1, AllServe DEF Work
  <2>3. Waiting(c, Caller)
    BY <1>3, <1>4, <2>1 DEF Waiting
  <2> QED BY <1>2, <1>4, <2>1, <2>2, <2>3, NoneHalfClosed, CloseSound
<1>5. CASE stack # << >>
  <2>1. /\ call = "close_own" => Top.conn = c
        /\ call = "close_other" => Top.conn # c /\ conn[c].state # "CREATED"
    BY <1>1, <1>5 DEF Own
  <2>2. /\ \/ Top.at \in FreeCbs
           \/ Top.at \in {"on_conn_create", "destroyed", "on_read"} /\ call = "close_other"
           \/ Top.at = "on_graceful_close" /\ call = "close_own"
        /\ << Top.at, call >> \in may
        /\ Serves(c)
    BY <1>1, <1>2, <1>5, <2>1, CloseCalls
  <2>3. /\ Frames(Caller) = {Head(Caller)} \cup Frames(Below)
        /\ Head(Caller).at = Top.at /\ Head(Caller).conn = Top.conn /\ Caller # << >>
    BY <1>1, <1>3, <1>5, CallerStack DEF Alike
  <2>4. \A y \in Frames(Below) : Over(may, Top, y)
    BY <1>5, Opened DEF MayRun
  <2>5. Top.at # "on_conn_destroy" /\ Top.at \notin {"graceful_stop", "destroy", "count", "close", "read_cb"}
    BY <2>2 DEF FreeCbs
  <2>6. \A d \in Conns : conn[d].state # "STOPPED"
    BY <1>5, <2>5, NoneHalfClosed
  <2>7. Waiting(c, Caller)
    <3>1. ASSUME NEW y \in Frames(Caller)
          PROVE  /\ y.at # "on_conn_destroy"
                 /\ y.at \in {"on_read", "read_cb"} => << "on_read", "close_other" >> \in may
      <4>1. CASE y \in Frames(Below)
        BY <2>2, <2>4, <4>1 DEF Over, Closing, FreeCbs
      <4>2. CASE y = Head(Caller)
        BY <2>2, <2>3, <2>5, <4>2 DEF FreeCbs
      <4> QED BY <2>3, <4>1, <4>2
    <3>2. \A y \in Frames(Caller) : y.at = "close" => y.conn # c
      <4>1. conn[c].state \notin {"NONE", "STOPPED"}
        BY <2>2 DEF Serves
      <4> QED BY <1>3, <4>1 DEF Fits, FitsClose
    <3>3. Head(Caller).at \in {"count", "on_graceful_close"} =>
            Head(Caller).conn = c /\ conn[c].state # "PENDING_CLOSE"
      <4> SUFFICES ASSUME Top.at = "on_graceful_close"
                   PROVE  Head(Caller).conn = c /\ conn[c].state # "PENDING_CLOSE"
        BY <2>3, <2>5
      <4>1. Top.conn = c
        BY <2>1, <2>2 DEF FreeCbs
      <4> QED BY <1>5, <2>3, <4>1, OnTheLoop
    <3>4. Head(Caller).at \notin {"graceful_stop", "destroy"}
      BY <2>3, <2>5
    <3> QED BY <1>3, <3>1, <3>2, <3>3, <3>4 DEF Waiting
  <2>8. \A y \in Frames(Caller) : y.at = "read_cb" => y.conn # c
    <3> SUFFICES ASSUME NEW y \in Frames(Below), y.at = "read_cb" PROVE y.conn # c
      BY <2>3, <2>5
    <3>1. Top.at = "on_read"
      <4>1. Top.at \in {"destroyed", "on_read"}
        BY <2>2, <2>4 DEF Over, Closing, FreeCbs
      <4>2. Top.at # "destroyed"
        <5> SUFFICES ASSUME Top.at = "destroyed" PROVE FALSE
          OBVIOUS
        <5>1. << "on_read", "close_other" >> \in may
          BY <2>4 DEF Over, Closing
        <5>2. << "destroyed", "close_other" >> \in may
          BY <2>2 DEF FreeCbs
        <5> QED BY <5>1, <5>2, CarefulCalls
      <4> QED BY <4>1, <4>2
    <3>2. Top.conn # c
      BY <2>1, <2>2, <3>1 DEF FreeCbs
    <3>3. /\ Below \in Seq(Frame) /\ Chain(may, Below) /\ MayRun(may, Top, Below)
      BY <1>5, Opened
    <3>4. Below # << >> /\ Head(Below).at = "read_cb" /\ Head(Below).conn = Top.conn
      BY <3>1, <3>3 DEF MayRun, On, Owned
    <3>5. /\ Frames(Below) = {Head(Below)} \cup Frames(Tail(Below))
          /\ \A z \in Frames(Tail(Below)) : Over(may, Head(Below), z)
      BY <3>3, <3>4, Pop, PopChain DEF MayRun
    <3>6. y \notin Frames(Tail(Below))
      BY <3>4, <3>5 DEF Over, Closing
    <3> QED BY <3>2, <3>4, <3>5, <3>6
  <2>9. \A y \in Frames(Caller) : Fits(y)'
    <3> SUFFICES ASSUME NEW y \in Frames(Caller) PROVE Fits(y)'
      OBVIOUS
    <3>1. Fits(y) /\ y.at # "on_conn_destroy" /\ (y.at = "read_cb" => y.conn # c)
      BY <1>3, <2>7, <2>8 DEF Waiting
    <3> QED BY <1>2, <2>2, <3>1, MarkedFits
  <2> QED BY <1>2, <2>2, <2>6, <2>7, <2>9, CloseSound
<1> QED BY <1>4, <1>5

\* on_conn_destroy frees the connection; the close below relies on the table.
LEMMA ConnDestroySound == ASSUME Sound, Careful, ConnDestroy PROVE Sound'
<1>1. stack # << >> /\ Top.at = "on_conn_destroy"
  BY DEF ConnDestroy, Runs
<1>2. /\ Below \in Seq(Frame) /\ Chain(may, Below) /\ MayRun(may, Top, Below)
      /\ Frames(stack) = {Top} \cup Frames(Below)
      /\ Fits(Top) /\ \A x \in Frames(Below) : Fits(x)
  BY <1>1, Opened
<1>3. Top.conn \in Conns /\ conn[Top.conn].state = "STOPPED"
  BY <1>1, <1>2 DEF Fits, FitsDestroy
<1>4. PICK c \in Conns : c = Top.conn
  BY <1>3
<1>5. PICK x \in Frame : x = App("destroyed", c) /\ x.at = "destroyed" /\ x.conn = c
  <2>1. "destroyed" \in Callbacks
    BY DEF Callbacks
  <2> QED BY <2>1, AppFrame
<1>6. /\ conn' = [ conn EXCEPT ![c] = NoConn ] /\ stack' = << x >> \o Below
      /\ UNCHANGED << state, active_connections, connections, accept_rw, sock, told, gone, fault, may >>
  BY <1>3, <1>4, <1>5 DEF ConnDestroy, Live, srv
<1>7. /\ conn' \in [ Conns -> [ state : ConnStates, sock : Fds \cup {-1} ] ]
      /\ conn'[c].state = "NONE" /\ \A d \in Conns : d # c => conn'[d] = conn[d]
  <2>1. conn \in [ Conns -> [ state : ConnStates, sock : Fds \cup {-1} ] ]
    BY DEF Sound, Typed
  <2> QED BY <1>6, <2>1 DEF NoConn, ConnStates
<1>8. conn[c].state = "STOPPED" /\ \A d \in Conns : d # c => conn[d].state # "STOPPED"
  BY <1>1, <1>3, <1>4 DEF Sound, HalfClosed
<1>9. Below # << >> /\ Head(Below).at = "close" /\ Head(Below).conn = c
  BY <1>1, <1>2, <1>4 DEF MayRun, On, Owned
<1>10. MayRun(may, x, Below)
  <2>1. \A y \in Frames(Below) : Over(may, x, y)
    BY <1>1, <1>2, <1>5 DEF MayRun, Over, Closing
  <2> QED BY <1>5, <1>9, <2>1 DEF MayRun, On
<1>11. /\ stack' \in Seq(Frame) /\ stack' # << >> /\ Head(stack') = x
       /\ Frames(stack') = {x} \cup Frames(Below) /\ Chain(may', stack')
       /\ Work(stack') = Work(Below) /\ Leaving(stack') = Leaving(Below)
       /\ InDrain(stack') <=> InDrain(Below)
  BY <1>2, <1>5, <1>6, <1>10, Pushed DEF Drains
<1>12. /\ Work(stack) = Work(Below) /\ Leaving(stack) = Leaving(Below)
       /\ InDrain(stack) <=> InDrain(Below)
  BY <1>1, OpenedWork DEF Drains
<1>13. c \in Leaving(Below)
  <2>1. Head(Below) \in Frames(Below)
    BY <1>2, <1>9, Pop
  <2> QED BY <1>9, <2>1 DEF Leaving, Work
<1>14. Counted' = Counted
  <2>1. Live \ {c} \subseteq Live' /\ Live' \subseteq Live
    BY <1>7 DEF Live
  <2> QED BY <1>11, <1>12, <1>13, <2>1 DEF Counted
<1>15. gone # TRUE
  BY <1>1, <1>2 DEF Sound, Freed, FreeCbs
<1>16. \A d \in Conns : (Serves(d)' <=> Serves(d)) /\ (Serves(d) => d # c)
  BY <1>7, <1>8 DEF Serves
<1>17. Typed'
  BY <1>6, <1>7, <1>11 DEF Sound, Typed
<1>18. \A y \in Frames(Below) : Fits(y)'
  <2> SUFFICES ASSUME NEW y \in Frames(Below) PROVE Fits(y)'
    OBVIOUS
  <2>1. Fits(y) /\ y.at # "on_conn_destroy"
    BY <1>2 DEF MayRun, Over
  <2>2. FitsEnter(y)'
    <3> SUFFICES ASSUME y.at = "enter" PROVE FitsEnter(y)'
      BY DEF FitsEnter
    <3>1. FitsEnter(y) /\ y.conn # c
      BY <1>8, <2>1 DEF Fits, FitsEnter
    <3> QED BY <1>6, <1>7, <3>1 DEF FitsEnter
  <2>3. FitsClose(y)'
    BY <1>6, <1>7, <2>1 DEF Fits, FitsClose
  <2>4. FitsRead(y)'
    BY <1>16, <2>1 DEF Fits, FitsRead
  <2>5. FitsDestroy(y)'
    BY <2>1 DEF FitsDestroy
  <2>6. FitsStop(y)'
    BY <1>6, <1>7, <1>16, <2>1 DEF Fits, FitsStop
  <2>7. FitsDrain(y)'
    BY <1>6, <1>7, <1>16, <2>1 DEF Fits, FitsDrain
  <2>8. FitsAbort(y)'
    BY <1>6, <2>1 DEF Fits, FitsAbort
  <2> QED BY <2>2, <2>3, <2>4, <2>5, <2>6, <2>7, <2>8 DEF Fits
<1>19. Fits(x)'
  BY <1>5, FitsRelaxed DEF Relaxed
<1>20. Books'
  <2>1. active_connections' = Cardinality(Counted')
    BY <1>6, <1>14 DEF Sound, Books
  <2>2. ASSUME NEW d \in Conns
        PROVE  /\ conn'[d].state # "NONE" => conn'[d].sock \in Fds
               /\ conn'[d].state = "CREATED" => \E z \in Work(stack') : z.at = "enter" /\ z.conn = d
               /\ Serves(d)' => connections'[conn'[d].sock] = d
    <3>1. CASE d = c
      BY <1>7, <1>16, <3>1
    <3>2. CASE d # c
      BY <1>6, <1>7, <1>11, <1>12, <1>16, <3>2 DEF Sound, Books
    <3> QED BY <3>1, <3>2
  <2>3. ASSUME NEW f \in Fds, connections'[f] # None
        PROVE  \/ (Serves(connections[f]) /\ conn[connections[f]].sock = f)'
               \/ \E z \in Work(stack') : z.at = "close" /\ z.n = f
    <3>1. CASE \E z \in Work(stack) : z.at = "close" /\ z.n = f
      BY <1>11, <1>12, <3>1
    <3>2. CASE Serves(connections[f]) /\ conn[connections[f]].sock = f
      <4>1. connections[f] \in Conns /\ connections[f] # c
        BY <1>6, <1>16, <2>3, <3>2 DEF Sound, Typed
      <4> QED BY <1>6, <1>7, <3>2, <4>1 DEF Serves
    <3> QED BY <1>6, <2>3, <3>1, <3>2 DEF Sound, Books
  <2> QED BY <2>1, <2>2, <2>3 DEF Books
<1>21. HalfClosed'
  <2>1. \A d \in Conns : conn'[d].state # "STOPPED"
    BY <1>7, <1>8
  <2> QED BY <2>1 DEF HalfClosed
<1>22. Phases'
  <2>1. \A d \in Conns : conn'[d].state = "PENDING_CLOSE" => conn[d].state = "PENDING_CLOSE"
    BY <1>7
  <2> QED BY <1>6, <1>14, <2>1 DEF Sound, Phases
<1>23. Freed' /\ Looping' /\ Ending'
  BY <1>5, <1>6, <1>11, <1>15 DEF Freed, Looping, Ending, Top
<1>24. Reached'
  <2>1. \A d \in Conns : conn'[d].state = "ACTIVE" => conn[d].state = "ACTIVE"
    BY <1>7
  <2> QED BY <1>6, <1>11, <1>12, <1>14, <2>1 DEF Sound, Reached
<1> QED BY <1>11, <1>17, <1>18, <1>19, <1>20, <1>21, <1>22, <1>23, <1>24 DEF Sound

\* The last connection of a graceful stop: nothing that looks at a connection
\* is left below.
LEMMA BelowLast ==
  ASSUME Sound, stack # << >>, Top.at = "close", Top.prev = "PENDING_CLOSE",
         \A d \in Counted : d = Top.conn, state = "GRACEFULLY_STOPPING"
  PROVE  \A y \in Frames(Below) :
           y.at \in FreeCbs \cup {"accept_cb"} \/ (y.at \in Stops /\ Aborts(may))
<1>1. /\ Below \in Seq(Frame) /\ Chain(may, Below) /\ MayRun(may, Top, Below)
      /\ Frames(Below) \subseteq Frame /\ Fits(Top) /\ \A x \in Frames(Below) : Fits(x)
      /\ Frames(stack) = {Top} \cup Frames(Below)
  BY Opened
<1>2. Top.conn \in Conns /\ conn[Top.conn].state = "NONE"
  <2>1. Top.conn \in Conns /\ conn[Top.conn].state \in {"NONE", "STOPPED"}
    BY <1>1 DEF Fits, FitsClose
  <2> QED BY <2>1, NoneHalfClosed
<1>3. \A d \in Conns : conn[d].state = "NONE"
  BY <1>2 DEF Counted, Live
<1>4. \A y \in Frames(Below) : y.at \notin {"close", "on_conn_destroy"}
  <2> SUFFICES ASSUME NEW y \in Frames(Below), y.at \in {"close", "on_conn_destroy"} PROVE FALSE
    OBVIOUS
  <2>1. Over(may, Top, y)
    BY <1>1 DEF MayRun
  <2>2. y.at = "close" /\ y.conn # Top.conn
    BY <2>1 DEF Over
  <2>3. y.conn \in Leaving(stack)
    BY <1>1, <2>2 DEF Leaving, Work
  <2> QED BY <2>2, <2>3 DEF Counted
<1>5. \A y \in Frames(Below) : y.at \notin {"enter", "read_cb"}
  <2> SUFFICES ASSUME NEW y \in Frames(Below), y.at \in {"enter", "read_cb"} PROVE FALSE
    OBVIOUS
  <2>1. y.conn \in Conns /\ conn[y.conn].state # "NONE"
    BY <1>1 DEF Fits, FitsEnter, FitsRead, Serves
  <2> QED BY <1>3, <2>1
<1>6. \A y \in Frames(Below) : y.at \notin {"destroyed", "on_conn_create", "on_read"}
  <2> SUFFICES ASSUME NEW y \in Frames(Below), y.at \in {"destroyed", "on_conn_create", "on_read"}
               PROVE  FALSE
    OBVIOUS
  <2>1. PICK z \in Frames(Below) : On(y, z)
    BY <1>1, Owner DEF Owned
  <2> QED BY <1>4, <1>5, <2>1 DEF On
<1>7. \A y \in Frames(Below) : y.at \notin {"graceful_stop", "count", "on_graceful_close"}
  <2> SUFFICES ASSUME NEW y \in Frames(Below), y.at \in {"graceful_stop", "count", "on_graceful_close"}
               PROVE  FALSE
    OBVIOUS
  <2>1. Below # << >>
    BY NoFrames
  <2>2. /\ Head(Below) \in Frames(Below) /\ Frames(Below) = {Head(Below)} \cup Frames(Tail(Below))
        /\ \A z \in Frames(Tail(Below)) : Over(may, Head(Below), z)
    BY <1>1, <2>1, Pop, PopChain DEF MayRun
  <2>3. On(Top, Head(Below))
    BY <1>1, <2>1 DEF MayRun
  <2>4. Head(Below).at \notin {"graceful_stop", "count", "on_graceful_close"}
    BY <2>3 DEF On
  <2>5. y \in Frames(Tail(Below)) /\ Over(may, Head(Below), y)
    BY <2>2, <2>4
  <2>6. Head(Below).at \in Closing
    BY <2>4, <2>5 DEF Over
  <2> QED BY <1>4, <1>6, <2>2, <2>6 DEF Closing
<1>8. \A y \in Frames(Below) : y.at \in Stops => Aborts(may)
  BY <1>1 DEF Fits, FitsStop
<1>9. \A y \in Frames(Below) : y.at \in Points \cup Callbacks
  BY <1>1 DEF Frame
<1> QED BY <1>4, <1>5, <1>6, <1>7, <1>8, <1>9 DEF Points, Callbacks, FreeCbs, Stops

\* The end of a close takes the entry away, and reports the last of a drain.
LEMMA EndCloseSound == ASSUME Sound, Careful, EndClose PROVE Sound'
<1>1. stack # << >> /\ Top.at = "close"
  BY DEF EndClose, Runs
<1>2. /\ Below \in Seq(Frame) /\ Chain(may, Below) /\ MayRun(may, Top, Below)
      /\ Frames(stack) = {Top} \cup Frames(Below)
      /\ Fits(Top) /\ \A x \in Frames(Below) : Fits(x)
  BY <1>1, Opened
<1>3. /\ Top.conn \in Conns /\ Top.n \in Fds /\ connections[Top.n] = Top.conn
      /\ conn[Top.conn].state = "NONE"
  BY <1>1, <1>2, NoneHalfClosed DEF Fits, FitsClose
<1>4. gone # TRUE
  BY <1>1, <1>2 DEF Sound, Freed, FreeCbs
<1>5. PICK c \in Conns : c = Top.conn
  BY <1>3
<1>6. PICK f \in Fds : f = Top.n
  BY <1>3
<1>7. /\ connections' = [ connections EXCEPT ![f] = None ]
      /\ active_connections' = active_connections - 1
      /\ UNCHANGED << accept_rw, sock, conn, gone, fault, may >>
      /\ \/ EndsDrain /\ Report
         \/ ~EndsDrain /\ stack' = Below /\ UNCHANGED << state, told >>
  BY <1>4, <1>6 DEF EndClose, Cleared, Remaining
<1>8. /\ connections[f] = c /\ conn[c].state = "NONE"
      /\ \A d \in Conns : conn[d].state # "STOPPED"
  BY <1>1, <1>3, <1>5, <1>6, NoneHalfClosed
<1>9. /\ connections' \in [ Fds -> Conns \cup {None} ] /\ connections'[f] = None
      /\ \A g \in Fds : g # f => connections'[g] = connections[g]
  <2>1. connections \in [ Fds -> Conns \cup {None} ]
    BY DEF Sound, Typed
  <2> QED BY <1>7, <2>1
<1>10. \A x \in Frames(Below) : x.at = "close" => x.conn # c /\ x.n # f
  <2> SUFFICES ASSUME NEW x \in Frames(Below), x.at = "close" PROVE x.conn # c /\ x.n # f
    OBVIOUS
  <2>1. x.conn # c
    BY <1>1, <1>2, <1>5 DEF MayRun, Over
  <2>2. connections[x.n] = x.conn
    BY <1>2 DEF Fits, FitsClose
  <2> QED BY <1>8, <2>1, <2>2
<1>11. /\ Work(stack) = {Top} \cup Work(Below)
       /\ Leaving(stack) = {c} \cup Leaving(Below)
       /\ InDrain(stack) <=> InDrain(Below)
  BY <1>1, <1>5, OpenedWork DEF Drains
<1>12. c \notin Leaving(Below) /\ c \notin Live /\ c \in Counted
  BY <1>8, <1>10, <1>11 DEF Leaving, Work, Live, Counted
<1>13. ASSUME Work(stack') = Work(Below) PROVE Counted' = Counted \ {c}
  <2>1. Leaving(stack') = Leaving(Below)
    BY <1>13 DEF Leaving
  <2>2. Live' = Live
    BY <1>7 DEF Live
  <2> QED BY <1>11, <1>12, <2>1, <2>2 DEF Counted
<1>14. Cardinality(Counted \ {c}) = active_connections - 1 /\ IsFiniteSet(Counted \ {c})
  BY <1>12, CountedIs, FS_RemoveElement
<1>15. active_connections = 1 <=> Counted \ {c} = {}
  BY <1>14, CountedIs, FS_EmptySet
<1>16. state \in {"ACCEPTING", "GRACEFULLY_STOPPING"} /\ told = 0
  BY <1>12 DEF Sound, Typed, Phases
<1>17. ASSUME Work(stack') = Work(Below) PROVE Books'
  <2>1. active_connections' = Cardinality(Counted')
    BY <1>7, <1>13, <1>14, <1>17
  <2>2. ASSUME NEW d \in Conns
        PROVE  /\ conn'[d].state # "NONE" => conn'[d].sock \in Fds
               /\ conn'[d].state = "CREATED" => \E z \in Work(stack') : z.at = "enter" /\ z.conn = d
               /\ Serves(d)' => connections'[conn'[d].sock] = d
    <3>1. conn[d].state = "CREATED" => \E z \in Work(Below) : z.at = "enter" /\ z.conn = d
      BY <1>1, <1>11 DEF Sound, Books
    <3>2. Serves(d) => connections[conn[d].sock] = d /\ conn[d].sock \in Fds /\ d # c
      BY <1>8, Sockets DEF Sound, Books, Serves
    <3>3. Serves(d)' => connections'[conn'[d].sock] = d
      BY <1>7, <1>8, <1>9, <3>2 DEF Serves
    <3> QED BY <1>7, <1>17, <3>1, <3>3, Sockets
  <2>3. ASSUME NEW g \in Fds, connections'[g] # None
        PROVE  \/ (Serves(connections[g]) /\ conn[connections[g]].sock = g)'
               \/ \E z \in Work(stack') : z.at = "close" /\ z.n = g
    <3>1. g # f /\ connections'[g] = connections[g] /\ connections[g] # None
      BY <1>9, <2>3
    <3>2. CASE \E z \in Work(stack) : z.at = "close" /\ z.n = g
      BY <1>6, <1>11, <1>17, <3>1, <3>2
    <3>3. CASE Serves(connections[g]) /\ conn[connections[g]].sock = g
      BY <1>7, <3>1, <3>3 DEF Serves
    <3> QED BY <3>1, <3>2, <3>3 DEF Sound, Books
  <2> QED BY <2>1, <2>2, <2>3 DEF Books
<1>18. HalfClosed'
  BY <1>7, <1>8 DEF HalfClosed
<1>19. CASE EndsDrain /\ Report
  <2>1. /\ Top.prev = "PENDING_CLOSE" /\ active_connections = 1 /\ state = "GRACEFULLY_STOPPING"
        /\ state' = "STOPPED" /\ told' = 1
        /\ stack' = << App("on_graceful_stop", None) >> \o Below
    BY <1>16, <1>19 DEF EndsDrain, Report
  <2>2. Counted \ {c} = {}
    BY <1>15, <2>1
  <2>3. \A y \in Frames(Below) :
          y.at \in FreeCbs \cup {"accept_cb"} \/ (y.at \in Stops /\ Aborts(may))
    BY <1>1, <1>5, <2>1, <2>2, BelowLast
  <2>4. PICK x \in Frame : x = App("on_graceful_stop", None) /\ x.at = "on_graceful_stop"
    <3>1. "on_graceful_stop" \in Callbacks
      BY DEF Callbacks
    <3> QED BY <3>1, AppFrame
  <2>5. MayRun(may, x, Below)
    <3>1. \A y \in Frames(Below) : Over(may, x, y)
      BY <2>3, <2>4 DEF Over, FreeCbs, Stops
    <3>2. Below # << >> => On(x, Head(Below))
      BY <1>1, <1>2, <2>4 DEF MayRun, On
    <3> QED BY <2>4, <3>1, <3>2 DEF MayRun, Owned
  <2>6. /\ stack' \in Seq(Frame) /\ stack' # << >> /\ Head(stack') = x
        /\ Frames(stack') = {x} \cup Frames(Below) /\ Chain(may', stack')
        /\ Work(stack') = Work(Below)
    BY <1>2, <1>7, <2>1, <2>4, <2>5, Pushed
  <2>7. Counted' = {} /\ Books'
    BY <1>13, <1>17, <2>2, <2>6
  <2>8. Typed'
    BY <1>7, <1>9, <1>14, <2>1, <2>6, CountedIs DEF Sound, Typed
  <2>9. \A y \in Frames(Below) : Fits(y)'
    <3> SUFFICES ASSUME NEW y \in Frames(Below) PROVE Fits(y)'
      OBVIOUS
    <3>1. CASE y.at \in FreeCbs \cup {"accept_cb"}
      BY <2>1, <3>1, FitsRelaxed DEF Relaxed
    <3>2. CASE y.at \in Stops
      <4>1. Fits(y)
        BY <1>2
      <4> QED BY <1>7, <2>1, <3>2, <4>1 DEF Fits, FitsEnter, FitsClose, FitsRead, FitsDestroy,
                 FitsStop, FitsDrain, FitsAbort, Serves, Stops, Drains
    <3> QED BY <2>3, <3>1, <3>2
  <2>10. Fits(x)'
    BY <2>1, <2>4, FitsRelaxed DEF Relaxed, FreeCbs
  <2>11. Phases'
    <3>1. \A d \in Conns : conn'[d].state = "NONE"
      BY <1>7, <1>8, <2>2 DEF Counted, Live
    <3>2. accept_rw' = sock' /\ sock' # TRUE
      BY <1>7, <2>1 DEF Sound, Phases
    <3> QED BY <2>1, <2>7, <3>1, <3>2 DEF Phases
  <2>12. Freed' /\ Looping' /\ Ending' /\ Reached'
    BY <1>4, <1>7, <2>1, <2>4, <2>6 DEF Freed, Looping, Ending, Reached, Top
  <2> QED BY <1>18, <2>6, <2>7, <2>8, <2>9, <2>10, <2>11, <2>12 DEF Sound
<1>20. CASE ~EndsDrain /\ stack' = Below /\ UNCHANGED << state, told >>
  <2>1. Work(stack') = Work(Below)
    BY <1>20
  <2>2. Books' /\ Counted' = Counted \ {c}
    BY <1>13, <1>17, <2>1
  <2>3. Typed'
    BY <1>2, <1>7, <1>9, <1>14, <1>20, CountedIs DEF Sound, Typed
  <2>4. \A x \in Frames(stack') : Fits(x)'
    <3> SUFFICES ASSUME NEW x \in Frames(Below) PROVE Fits(x)'
      BY <1>20
    <3>1. Fits(x) /\ (x.at = "close" => x.n # f)
      BY <1>2, <1>10
    <3>2. FitsEnter(x)' /\ FitsClose(x)'
      BY <1>7, <1>9, <3>1 DEF Fits, FitsEnter, FitsClose
    <3>3. FitsRead(x)' /\ FitsDestroy(x)' /\ FitsStop(x)' /\ FitsDrain(x)' /\ FitsAbort(x)'
      BY <1>7, <1>20, <3>1 DEF Fits, FitsRead, FitsDestroy, FitsStop, FitsDrain, FitsAbort, Serves
    <3> QED BY <3>2, <3>3 DEF Fits
  <2>5. Phases'
    BY <1>7, <1>16, <1>20 DEF Sound, Phases
  <2>6. stack' # << >> => Head(stack').at \notin {"graceful_stop", "destroy"}
    BY <1>1, <1>2, <1>20 DEF MayRun, On
  <2>7. Freed' /\ Looping' /\ Ending'
    BY <1>4, <1>7, <2>6 DEF Freed, Looping, Ending, Top
  <2>8. Reached'
    <3> SUFFICES ASSUME state' = "GRACEFULLY_STOPPING", ~InDrain(stack') PROVE Reached'
      BY DEF Reached
    <3>1. /\ \A d \in Conns : conn[d].state # "ACTIVE"
          /\ \A x \in Work(stack) : x.at = "close" => x.prev = "PENDING_CLOSE"
      BY <1>11, <1>20 DEF Sound, Reached
    <3>2. Top.prev = "PENDING_CLOSE"
      BY <1>1, <1>11, <3>1
    <3>3. active_connections # 1
      BY <1>20, <3>2 DEF EndsDrain
    <3>4. Counted' # {}
      BY <1>15, <2>2, <3>3
    <3> QED BY <1>7, <1>11, <2>1, <3>1, <3>4 DEF Reached
  <2>9. Chain(may', stack')
    BY <1>2, <1>7, <1>20
  <2> QED BY <1>18, <2>2, <2>3, <2>4, <2>5, <2>7, <2>8, <2>9 DEF Sound
<1> QED BY <1>7, <1>19, <1>20
-----------------------------------------------------------------------------
(* Steps: the callbacks of the loop, and returns from callbacks.           *)

\* Nothing waits for the loops of the accept callback and of the read callback.
LEMMA Outermost ==
  ASSUME Sound, stack # << >>, Top.at \in {"accept_cb", "enter", "read_cb"}
  PROVE  Below = << >>
<1>1. /\ Below \in Seq(Frame) /\ MayRun(may, Top, Below) /\ Frames(Below) \subseteq Frame
  BY Opened
<1>2. Frames(Below) = {}
  <2> SUFFICES ASSUME NEW y \in Frames(Below) PROVE FALSE
    OBVIOUS
  <2>1. Over(may, Top, y) /\ y.at \in Points \cup Callbacks
    BY <1>1 DEF MayRun, Frame
  <2> QED BY <2>1 DEF Over, Closing, FreeCbs, Stops, Points, Callbacks
<1> QED BY <1>1, <1>2, EmptyStack

\* A step that only changes the stack, from or to an empty one or to one with
\* nothing at work
LEMMA StackStep ==
  ASSUME Sound, UNCHANGED << srv, conn, fault, may >>,
         stack' \in Seq(Frame), Chain(may', stack'),
         Work(stack') = Work(stack), InDrain(stack') <=> InDrain(stack),
         stack = << >> \/ Top.at # "on_conn_destroy",
         \A x \in Frames(stack') : Fits(x),
         gone = TRUE => \A x \in Frames(stack') : x.at \in FreeCbs \cup {"accept_cb"},
         stack' # << >> => Head(stack').at \notin {"graceful_stop", "destroy"}
  PROVE  Sound'
<1>1. UNCHANGED << state, active_connections, connections, accept_rw, sock, told, gone,
                   conn, fault, may >>
  BY DEF srv
<1>2. Books' /\ Counted' = Counted
  BY <1>1, BooksSame DEF Sound
<1>3. Typed' /\ Phases'
  BY <1>1, <1>2, TypedSame, PhasesSame DEF Sound
<1>4. \A x \in Frames(stack') : Fits(x)'
  BY <1>1, FitsSame
<1>5. HalfClosed'
  BY <1>1, NoneHalfClosed DEF HalfClosed
<1>6. Freed' /\ Looping' /\ Ending'
  BY <1>1 DEF Sound, Freed, Looping, Ending, Top
<1>7. Reached'
  BY <1>1, <1>2 DEF Sound, Reached
<1> QED BY <1>2, <1>3, <1>4, <1>5, <1>6, <1>7 DEF Sound

\* The accept callback begins on an empty stack,
LEMMA AcceptCbSound == ASSUME Sound, Careful, AcceptCb PROVE Sound'
<1>1. stack = << >> /\ stack' = << At("accept_cb", None, 0) >> /\ UNCHANGED << srv, conn, fault, may >>
  BY DEF AcceptCb, Idle
<1>2. PICK x \in Frame : x = At("accept_cb", None, 0) /\ x.at = "accept_cb"
  <2>1. "accept_cb" \in Points
    BY DEF Points
  <2> QED BY <2>1, AtFrame
<1>3. stack' = << x >> \o << >>
  BY <1>1, <1>2, PushJoined
<1>4. Frames(<< >>) = {} /\ << >> \in Seq(Frame) /\ Chain(may, << >>)
  BY NoFrames, NoChain
<1>5. MayRun(may, x, << >>)
  BY <1>2, <1>4 DEF MayRun, Owned
<1>6. /\ stack' \in Seq(Frame) /\ Head(stack') = x
      /\ Frames(stack') = {x} /\ Chain(may', stack')
      /\ Work(stack') = Work(stack) /\ (InDrain(stack') <=> InDrain(stack))
  BY <1>1, <1>2, <1>3, <1>4, <1>5, Pushed DEF Drains
<1>7. Fits(x)
  BY <1>2 DEF Fits, FitsEnter, FitsClose, FitsRead, FitsDestroy, FitsStop, FitsDrain, FitsAbort,
     Stops, Drains
<1> QED BY <1>1, <1>2, <1>6, <1>7, StackStep

\* and so does the read callback.
LEMMA ReadCbSound == ASSUME Sound, Careful, NEW c \in Conns, ReadCb(c) PROVE Sound'
<1>1. /\ stack = << >> /\ stack' = << App("on_read", c), At("read_cb", c, 0) >>
      /\ Serves(c) /\ UNCHANGED << srv, conn, fault, may >>
  BY DEF ReadCb, Idle, Serves
<1>2. PICK x \in Frame : x = App("on_read", c) /\ x.at = "on_read" /\ x.conn = c
  <2>1. "on_read" \in Callbacks
    BY DEF Callbacks
  <2> QED BY <2>1, AppFrame
<1>3. PICK y \in Frame : y = At("read_cb", c, 0) /\ y.at = "read_cb" /\ y.conn = c
  <2>1. "read_cb" \in Points
    BY DEF Points
  <2> QED BY <2>1, AtFrame
<1> DEFINE q == << y >> \o << >>
<1>4. stack' = << x >> \o q
  <2>1. stack' = << x, y >>
    BY <1>1, <1>2, <1>3
  <2> QED BY <2>1, NoFrames, PushJoined
<1>5. Frames(<< >>) = {} /\ << >> \in Seq(Frame) /\ Chain(may, << >>)
  BY NoFrames, NoChain
<1>6. MayRun(may, y, << >>)
  BY <1>3, <1>5 DEF MayRun, Owned
<1>7. /\ q \in Seq(Frame) /\ q # << >> /\ Head(q) = y /\ Frames(q) = {y} /\ Chain(may, q)
      /\ Work(q) = Work(stack) /\ (InDrain(q) <=> InDrain(stack))
  <2>1. /\ q \in Seq(Frame) /\ q # << >> /\ Head(q) = y /\ Frames(q) = {y} \cup Frames(<< >>)
    BY <1>3, <1>5, Push
  <2>2. Chain(may, q)
    BY <1>3, <1>5, <1>6, PushChain
  <2>3. Work(q) = Work(<< >>) /\ (InDrain(q) <=> InDrain(<< >>))
    BY <1>3, <1>5, PushWork DEF Drains
  <2> QED BY <1>1, <1>5, <2>1, <2>2, <2>3
<1> HIDE DEF q
<1>8. MayRun(may, x, q)
  <2>1. \A z \in Frames(q) : Over(may, x, z)
    BY <1>2, <1>3, <1>7 DEF Over, Closing, FreeCbs, Stops
  <2> QED BY <1>2, <1>3, <1>7, <2>1 DEF MayRun, On
<1>9. /\ stack' \in Seq(Frame) /\ Head(stack') = x
      /\ Frames(stack') = {x, y} /\ Chain(may', stack')
      /\ Work(stack') = Work(stack) /\ (InDrain(stack') <=> InDrain(stack))
  BY <1>1, <1>2, <1>4, <1>7, <1>8, Pushed DEF Drains
<1>10. Fits(x) /\ Fits(y)
  BY <1>1, <1>2, <1>3 DEF Fits, FitsEnter, FitsClose, FitsRead, FitsDestroy, FitsStop, FitsDrain,
     FitsAbort, Stops, Drains
<1>11. gone # TRUE
  <2>1. Counted # {}
    BY <1>1 DEF Live, Serves, Counted
  <2> QED BY <2>1 DEF Sound, Freed, Phases
<1> QED BY <1>1, <1>2, <1>9, <1>10, <1>11, StackStep

\* What returns leaves a stack whose functions rely on what they did.
LEMMA ReturnSound ==
  ASSUME Sound, Careful, AcceptEnds \/ ReadEnds \/ CallbackReturns
  PROVE  Sound'
<1>1. /\ stack # << >> /\ fault' = fault
      /\ Top.at \in {"accept_cb", "read_cb"} \cup Callbacks
      /\ Top.at \notin {"on_conn_destroy", "on_graceful_close"}
  <2>1. CASE AcceptEnds
    BY <2>1 DEF AcceptEnds, Runs
  <2>2. CASE ReadEnds
    <3>1. stack # << >> /\ Top.at = "read_cb"
      BY <2>2 DEF ReadEnds, Runs
    <3>2. Top.conn \in Conns /\ Serves(Top.conn)
      BY <3>1, Opened DEF Fits, FitsRead
    <3> QED BY <2>2, <3>1, <3>2 DEF ReadEnds, Live, Serves
  <2>3. CASE CallbackReturns
    BY <2>3 DEF CallbackReturns
  <2> QED BY <2>1, <2>2, <2>3
<1>2. stack' = Below /\ UNCHANGED << srv, conn, fault, may >>
  <2>1. fault = FALSE
    BY DEF Sound, Typed
  <2>2. ~Fault
    BY <1>1, <2>1 DEF Fault
  <2> QED BY <2>2 DEF AcceptEnds, ReadEnds, CallbackReturns
<1>3. /\ Below \in Seq(Frame) /\ Chain(may, Below) /\ MayRun(may, Top, Below)
      /\ Frames(stack) = {Top} \cup Frames(Below) /\ \A x \in Frames(Below) : Fits(x)
  BY <1>1, Opened
<1>4. Work(Below) = Work(stack) /\ (InDrain(Below) <=> InDrain(stack))
  BY <1>1, OpenedWork DEF Drains, Callbacks
<1>5. Below # << >> => Head(Below).at \notin {"graceful_stop", "destroy"}
  <2> SUFFICES ASSUME Below # << >> PROVE Head(Below).at \notin {"graceful_stop", "destroy"}
    OBVIOUS
  <2>1. On(Top, Head(Below)) /\ Head(Below) \in Frames(Below)
    BY <1>3, Pop DEF MayRun
  <2>2. Over(may, Top, Head(Below))
    BY <1>3, <2>1 DEF MayRun
  <2> QED BY <1>1, <2>1, <2>2 DEF On, Over, Closing, Callbacks
<1>6. gone = TRUE => \A x \in Frames(Below) : x.at \in FreeCbs \cup {"accept_cb"}
  BY <1>3 DEF Sound, Freed
<1>7. stack' \in Seq(Frame) /\ Chain(may', stack')
  BY <1>2, <1>3
<1> QED BY <1>1, <1>2, <1>3, <1>4, <1>5, <1>6, <1>7, StackStep

\* A connection on its way into the table is counted.
LEMMA AcceptOneSound ==
  ASSUME Sound, Careful, NEW c \in Conns, NEW f \in Fds, AcceptOne(c, f)
  PROVE  Sound'
<1>1. /\ stack # << >> /\ Top.at = "accept_cb" /\ sock = TRUE
      /\ conn[c] = NoConn
      /\ \A d \in Live : conn[d].sock # f
      /\ active_connections' = active_connections + 1
      /\ conn' = [ conn EXCEPT ![c] = [ state |-> "CREATED", sock |-> f ] ]
      /\ stack' = Asks("on_conn_create", c) \o << At("enter", c, f) >> \o Below
      /\ UNCHANGED << state, connections, accept_rw, sock, told, gone, fault, may >>
  BY DEF AcceptOne, Runs, Sound, Typed
<1>2. Below = << >>
  BY <1>1, Outermost
<1>3. Frames(<< >>) = {} /\ << >> \in Seq(Frame) /\ Chain(may, << >>)
  BY NoFrames, NoChain
<1>4. Work(stack) = {}
  <2>1. Work(stack) = Work(Below)
    BY <1>1, OpenedWork
  <2> QED BY <1>2, <1>3, <2>1 DEF Work
<1>5. PICK x \in Frame : /\ x = At("enter", c, f)
                        /\ x.at = "enter" /\ x.conn = c /\ x.n = f
  <2>1. "enter" \in Points /\ f \in Int
    BY Sockets DEF Points
  <2> QED BY <2>1, AtFrame
<1> DEFINE q == << x >> \o << >>
<1>6. MayRun(may, x, << >>)
  BY <1>3, <1>5 DEF MayRun, Owned
<1>7. /\ q \in Seq(Frame) /\ q # << >> /\ Head(q) = x /\ Frames(q) = {x} /\ Chain(may, q)
      /\ Work(q) = {x} /\ Leaving(q) = {}
  <2>1. q \in Seq(Frame) /\ q # << >> /\ Head(q) = x /\ Frames(q) = {x} \cup Frames(<< >>)
    BY <1>3, <1>5, Push
  <2>2. Chain(may, q)
    BY <1>3, <1>5, <1>6, PushChain
  <2>3. Work(q) = {x}
    BY <1>3, <1>5, <2>1 DEF Work
  <2>4. Leaving(q) = {}
    BY <1>5, <2>3 DEF Leaving
  <2> QED BY <1>3, <2>1, <2>2, <2>3, <2>4
<1>8. PICK y \in Frame : y = App("on_conn_create", c) /\ y.at = "on_conn_create"
  <2>1. "on_conn_create" \in Callbacks
    BY DEF Callbacks
  <2> QED BY <2>1, AppFrame
<1>9. /\ stack' \in Seq(Frame) /\ stack' # << >> /\ Chain(may', stack')
      /\ Head(stack').at \in {"enter", "on_conn_create"}
      /\ \A z \in Frames(stack') : z = x \/ z = y
      /\ Work(stack') = {x} /\ Leaving(stack') = {}
  <2>1. stack' = Asks("on_conn_create", c) \o << x >> \o << >> /\ may' = may
    BY <1>1, <1>2, <1>5
  <2>2. CASE ~IsSet("on_conn_create")
    <3>1. stack' = q
      <4>1. stack' = (<< >> \o << x >>) \o << >>
        BY <2>1, <2>2 DEF Asks
      <4> QED BY <1>3, <4>1, PushJoined
    <3> HIDE DEF q
    <3>2. stack' \in Seq(Frame) /\ stack' # << >> /\ Head(stack') = x /\ Frames(stack') = {x}
      BY <1>7, <3>1
    <3>3. Work(stack') = {x} /\ Leaving(stack') = {} /\ Chain(may', stack')
      BY <1>7, <2>1, <3>1
    <3>4. Head(stack').at \in {"enter", "on_conn_create"} /\ \A z \in Frames(stack') : z = x \/ z = y
      BY <1>5, <3>2
    <3> QED BY <3>2, <3>3, <3>4
  <2>3. CASE IsSet("on_conn_create")
    <3>1. stack' = << y >> \o q
      <4>1. stack' = (<< y >> \o << x >>) \o << >>
        BY <1>8, <2>1, <2>3 DEF Asks
      <4> QED BY <1>3, <4>1, PushJoined
    <3> HIDE DEF q
    <3>2. MayRun(may, y, q)
      <4>1. \A z \in Frames(q) : Over(may, y, z)
        BY <1>5, <1>7, <1>8 DEF Over, Closing, FreeCbs, Stops
      <4> QED BY <1>5, <1>7, <1>8, <4>1 DEF MayRun, On
    <3>3. /\ stack' \in Seq(Frame) /\ stack' # << >> /\ Head(stack') = y
          /\ Frames(stack') = {y} \cup Frames(q) /\ Chain(may', stack')
          /\ Work(stack') = Work(q) /\ Leaving(stack') = Leaving(q)
      BY <1>7, <1>8, <2>1, <3>1, <3>2, Pushed
    <3> QED BY <1>7, <1>8, <3>3
  <2> QED BY <2>2, <2>3
<1> HIDE DEF q
<1>10. conn[c].state = "NONE" /\ \A d \in Conns : conn[d].state # "STOPPED"
  BY <1>1, NoneHalfClosed DEF NoConn
<1>11. /\ conn' \in [ Conns -> [ state : ConnStates, sock : Fds \cup {-1} ] ]
       /\ conn'[c].state = "CREATED" /\ conn'[c].sock = f
       /\ \A d \in Conns : d # c => conn'[d] = conn[d]
  <2>1. conn \in [ Conns -> [ state : ConnStates, sock : Fds \cup {-1} ] ]
    BY DEF Sound, Typed
  <2> QED BY <1>1, <2>1 DEF ConnStates
<1>12. /\ \A d \in Conns : Serves(d)' <=> Serves(d)
       /\ \A d \in Conns : Serves(d) => d # c
  BY <1>10, <1>11 DEF Serves
<1>13. Counted = Live /\ c \notin Counted /\ Counted' = Counted \cup {c}
  <2>1. Counted = Live
    BY <1>1, <1>4, AllServe
  <2>2. Live' = Live \cup {c} /\ c \notin Live
    BY <1>10, <1>11 DEF Live
  <2> QED BY <1>9, <2>1, <2>2 DEF Counted
<1>14. active_connections' = Cardinality(Counted') /\ active_connections \in Nat
  BY <1>1, <1>13, CountedIs, FS_AddElement
<1>15. state = "ACCEPTING" /\ gone # TRUE
  BY <1>1 DEF Sound, Phases, Freed
<1>16. connections[f] = None
  <2> SUFFICES ASSUME connections[f] # None PROVE FALSE
    OBVIOUS
  <2>1. connections[f] \in Conns /\ Serves(connections[f]) /\ conn[connections[f]].sock = f
    BY <1>1, <1>4, AllServe
  <2> QED BY <1>1, <2>1 DEF Live, Serves
<1>17. Typed'
  BY <1>1, <1>9, <1>11, <1>14 DEF Sound, Typed
<1>18. \A z \in Frames(stack') : Fits(z)'
  <2>1. Fits(x)'
    <3>1. FitsEnter(x)'
      BY <1>1, <1>5, <1>11, <1>16 DEF FitsEnter
    <3> QED BY <1>5, <3>1 DEF Fits, FitsClose, FitsRead, FitsDestroy, FitsStop, FitsDrain,
               FitsAbort, Stops, Drains
  <2>2. Fits(y)'
    BY <1>8, FitsRelaxed DEF Relaxed
  <2> QED BY <1>9, <2>1, <2>2
<1>19. Books'
  <2>1. ASSUME NEW d \in Conns
        PROVE  /\ conn'[d].state # "NONE" => conn'[d].sock \in Fds
               /\ conn'[d].state = "CREATED" => \E z \in Work(stack') : z.at = "enter" /\ z.conn = d
               /\ Serves(d)' => connections'[conn'[d].sock] = d
    <3>1. CASE d = c
      BY <1>5, <1>9, <1>11, <1>12, <3>1
    <3>2. CASE d # c
      <4>1. conn[d].state # "CREATED"
        BY <1>4 DEF Sound, Books
      <4> QED BY <1>1, <1>11, <1>12, <3>2, <4>1, Sockets DEF Sound, Books
    <3> QED BY <3>1, <3>2
  <2>2. ASSUME NEW g \in Fds, connections'[g] # None
        PROVE  (Serves(connections[g]) /\ conn[connections[g]].sock = g)'
    <3>1. /\ connections[g] \in Conns /\ Serves(connections[g])
          /\ conn[connections[g]].sock = g
      BY <1>1, <1>4, <2>2, AllServe
    <3> QED BY <1>1, <1>11, <1>12, <3>1 DEF Serves
  <2> QED BY <1>14, <2>1, <2>2 DEF Books
<1>20. HalfClosed'
  BY <1>10, <1>11 DEF HalfClosed
<1>21. Phases'
  <2>1. \A d \in Conns : conn'[d].state = "PENDING_CLOSE" => conn[d].state = "PENDING_CLOSE"
    BY <1>11
  <2> QED BY <1>1, <1>15, <2>1 DEF Sound, Phases
<1>22. Freed' /\ Looping' /\ Ending' /\ Reached'
  BY <1>1, <1>9, <1>15 DEF Freed, Looping, Ending, Reached, Top
<1> QED BY <1>9, <1>17, <1>18, <1>19, <1>20, <1>21, <1>22 DEF Sound

\* Its entry is still free after on_conn_create, and the server still accepts.
LEMMA AcceptEnterSound == ASSUME Sound, Careful, AcceptEnter PROVE Sound'
<1>1. stack # << >> /\ Top.at = "enter"
  BY DEF AcceptEnter, Runs
<1>2. Below = << >> /\ Fits(Top)
  BY <1>1, Outermost, Opened
<1>3. /\ Top.conn \in Conns /\ Top.n \in Fds
      /\ conn[Top.conn].state = "CREATED" /\ conn[Top.conn].sock = Top.n
      /\ connections[Top.n] = None /\ sock = TRUE
  BY <1>1, <1>2 DEF Fits, FitsEnter
<1>4. PICK c \in Conns : c = Top.conn
  BY <1>3
<1>5. PICK f \in Fds : f = Top.n
  BY <1>3
<1>6. state = "ACCEPTING" /\ gone # TRUE
  BY <1>3 DEF Sound, Phases, Freed
<1>7. c \in Live
  BY <1>3, <1>4 DEF Live
<1>8. /\ connections' = [ connections EXCEPT ![f] = c ]
      /\ conn' = [ conn EXCEPT ![c].state = "ACTIVE" ]
      /\ stack' = << App("on_conn_ready", c), At("accept_cb", None, 0) >> \o Below
      /\ UNCHANGED << state, active_connections, accept_rw, sock, told, gone, fault, may >>
  BY <1>3, <1>4, <1>5, <1>6, <1>7 DEF AcceptEnter
<1>9. Frames(<< >>) = {} /\ << >> \in Seq(Frame) /\ Chain(may, << >>)
  BY NoFrames, NoChain
<1>10. PICK x \in Frame : x = App("on_conn_ready", c) /\ x.at = "on_conn_ready"
  <2>1. "on_conn_ready" \in Callbacks
    BY DEF Callbacks
  <2> QED BY <2>1, AppFrame
<1>11. PICK y \in Frame : y = At("accept_cb", None, 0) /\ y.at = "accept_cb"
  <2>1. "accept_cb" \in Points
    BY DEF Points
  <2> QED BY <2>1, AtFrame
<1> DEFINE q == << y >> \o << >>
<1>12. stack' = << x >> \o q
  <2>1. stack' = << x, y >> \o << >>
    BY <1>2, <1>8, <1>10, <1>11
  <2> QED BY <1>9, <2>1, PushTwo
<1>13. MayRun(may, y, << >>)
  BY <1>9, <1>11 DEF MayRun, Owned
<1>14. q \in Seq(Frame) /\ q # << >> /\ Head(q) = y /\ Frames(q) = {y} /\ Chain(may, q)
  <2>1. q \in Seq(Frame) /\ q # << >> /\ Head(q) = y /\ Frames(q) = {y} \cup Frames(<< >>)
    BY <1>9, <1>11, Push
  <2>2. Chain(may, q)
    BY <1>9, <1>11, <1>13, PushChain
  <2> QED BY <1>9, <2>1, <2>2
<1> HIDE DEF q
<1>15. MayRun(may, x, q)
  <2>1. \A z \in Frames(q) : Over(may, x, z)
    BY <1>10, <1>11, <1>14 DEF Over, Closing, FreeCbs, Stops
  <2> QED BY <1>10, <1>11, <1>14, <2>1 DEF MayRun, On
<1>16. /\ stack' \in Seq(Frame) /\ stack' # << >> /\ Head(stack') = x
       /\ Frames(stack') = {x, y} /\ Chain(may', stack')
  BY <1>8, <1>10, <1>12, <1>14, <1>15, Pushed
<1>17. Work(stack') = {} /\ Leaving(stack') = {}
  <2>1. Work(stack') = {}
    BY <1>10, <1>11, <1>16 DEF Work
  <2> QED BY <2>1 DEF Leaving
<1>18. Work(stack) = {Top} /\ Leaving(stack) = {}
  <2>1. Work(stack) = {Top} \cup Work(Below)
    BY <1>1, OpenedWork
  <2>2. Work(stack) = {Top}
    BY <1>2, <1>9, <2>1 DEF Work
  <2> QED BY <1>1, <2>2 DEF Leaving
<1>19. \A d \in Conns : conn[d].state # "STOPPED"
  BY <1>1, NoneHalfClosed
<1>20. /\ conn' \in [ Conns -> [ state : ConnStates, sock : Fds \cup {-1} ] ]
       /\ conn'[c].state = "ACTIVE" /\ conn'[c].sock = f
       /\ \A d \in Conns : d # c => conn'[d] = conn[d]
  <2>1. conn \in [ Conns -> [ state : ConnStates, sock : Fds \cup {-1} ] ]
    BY DEF Sound, Typed
  <2> QED BY <1>3, <1>4, <1>5, <1>8, <2>1 DEF ConnStates
<1>21. /\ connections' \in [ Fds -> Conns \cup {None} ] /\ connections'[f] = c
       /\ \A g \in Fds : g # f => connections'[g] = connections[g]
  <2>1. connections \in [ Fds -> Conns \cup {None} ]
    BY DEF Sound, Typed
  <2> QED BY <1>8, <2>1
<1>22. Counted' = Counted
  <2>1. Live' = Live
    BY <1>7, <1>20 DEF Live
  <2> QED BY <1>17, <1>18, <2>1 DEF Counted
<1>23. Typed'
  BY <1>8, <1>16, <1>20, <1>21 DEF Sound, Typed
<1>24. \A z \in Frames(stack') : Fits(z)'
  BY <1>10, <1>11, <1>16, FitsRelaxed DEF Relaxed, FreeCbs
<1>25. Books'
  <2>1. active_connections' = Cardinality(Counted')
    BY <1>8, <1>22 DEF Sound, Books
  <2>2. ASSUME NEW d \in Conns
        PROVE  /\ conn'[d].state # "NONE" => conn'[d].sock \in Fds
               /\ conn'[d].state # "CREATED"
               /\ Serves(d)' => connections'[conn'[d].sock] = d
    <3>1. CASE d = c
      BY <1>20, <1>21, <3>1
    <3>2. CASE d # c
      <4>1. conn[d].state # "CREATED"
        BY <1>4, <1>18, <3>2 DEF Sound, Books
      <4>2. Serves(d) => connections[conn[d].sock] = d /\ conn[d].sock \in Fds /\ conn[d].sock # f
        BY <1>3, <1>5, Sockets DEF Sound, Books, Serves
      <4>3. Serves(d)' => connections'[conn'[d].sock] = d
        BY <1>20, <1>21, <3>2, <4>2 DEF Serves
      <4> QED BY <1>20, <3>2, <4>1, <4>3, Sockets
    <3> QED BY <3>1, <3>2
  <2>3. ASSUME NEW g \in Fds, connections'[g] # None
        PROVE  (Serves(connections[g]) /\ conn[connections[g]].sock = g)'
    <3>1. CASE g = f
      BY <1>20, <1>21, <3>1 DEF Serves
    <3>2. CASE g # f
      <4>1. connections'[g] = connections[g] /\ connections[g] \in Conns
        BY <1>21, <2>3, <3>2
      <4>2. Serves(connections[g]) /\ conn[connections[g]].sock = g
        BY <1>1, <1>18, <2>3, <4>1 DEF Sound, Books
      <4>3. connections[g] # c
        BY <1>3, <1>4, <4>2 DEF Serves
      <4> QED BY <1>20, <4>1, <4>2, <4>3 DEF Serves
    <3> QED BY <3>1, <3>2
  <2> QED BY <2>1, <2>2, <2>3 DEF Books
<1>26. HalfClosed'
  BY <1>19, <1>20 DEF HalfClosed
<1>27. Phases'
  <2>1. \A d \in Conns : conn'[d].state = "PENDING_CLOSE" => conn[d].state = "PENDING_CLOSE"
    BY <1>20
  <2> QED BY <1>8, <1>22, <2>1 DEF Sound, Phases
<1>28. Freed' /\ Looping' /\ Ending' /\ Reached'
  BY <1>6, <1>8, <1>10, <1>16 DEF Freed, Looping, Ending, Reached, Top
<1> QED BY <1>16, <1>23, <1>24, <1>25, <1>26, <1>27, <1>28 DEF Sound
-----------------------------------------------------------------------------
(* The invariant, and what follows from it.                                *)

\* A new server satisfies the invariant,
LEMMA InitSound == Init => Sound
<1> SUFFICES ASSUME Init PROVE Sound
  OBVIOUS
<1>1. /\ stack = << >> /\ \A c \in Conns : conn[c] = NoConn
      /\ active_connections = 0 /\ state = "IDLE" /\ \A f \in Fds : connections[f] = None
      /\ accept_rw = FALSE /\ sock = FALSE /\ gone = FALSE /\ fault = FALSE /\ told = 0
  BY DEF Init
<1>2. Frames(stack) = {} /\ stack \in Seq(Frame) /\ Chain(may, stack)
  BY <1>1, NoFrames, NoChain
<1>3. Work(stack) = {} /\ Leaving(stack) = {} /\ Counted = {}
  BY <1>1, <1>2 DEF Work, Leaving, Counted, Live, NoConn
<1>4. Typed
  <2>1. conn \in [ Conns -> [ state : ConnStates, sock : Fds \cup {-1} ] ]
    BY DEF Init, NoConn, ConnStates
  <2>2. connections \in [ Fds -> Conns \cup {None} ] /\ may \in Profiles
    BY DEF Init
  <2>3. accept_rw \in BOOLEAN /\ sock \in BOOLEAN /\ gone \in BOOLEAN
    BY <1>1
  <2>4. told \in Nat /\ active_connections \in Int
    BY <1>1
  <2> QED BY <1>1, <1>2, <2>1, <2>2, <2>3, <2>4 DEF Typed
<1>5. Books
  BY <1>1, <1>3, FS_EmptySet DEF Books, NoConn, Serves
<1>6. HalfClosed /\ Phases
  <2>1. accept_rw = sock /\ sock # TRUE
    BY <1>1
  <2> QED BY <1>1, <1>3, <2>1 DEF HalfClosed, Phases, NoConn
<1>7. Freed /\ Looping /\ Ending /\ Reached
  BY <1>1 DEF Freed, Looping, Ending, Reached
<1> QED BY <1>2, <1>4, <1>5, <1>6, <1>7 DEF Sound

\* every step keeps it,
LEMMA NextSound == ASSUME Sound, Careful, [Next]_vars PROVE Sound'
<1>1. CASE EvsrvStart
  BY <1>1, StartSound
<1>2. CASE EvsrvStop
  BY <1>2, StopSound
<1>3. CASE GracefulStop
  BY <1>3, GracefulStopSound
<1>4. CASE EvsrvDestroy
  BY <1>4, DestroySound
<1>5. ASSUME NEW c \in Conns, ConnClose(c) PROVE Sound'
  BY <1>5, ConnCloseSound
<1>6. CASE ConnDestroy
  BY <1>6, ConnDestroySound
<1>7. CASE EndClose
  BY <1>7, EndCloseSound
<1>8. CASE StopLoop
  BY <1>8, StopLoopSound
<1>9. CASE GracefulLoop
  BY <1>9, GracefulLoopSound
<1>10. CASE GracefulCloseReturns
  BY <1>10, CloseReturnsSound
<1>11. CASE GracefulCount
  BY <1>11, CountSound
<1>12. CASE DestroyEnds
  BY <1>12, DestroyEndsSound
<1>13. CASE AcceptEnter
  BY <1>13, AcceptEnterSound
<1>14. CASE AcceptEnds \/ ReadEnds \/ CallbackReturns
  BY <1>14, ReturnSound
<1>15. CASE AcceptCb
  BY <1>15, AcceptCbSound
<1>16. ASSUME NEW c \in Conns, ReadCb(c) PROVE Sound'
  BY <1>16, ReadCbSound
<1>17. ASSUME NEW c \in Conns, Fails(c) PROVE Sound'
  BY <1>17, FailsSound
<1>18. ASSUME NEW c \in Conns, NEW f \in Fds, AcceptOne(c, f) PROVE Sound'
  BY <1>18, AcceptOneSound
<1>19. CASE UNCHANGED vars
  <2>1. UNCHANGED << state, active_connections, connections, accept_rw, sock, told, gone, conn,
                     stack, fault, may >>
    BY <1>19 DEF vars, srv
  <2>2. Books' /\ Counted' = Counted
    BY <2>1, BooksSame DEF Sound
  <2>3. Typed' /\ Chain(may', stack')
    BY <2>1 DEF Sound, Typed
  <2>4. \A x \in Frames(stack') : Fits(x)'
    BY <2>1, FitsSame DEF Sound
  <2>5. HalfClosed' /\ Phases' /\ Freed' /\ Looping' /\ Ending' /\ Reached'
    BY <2>1, <2>2 DEF Sound, HalfClosed, Phases, Freed, Looping, Ending, Reached, Top
  <2> QED BY <2>2, <2>3, <2>4, <2>5 DEF Sound
<1> QED BY <1>1, <1>2, <1>3, <1>4, <1>5, <1>6, <1>7, <1>8, <1>9, <1>10, <1>11, <1>12, <1>13,
           <1>14, <1>15, <1>16, <1>17, <1>18, <1>19 DEF Next, Api, Forward

\* and what the application does is chosen once.
LEMMA SameApplication == ASSUME [Next]_vars PROVE may' = may
BY DEF Next, Api, Forward, vars, srv, EvsrvStart, EvsrvStop, GracefulStop, EvsrvDestroy,
       ConnClose, BeginClose, ConnDestroy, EndClose, StopLoop, GracefulLoop, GracefulCloseReturns,
       GracefulCount, DestroyEnds, AcceptEnter, AcceptEnds, ReadEnds, CallbackReturns, AcceptCb,
       ReadCb, Fails, AcceptOne, Fault

\* However calls and callbacks are nested, the invariant holds for a careful
\* application: books, phases and every function on the stack fit together
\* (src/evsrv.c, src/evsrv_conn.c).
THEOREM ReentrySound == Spec => []IInv
<1>1. Init => IInv
  BY InitSound DEF IInv
<1>2. IInv /\ [Next]_vars => IInv'
  <2> SUFFICES ASSUME IInv, [Next]_vars, Careful' PROVE Sound'
    BY DEF IInv
  <2>1. Careful
    BY SameApplication DEF Careful, IsSet
  <2> QED BY <2>1, NextSound DEF IInv
<1> QED BY <1>1, <1>2, PTL DEF Spec

\* What the books say while no function runs: every object serves, and its
\* entry of the table is the only one (src/evsrv.c:184-200).
LEMMA AtRest ==
  ASSUME Sound, stack = << >>
  PROVE  /\ Counted = Live
         /\ Work(stack) = {}
         /\ \A c \in Live : Serves(c) /\ connections[conn[c].sock] = c
         /\ \A f \in OpenFds : connections[f] \in Live /\ conn[connections[f]].sock = f
<1>1. Frames(stack) = {} /\ Work(stack) = {}
  BY NoFrames DEF Work
<1>2. Counted = Live /\ \A c \in Live : Serves(c)
  BY <1>1, AllServe
<1>3. \A c \in Live : connections[conn[c].sock] = c
  BY <1>2 DEF Live, Sound, Books
<1>4. \A f \in OpenFds : connections[f] \in Live /\ conn[connections[f]].sock = f
  BY <1>1, AllServe DEF OpenFds, Serves, Live
<1> QED BY <1>1, <1>2, <1>3, <1>4

\* When the outermost function has returned, counter, table and connections
\* agree, whatever the callbacks have called (src/evsrv.c:184-200,
\* src/evsrv_conn.c:107-128).
THEOREM BooksBalance == Spec => []BooksAtRest
<1>1. IInv => BooksAtRest
  <2> SUFFICES ASSUME Sound, Idle
               PROVE  /\ active_connections = Cardinality(Live)
                      /\ \A f \in OpenFds : connections[f] \in Live /\ conn[connections[f]].sock = f
                      /\ \A c \in Live : connections[conn[c].sock] = c
    BY DEF IInv, BooksAtRest
  <2>1. stack = << >>
    BY DEF Idle
  <2>2. active_connections = Cardinality(Live)
    BY <2>1, AtRest, CountedIs
  <2> QED BY <2>1, <2>2, AtRest
<1> QED BY <1>1, ReentrySound, PTL

\* A server that has stopped has no connection and no listener left, so that
\* evsrv_destroy may free it (src/evsrv.c:48-56, 210-225).
THEOREM StoppedEmpty == Spec => []StoppedIsEmpty
<1>1. IInv => StoppedIsEmpty
  <2> SUFFICES ASSUME Sound, state = "STOPPED"
               PROVE  Live = {} /\ accept_rw = FALSE /\ sock = FALSE
    BY DEF IInv, StoppedIsEmpty
  <2>1. Counted = {} /\ accept_rw = sock /\ sock # TRUE
    BY DEF Sound, Phases
  <2>2. Live = {}
    BY <2>1 DEF Counted
  <2>3. sock = FALSE
    BY <2>1 DEF Sound, Typed
  <2>4. accept_rw = FALSE
    BY <2>1, <2>3
  <2> QED BY <2>2, <2>3, <2>4
<1> QED BY <1>1, ReentrySound, PTL

\* No function goes on with a connection or a table that a callback it made
\* has caused to be freed (src/evsrv.c:202, 219, 242,
\* src/evsrv_conn.c:115-128, 221).
THEOREM FreedNeverUsed == Spec => []NeverUsesFreed
<1>1. IInv => NeverUsesFreed
  BY DEF IInv, Sound, Typed, NeverUsesFreed
<1> QED BY <1>1, ReentrySound, PTL

\* However stops are nested, the end of a graceful stop is reported once, and
\* with no connection left (src/evsrv.c:254-258, src/evsrv_conn.c:130-136).
THEOREM EndReportedOnce == Spec => []ReportedOnce
<1>1. IInv => ReportedOnce
  <2> SUFFICES ASSUME Sound PROVE told <= 1 /\ (told = 1 => active_connections = 0)
    BY DEF IInv, ReportedOnce
  <2>1. told \in {0, 1} /\ (told = 1 => Counted = {})
    BY DEF Sound, Phases
  <2> QED BY <2>1, CountedIs
<1> QED BY <1>1, ReentrySound, PTL

\* A graceful stop requested from a callback has reached every connection once
\* the functions have returned, also one that was being accepted
\* (src/evsrv.c:184-204, 241-252).
THEOREM DrainReaches == Spec => []DrainReachesAll
<1>1. IInv => DrainReachesAll
  <2> SUFFICES ASSUME Sound, Idle, state = "GRACEFULLY_STOPPING"
               PROVE  Live # {} /\ \A c \in Live : conn[c].state = "PENDING_CLOSE"
    BY DEF IInv, DrainReachesAll
  <2>1. stack = << >>
    BY DEF Idle
  <2>2. Counted = Live /\ \A c \in Live : Serves(c)
    BY <2>1, AtRest
  <2>3. ~InDrain(stack)
    BY <2>1, NoFrames DEF InDrain
  <2>4. Counted # {} /\ \A c \in Conns : conn[c].state # "ACTIVE"
    BY <2>3 DEF Sound, Reached
  <2> QED BY <2>2, <2>4 DEF Serves, Live
<1> QED BY <1>1, ReentrySound, PTL
=============================================================================
