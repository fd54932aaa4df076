----------------------- MODULE EvsrvReentryTypeProofs -----------------------
(***************************************************************************)
(* What is true of EvsrvReentry even if the application is not careful:    *)
(* the counter of connections stays within its range.  Such an application *)
(* may close a connection again while on_conn_destroy looks at it.  Then   *)
(* two functions wait to take it off the counter, but only the inner one   *)
(* gets there: the outer one waits below a callback that goes on to use a  *)
(* connection the inner one has destroyed.                                 *)
(***************************************************************************)
EXTENDS EvsrvReentryProofs

\* An application that creates connections also destroys them.
BothSet == IsSet("on_conn_create") => IsSet("on_conn_destroy")

\* on_conn_destroy with the connection c
Looks(x, c) == x.at = "on_conn_destroy" /\ x.conn = c

\* The connections that a function of the stack q will take off the counter
Going(q) ==
  { c \in Conns : \E i \in 1 .. Len(q) :
      /\ q[i].at = "close" /\ q[i].conn = c
      /\ \A j \in 1 .. Len(q) : j < i => ~Looks(q[j], c) }

\* The accept callback is the outermost function, the two callbacks run on the
\* functions that make them, and whoever closes a connection that is being
\* closed is called from on_conn_destroy.
Shaped(q) == \A i \in 1 .. Len(q) :
  /\ q[i].at \in {"accept_cb", "enter"} => i = Len(q)
  /\ q[i].at = "on_conn_destroy" =>
       i < Len(q) /\ q[i + 1].at = "close" /\ q[i + 1].conn = q[i].conn
  /\ q[i].at = "on_graceful_close" => i < Len(q) /\ q[i + 1].at = "graceful_stop"
  /\ q[i].at = "close" => q[i].conn \in Conns
  /\ \A k \in 1 .. Len(q) :
       i < k /\ q[i].at = "close" /\ q[k].at = "close" /\ q[k].conn = q[i].conn =>
         \E j \in 1 .. Len(q) : i < j /\ j < k /\ Looks(q[j], q[i].conn)

Typing ==
  /\ state \in States
  /\ active_connections \in Int
  /\ connections \in [ Fds -> Conns \cup {None} ]
  /\ accept_rw \in BOOLEAN /\ sock \in BOOLEAN /\ gone \in BOOLEAN /\ fault \in BOOLEAN
  /\ conn \in [ Conns -> [ state : ConnStates, sock : Fds \cup {-1} ] ]
  /\ stack \in Seq(Frame)
  /\ told \in Nat
  /\ may \in Profiles

\* A connection is counted until the function that takes it off has returned.
Balance ==
  /\ active_connections = Cardinality(Live \cup Going(stack))
  /\ Live \cap Going(stack) = {}

Counts == Typing /\ Shaped(stack) /\ Balance

CountsInv == BothSet => Counts
-----------------------------------------------------------------------------
(* Pushing and popping.                                                    *)

\* May x run on the functions q?
Lies(x, q) ==
  /\ x.at \in {"accept_cb", "enter"} => q = << >>
  /\ x.at = "on_conn_destroy" => q # << >> /\ Head(q).at = "close" /\ Head(q).conn = x.conn
  /\ x.at = "on_graceful_close" => q # << >> /\ Head(q).at = "graceful_stop"
  /\ x.at = "close" => x.conn \in Conns \ Going(q)

\* The stack with x on it, by its indices
LEMMA Indices ==
  ASSUME NEW q \in Seq(Frame), NEW x \in Frame, NEW s, s = << x >> \o q
  PROVE  /\ s \in Seq(Frame) /\ Len(s) = Len(q) + 1 /\ Len(q) \in Nat
         /\ s[1] = x
         /\ \A i \in 1 .. Len(q) : i + 1 \in 1 .. Len(s) /\ s[i + 1] = q[i]
         /\ \A i \in 1 .. Len(s) : i # 1 => i - 1 \in 1 .. Len(q) /\ s[i] = q[i - 1]
         /\ q = << >> <=> Len(q) = 0
         /\ q # << >> => Head(q) = q[1]
<1>1. /\ s \in Seq(Frame) /\ Len(s) = Len(q) + 1 /\ s[1] = x
      /\ \A i \in 1 .. Len(q) : s[i + 1] = q[i]
      /\ Len(q) \in Nat /\ (q # << >> => Len(q) > 0 /\ Head(q) = q[1])
      /\ (q = << >> => Len(q) = 0)
  OBVIOUS
<1>2. ASSUME NEW i \in 1 .. Len(s), i # 1
      PROVE  i - 1 \in 1 .. Len(q) /\ s[i] = q[i - 1]
  BY <1>1, <1>2
<1> QED BY <1>1, <1>2

\* What is on its way once x is on q
LEMMA PushGoing ==
  ASSUME NEW q \in Seq(Frame), NEW x \in Frame
  PROVE  /\ x.at \notin {"close", "on_conn_destroy"} => Going(<< x >> \o q) = Going(q)
         /\ x.at = "close" /\ x.conn \in Conns => Going(<< x >> \o q) = Going(q) \cup {x.conn}
         /\ x.at = "on_conn_destroy" => Going(<< x >> \o q) = Going(q) \ {x.conn}
<1> DEFINE s == << x >> \o q
<1>1. /\ Len(s) = Len(q) + 1 /\ Len(q) \in Nat /\ s[1] = x
      /\ \A i \in 1 .. Len(q) : i + 1 \in 1 .. Len(s) /\ s[i + 1] = q[i]
      /\ \A i \in 1 .. Len(s) : i # 1 => i - 1 \in 1 .. Len(q) /\ s[i] = q[i - 1]
  BY Indices
<1> HIDE DEF s
<1>2. ASSUME NEW c \in Going(s), ~(x.at = "close" /\ x.conn = c)
      PROVE  ~Looks(x, c) /\ c \in Going(q)
  <2>1. PICK i \in 1 .. Len(s) :
          /\ s[i].at = "close" /\ s[i].conn = c
          /\ \A j \in 1 .. Len(s) : j < i => ~Looks(s[j], c)
    BY <1>2 DEF Going
  <2>2. i # 1 /\ 1 \in 1 .. Len(s) /\ 1 < i
    BY <1>1, <1>2, <2>1
  <2>3. i - 1 \in 1 .. Len(q) /\ q[i - 1].at = "close" /\ q[i - 1].conn = c
    BY <1>1, <2>1, <2>2
  <2>4. ASSUME NEW j \in 1 .. Len(q), j < i - 1 PROVE ~Looks(q[j], c)
    <3>1. j + 1 \in 1 .. Len(s) /\ s[j + 1] = q[j] /\ j + 1 < i
      BY <1>1, <2>4
    <3> QED BY <2>1, <3>1
  <2>5. ~Looks(x, c) /\ c \in Conns
    BY <1>1, <2>1, <2>2 DEF Going
  <2> QED BY <2>3, <2>4, <2>5 DEF Going
<1>3. ASSUME NEW c \in Going(q), ~Looks(x, c) PROVE c \in Going(s)
  <2>1. PICK i \in 1 .. Len(q) :
          /\ q[i].at = "close" /\ q[i].conn = c
          /\ \A j \in 1 .. Len(q) : j < i => ~Looks(q[j], c)
    BY <1>3 DEF Going
  <2>2. i + 1 \in 1 .. Len(s) /\ s[i + 1].at = "close" /\ s[i + 1].conn = c
    BY <1>1, <2>1
  <2>3. ASSUME NEW j \in 1 .. Len(s), j < i + 1 PROVE ~Looks(s[j], c)
    <3>1. CASE j = 1
      BY <1>1, <1>3, <3>1
    <3>2. CASE j # 1
      <4>1. j - 1 \in 1 .. Len(q) /\ s[j] = q[j - 1] /\ j - 1 < i
        BY <1>1, <2>3, <3>2
      <4> QED BY <2>1, <4>1
    <3> QED BY <3>1, <3>2
  <2> QED BY <2>2, <2>3 DEF Going
<1>4. ASSUME x.at = "close", x.conn \in Conns PROVE x.conn \in Going(s)
  <2>1. 1 \in 1 .. Len(s) /\ \A j \in 1 .. Len(s) : ~(j < 1)
    BY <1>1
  <2> QED BY <1>1, <1>4, <2>1 DEF Going
<1>5. x.at \notin {"close", "on_conn_destroy"} => Going(s) = Going(q)
  BY <1>2, <1>3 DEF Looks
<1>6. x.at = "close" /\ x.conn \in Conns => Going(s) = Going(q) \cup {x.conn}
  BY <1>2, <1>3, <1>4 DEF Looks
<1>7. x.at = "on_conn_destroy" => Going(s) = Going(q) \ {x.conn}
  BY <1>2, <1>3 DEF Looks
<1> QED BY <1>5, <1>6, <1>7 DEF s

\* Pushing keeps the shape if the new function may run there;
LEMMA PushShape ==
  ASSUME NEW q \in Seq(Frame), NEW x \in Frame, Shaped(q), Lies(x, q)
  PROVE  Shaped(<< x >> \o q)
<1> DEFINE s == << x >> \o q
<1>1. /\ Len(s) = Len(q) + 1 /\ Len(q) \in Nat /\ s[1] = x
      /\ \A i \in 1 .. Len(q) : i + 1 \in 1 .. Len(s) /\ s[i + 1] = q[i]
      /\ \A i \in 1 .. Len(s) : i # 1 => i - 1 \in 1 .. Len(q) /\ s[i] = q[i - 1]
      /\ (q = << >> <=> Len(q) = 0) /\ (q # << >> => Head(q) = q[1])
  BY Indices
<1> HIDE DEF s
<1> SUFFICES ASSUME NEW i \in 1 .. Len(s)
             PROVE  /\ s[i].at \in {"accept_cb", "enter"} => i = Len(s)
                    /\ s[i].at = "on_conn_destroy" =>
                         i < Len(s) /\ s[i + 1].at = "close" /\ s[i + 1].conn = s[i].conn
                    /\ s[i].at = "on_graceful_close" => i < Len(s) /\ s[i + 1].at = "graceful_stop"
                    /\ s[i].at = "close" => s[i].conn \in Conns
                    /\ \A k \in 1 .. Len(s) :
                         i < k /\ s[i].at = "close" /\ s[k].at = "close" /\ s[k].conn = s[i].conn =>
                           \E j \in 1 .. Len(s) : i < j /\ j < k /\ Looks(s[j], s[i].conn)
  BY DEF Shaped, s
<1>2. CASE i = 1
  <2>1. q # << >> => 1 \in 1 .. Len(q) /\ s[2] = Head(q) /\ 1 < Len(s)
    BY <1>1
  <2>2. ASSUME NEW k \in 1 .. Len(s),
               1 < k, x.at = "close", s[k].at = "close", s[k].conn = x.conn
        PROVE  \E j \in 1 .. Len(s) : 1 < j /\ j < k /\ Looks(s[j], x.conn)
    <3>1. k - 1 \in 1 .. Len(q) /\ s[k] = q[k - 1] /\ x.conn \in Conns /\ x.conn \notin Going(q)
      BY <1>1, <2>2 DEF Lies
    <3>2. PICK j \in 1 .. Len(q) : j < k - 1 /\ Looks(q[j], x.conn)
      BY <2>2, <3>1 DEF Going
    <3>3. j + 1 \in 1 .. Len(s) /\ 1 < j + 1 /\ j + 1 < k /\ Looks(s[j + 1], x.conn)
      BY <1>1, <3>2
    <3> QED BY <3>3
  <2>3. s[1] = x /\ 1 + 1 = 2
    BY <1>1
  <2>4. x.at \in {"accept_cb", "enter"} => Len(s) = 1
    BY <1>1 DEF Lies
  <2> QED BY <1>2, <2>1, <2>2, <2>3, <2>4 DEF Lies
<1>3. CASE i # 1
  <2>1. /\ i - 1 \in 1 .. Len(q) /\ s[i] = q[i - 1]
        /\ i - 1 < Len(q) => i < Len(s) /\ s[i + 1] = q[(i - 1) + 1]
        /\ i - 1 = Len(q) => i = Len(s)
    BY <1>1, <1>3
  <2>2. ASSUME NEW k \in 1 .. Len(s),
               i < k, s[i].at = "close", s[k].at = "close", s[k].conn = s[i].conn
        PROVE  \E j \in 1 .. Len(s) : i < j /\ j < k /\ Looks(s[j], s[i].conn)
    <3>1. k - 1 \in 1 .. Len(q) /\ s[k] = q[k - 1] /\ i - 1 < k - 1
      BY <1>1, <2>2
    <3>2. PICK j \in 1 .. Len(q) : i - 1 < j /\ j < k - 1 /\ Looks(q[j], s[i].conn)
      BY <2>1, <2>2, <3>1 DEF Shaped
    <3>3. j + 1 \in 1 .. Len(s) /\ i < j + 1 /\ j + 1 < k /\ Looks(s[j + 1], s[i].conn)
      BY <1>1, <3>2
    <3> QED BY <3>3
  <2>3. /\ q[i - 1].at \in {"accept_cb", "enter"} => i - 1 = Len(q)
        /\ q[i - 1].at = "on_conn_destroy" =>
             /\ i - 1 < Len(q) /\ q[(i - 1) + 1].at = "close"
             /\ q[(i - 1) + 1].conn = q[i - 1].conn
        /\ q[i - 1].at = "on_graceful_close" =>
             i - 1 < Len(q) /\ q[(i - 1) + 1].at = "graceful_stop"
        /\ q[i - 1].at = "close" => q[i - 1].conn \in Conns
    BY <2>1 DEF Shaped
  <2> QED BY <2>1, <2>2, <2>3
<1> QED BY <1>2, <1>3

\* the rest of a stack has its shape, and the top may run on it.
LEMMA PopShape ==
  ASSUME NEW s \in Seq(Frame), s # << >>, Shaped(s)
  PROVE  Shaped(Tail(s)) /\ Lies(Head(s), Tail(s))
<1>1. PICK q \in Seq(Frame), x \in Frame : s = << x >> \o q /\ q = Tail(s) /\ x = Head(s)
  BY Pop
<1>2. /\ Len(s) = Len(q) + 1 /\ Len(q) \in Nat /\ s[1] = x
      /\ \A i \in 1 .. Len(q) : i + 1 \in 1 .. Len(s) /\ s[i + 1] = q[i]
      /\ \A i \in 1 .. Len(s) : i # 1 => i - 1 \in 1 .. Len(q) /\ s[i] = q[i - 1]
      /\ (q = << >> <=> Len(q) = 0) /\ (q # << >> => Head(q) = q[1])
  <2>1. s = << x >> \o q
    BY <1>1
  <2> QED BY ONLY <2>1, Indices, q \in Seq(Frame), x \in Frame
<1>3. ASSUME NEW i \in 1 .. Len(q)
      PROVE  /\ q[i].at \in {"accept_cb", "enter"} => i = Len(q)
             /\ q[i].at = "on_conn_destroy" =>
                  i < Len(q) /\ q[i + 1].at = "close" /\ q[i + 1].conn = q[i].conn
             /\ q[i].at = "on_graceful_close" => i < Len(q) /\ q[i + 1].at = "graceful_stop"
             /\ q[i].at = "close" => q[i].conn \in Conns
             /\ \A k \in 1 .. Len(q) :
                  i < k /\ q[i].at = "close" /\ q[k].at = "close" /\ q[k].conn = q[i].conn =>
                    \E j \in 1 .. Len(q) : i < j /\ j < k /\ Looks(q[j], q[i].conn)
  <2>1. /\ i + 1 \in 1 .. Len(s) /\ s[i + 1] = q[i]
        /\ i + 1 < Len(s) => i < Len(q) /\ s[(i + 1) + 1] = q[i + 1]
        /\ i + 1 = Len(s) => i = Len(q)
    BY <1>2
  <2>2. ASSUME NEW k \in 1 .. Len(q),
               i < k, q[i].at = "close", q[k].at = "close", q[k].conn = q[i].conn
        PROVE  \E j \in 1 .. Len(q) : i < j /\ j < k /\ Looks(q[j], q[i].conn)
    <3>1. k + 1 \in 1 .. Len(s) /\ s[k + 1] = q[k] /\ i + 1 < k + 1
      BY <1>2, <2>2
    <3>2. PICK j \in 1 .. Len(s) : i + 1 < j /\ j < k + 1 /\ Looks(s[j], q[i].conn)
      BY <2>1, <2>2, <3>1 DEF Shaped
    <3>3. j - 1 \in 1 .. Len(q) /\ i < j - 1 /\ j - 1 < k /\ Looks(q[j - 1], q[i].conn)
      BY <1>2, <3>2
    <3> QED BY <3>3
  <2>3. /\ s[i + 1].at \in {"accept_cb", "enter"} => i + 1 = Len(s)
        /\ s[i + 1].at = "on_conn_destroy" =>
             /\ i + 1 < Len(s) /\ s[(i + 1) + 1].at = "close"
             /\ s[(i + 1) + 1].conn = s[i + 1].conn
        /\ s[i + 1].at = "on_graceful_close" =>
             i + 1 < Len(s) /\ s[(i + 1) + 1].at = "graceful_stop"
        /\ s[i + 1].at = "close" => s[i + 1].conn \in Conns
    BY <2>1 DEF Shaped
  <2> QED BY <2>1, <2>2, <2>3
<1>4. Shaped(q)
  BY <1>3 DEF Shaped
<1>5. Lies(x, q)
  <2>1. 1 \in 1 .. Len(s)
    BY <1>2
  <2>2. x.at \in {"accept_cb", "enter"} => q = << >>
    BY <1>2, <2>1 DEF Shaped
  <2>3. 1 < Len(s) => q # << >> /\ s[1 + 1] = Head(q)
    BY <1>2
  <2>4. x.at = "on_conn_destroy" => q # << >> /\ Head(q).at = "close" /\ Head(q).conn = x.conn
    BY <1>2, <2>1, <2>3 DEF Shaped
  <2>5. x.at = "on_graceful_close" => q # << >> /\ Head(q).at = "graceful_stop"
    BY <1>2, <2>1, <2>3 DEF Shaped
  <2>6. ASSUME x.at = "close", x.conn \in Going(q) PROVE FALSE
    <3>1. PICK k \in 1 .. Len(q) :
            /\ q[k].at = "close" /\ q[k].conn = x.conn
            /\ \A j \in 1 .. Len(q) : j < k => ~Looks(q[j], x.conn)
      BY <2>6 DEF Going
    <3>2. k + 1 \in 1 .. Len(s) /\ s[k + 1] = q[k] /\ 1 < k + 1
      BY <1>2
    <3>3. PICK j \in 1 .. Len(s) : 1 < j /\ j < k + 1 /\ Looks(s[j], x.conn)
      BY <1>2, <2>1, <2>6, <3>1, <3>2 DEF Shaped
    <3>4. j - 1 \in 1 .. Len(q) /\ s[j] = q[j - 1] /\ j - 1 < k
      BY <1>2, <3>3
    <3> QED BY <3>1, <3>3, <3>4
  <2>7. x.at = "close" => x.conn \in Conns
    BY <1>2, <2>1 DEF Shaped
  <2> QED BY <2>2, <2>4, <2>5, <2>6, <2>7 DEF Lies
<1> QED BY <1>1, <1>4, <1>5

\* The empty stack has this shape, and no connection on its way.
LEMMA NoShape == Shaped(<< >>) /\ Going(<< >>) = {}
BY DEF Shaped, Going

\* x on q, in one: for a function that takes no connection off the counter
LEMMA Put ==
  ASSUME NEW q \in Seq(Frame), NEW x \in Frame, Shaped(q), Lies(x, q),
         x.at \notin {"close", "on_conn_destroy"}
  PROVE  /\ << x >> \o q \in Seq(Frame) /\ Shaped(<< x >> \o q)
         /\ Going(<< x >> \o q) = Going(q)
BY Push, PushShape, PushGoing

\* The stack opened: the top, the rest, and what is on its way
LEMMA Split ==
  ASSUME Counts, stack # << >>
  PROVE  /\ Top \in Frame /\ Below \in Seq(Frame) /\ Shaped(Below) /\ Lies(Top, Below)
         /\ Top.at \notin {"close", "on_conn_destroy"} => Going(stack) = Going(Below)
         /\ Top.at = "close" /\ Top.conn \in Conns => Going(stack) = Going(Below) \cup {Top.conn}
         /\ Top.at = "on_conn_destroy" => Going(stack) = Going(Below) \ {Top.conn}
<1>1. stack \in Seq(Frame) /\ Shaped(stack)
  BY DEF Counts, Typing
<1>2. PICK q \in Seq(Frame), x \in Frame :
        stack = << x >> \o q /\ q = Tail(stack) /\ x = Head(stack)
  BY <1>1, Pop
<1>3. Shaped(q) /\ Lies(x, q)
  BY <1>1, <1>2, PopShape
<1>4. /\ x.at \notin {"close", "on_conn_destroy"} => Going(stack) = Going(q)
      /\ x.at = "close" /\ x.conn \in Conns => Going(stack) = Going(q) \cup {x.conn}
      /\ x.at = "on_conn_destroy" => Going(stack) = Going(q) \ {x.conn}
  <2>1. stack = << x >> \o q
    BY <1>2
  <2> QED BY ONLY <2>1, PushGoing, q \in Seq(Frame), x \in Frame
<1>5. q = Below /\ x = Top
  BY <1>2 DEF Below, Top
<1> QED BY <1>3, <1>4, <1>5

\* The functions below a call
LEMMA Waits ==
  ASSUME Counts, NEW call, Calling(call)
  PROVE  /\ Caller \in Seq(Frame) /\ Shaped(Caller) /\ Going(Caller) = Going(stack)
         /\ fault = FALSE
<1>1. fault = FALSE
  BY DEF Calling, Counts, Typing
<1>2. CASE stack = << >>
  BY <1>1, <1>2, NoShape, NoFrames DEF Caller
<1>3. CASE stack # << >>
  <2>1. Top.at \in Callbacks
    BY <1>3 DEF Calling
  <2>2. PICK x \in Frame : x = [ Top EXCEPT !.n = @ - 1 ] /\ x.at = Top.at /\ x.conn = Top.conn
    <3>1. Top \in Frame
      BY <1>3, Split
    <3> QED BY <3>1, OneCallLess DEF Alike
  <2>3. Below \in Seq(Frame) /\ Shaped(Below) /\ Lies(x, Below) /\ x.at # "close"
    BY <1>3, <2>1, <2>2, Split DEF Lies, Callbacks
  <2>4. << x >> \o Below \in Seq(Frame) /\ Shaped(<< x >> \o Below)
    BY <2>3, Push, PushShape
  <2>5. Going(<< x >> \o Below) = Going(stack)
    <3>1. CASE x.at = "on_conn_destroy"
      <4>1. Going(stack) = Going(Below) \ {x.conn}
        BY <1>3, <2>2, <3>1, Split
      <4> QED BY <2>3, <3>1, <4>1, PushGoing
    <3>2. CASE x.at # "on_conn_destroy"
      <4>1. Going(stack) = Going(Below)
        BY <1>3, <2>2, <2>3, <3>2, Split
      <4> QED BY <2>3, <3>2, <4>1, PushGoing
    <3> QED BY <3>1, <3>2
  <2>6. Caller = << x >> \o Below
    BY <1>3, <2>2 DEF Caller
  <2> QED BY <1>1, <2>4, <2>5, <2>6
<1> QED BY <1>2, <1>3

\* A step that leaves connections and counter alone and takes none on its way
LEMMA BalanceSame ==
  ASSUME Balance, UNCHANGED active_connections, Going(stack') = Going(stack),
         \A c \in Conns : conn'[c].state = "NONE" <=> conn[c].state = "NONE"
  PROVE  Balance'
<1>1. Live' = Live
  BY DEF Live
<1> QED BY <1>1 DEF Balance

\* A connection that exists begins to close.  Either on_conn_destroy is to
\* destroy it, or it is gone at once and the function takes it off the counter.
LEMMA Begins ==
  ASSUME Counts, BothSet, NEW c \in Live, NEW fs \in Seq(Frame), Shaped(fs),
         Going(fs) = Going(stack), BeginClose(c, fs)
  PROVE  Counts'
<1>1. c \in Conns /\ c \notin Going(fs)
  BY DEF Live, Counts, Balance
<1>2. PICK x \in Frame :
        /\ x = [ At("close", c, conn[c].sock) EXCEPT !.prev = conn[c].state ]
        /\ x.at = "close" /\ x.conn = c
  <2>1. conn[c].state \in ConnStates /\ conn[c].sock \in Fds \cup {-1}
    BY <1>1 DEF Counts, Typing
  <2>2. Fds \subseteq Int
    BY Sockets
  <2>3. conn[c].sock \in Int /\ conn[c].state \in ConnStates
    BY <2>1, <2>2
  <2> DEFINE z == [ At("close", c, conn[c].sock) EXCEPT !.prev = conn[c].state ]
  <2>4. z \in Frame /\ z.at = "close" /\ z.conn = c
    BY <1>1, <2>3 DEF At, Frame, Points
  <2> QED BY <2>4
<1>3. PICK q \in Seq(Frame) : q = << x >> \o fs
  BY Push
<1>4. Shaped(q) /\ Going(q) = Going(fs) \cup {c} /\ q # << >> /\ Head(q) = x
  <2>1. Lies(x, fs)
    BY <1>1, <1>2 DEF Lies
  <2>2. q # << >> /\ Head(q) = x
    BY <1>3, Push
  <2>3. Shaped(q)
    BY <1>3, <2>1, PushShape
  <2>4. Going(<< x >> \o fs) = Going(fs) \cup {x.conn}
    <3>1. x.at = "close" /\ x.conn \in Conns
      BY <1>1, <1>2
    <3> QED BY ONLY <3>1, PushGoing, x \in Frame, fs \in Seq(Frame)
  <2> QED BY <1>2, <1>3, <2>2, <2>3, <2>4
<1>5. PICK y \in Frame : /\ y = App("on_conn_destroy", c)
                         /\ y.at = "on_conn_destroy" /\ y.conn = c
  BY <1>1, AppFrame DEF Callbacks
<1>6. stack' = Asks("on_conn_destroy", c) \o << x >> \o fs /\ UNCHANGED << srv, fault, may >>
  BY <1>2 DEF BeginClose
<1>7. CASE IsSet("on_conn_destroy")
  <2>1. stack' = << y >> \o q
    <3>1. stack' = (<< y >> \o << x >>) \o fs
      BY <1>5, <1>6, <1>7 DEF Asks
    <3> QED BY <1>3, <3>1, PushJoined
  <2>2. stack' \in Seq(Frame) /\ Shaped(stack')
    BY <1>2, <1>4, <1>5, <2>1, Push, PushShape DEF Lies
  <2>3. Going(stack') = Going(stack)
    <3>1. Going(stack') = Going(q) \ {c}
      BY <1>5, <2>1, PushGoing
    <3> QED BY <1>1, <1>4, <3>1
  <2>4. conn' = [ conn EXCEPT ![c].state = "STOPPED" ]
    BY <1>7 DEF BeginClose, IsSet, Settings
  <2>5. Typing'
    BY <1>6, <2>2, <2>4 DEF Counts, Typing, srv, ConnStates
  <2>6. \A d \in Conns : conn'[d].state = "NONE" <=> conn[d].state = "NONE"
    BY <2>4 DEF Counts, Typing, Live
  <2>7. Balance'
    BY <1>6, <2>3, <2>6, BalanceSame DEF Counts, srv
  <2> QED BY <2>2, <2>5, <2>7 DEF Counts
<1>8. CASE ~IsSet("on_conn_destroy")
  <2>1. stack' = q
    <3>1. stack' = (<< >> \o << x >>) \o fs
      BY <1>6, <1>8 DEF Asks
    <3> QED BY <1>3, <3>1, PushJoined
  <2>2. conn' = [ conn EXCEPT ![c] = NoConn ]
    <3>1. \A s \in Settings : s \notin may
      BY <1>8 DEF BothSet, IsSet, Settings
    <3> QED BY <3>1 DEF BeginClose
  <2>3. Typing'
    BY <1>6, <2>1, <2>2 DEF Counts, Typing, srv, ConnStates, NoConn
  <2>4. Live' = Live \ {c}
    BY <2>2 DEF Live, NoConn, Counts, Typing
  <2>5. Going(stack') = Going(stack) \cup {c}
    BY <1>4, <2>1
  <2>6. Live' \cup Going(stack') = Live \cup Going(stack) /\ Live' \cap Going(stack') = {}
    BY <1>1, <2>4, <2>5 DEF Counts, Balance
  <2>7. Balance'
    BY <1>6, <2>6 DEF Counts, Balance, srv
  <2> QED BY <1>4, <2>1, <2>3, <2>7 DEF Counts
<1> QED BY <1>7, <1>8

\* A step of the server that changes neither connections nor their number
LEMMA CountsKept ==
  ASSUME Counts, UNCHANGED << active_connections, connections, conn, fault, may >>,
         state' \in States, told' \in Nat,
         accept_rw' \in BOOLEAN, sock' \in BOOLEAN, gone' \in BOOLEAN,
         stack' \in Seq(Frame), Shaped(stack'), Going(stack') = Going(stack)
  PROVE  Counts'
<1>1. Typing'
  BY DEF Counts, Typing
<1>2. Balance'
  BY BalanceSame DEF Counts
<1> QED BY <1>1, <1>2 DEF Counts

\* After freed memory has been used nothing is said, so nothing changes.
LEMMA FaultCounts == ASSUME Counts, Fault PROVE Counts'
<1>1. /\ UNCHANGED << state, active_connections, connections, accept_rw, sock, told, gone,
                      conn, stack, may >>
      /\ fault' = TRUE
  BY DEF Fault, srv
<1>2. Typing'
  BY <1>1 DEF Counts, Typing
<1>3. Balance'
  BY <1>1, BalanceSame DEF Counts
<1> QED BY <1>1, <1>2, <1>3 DEF Counts
-----------------------------------------------------------------------------
(* Steps: the calls of the application.                                    *)

\* evsrv_start, and what it calls back, runs on the functions that wait.
LEMMA StartCounts == ASSUME Counts, EvsrvStart PROVE Counts'
<1>1. /\ Calling("start")
      /\ UNCHANGED << active_connections, connections, conn, gone, fault, may >>
      /\ sock' = TRUE /\ accept_rw' = TRUE /\ state' = "ACCEPTING" /\ told' = 0
  BY DEF EvsrvStart
<1>2. PICK x \in Frame : x = App("on_started", None) /\ x.at = "on_started"
  BY AppFrame DEF Callbacks
<1>3. stack' = << x >> \o Caller
  BY <1>2 DEF EvsrvStart
<1>4. stack' \in Seq(Frame) /\ Shaped(stack') /\ Going(stack') = Going(stack)
  <2>1. Lies(x, Caller)
    BY <1>2 DEF Lies
  <2> QED BY <1>1, <1>2, <1>3, <2>1, Waits, Put
<1>5. gone' \in BOOLEAN /\ sock' \in BOOLEAN /\ accept_rw' \in BOOLEAN /\ told' \in Nat
      /\ state' \in States
  BY <1>1 DEF Counts, Typing, States
<1> QED BY <1>1, <1>4, <1>5, CountsKept

\* So does the loop of evsrv_stop,
LEMMA StopCounts == ASSUME Counts, EvsrvStop PROVE Counts'
<1>1. PICK call \in {"abort", "stop"} : Calling(call)
  BY DEF EvsrvStop
<1>2. /\ UNCHANGED << state, active_connections, connections, conn, told, gone, fault, may >>
      /\ sock' = FALSE /\ accept_rw' = FALSE
  BY DEF EvsrvStop, CloseListener
<1>3. PICK x \in Frame : x = At("stop", None, 0) /\ x.at = "stop"
  BY AtFrame DEF Points
<1>4. stack' = << x >> \o Caller
  BY <1>3 DEF EvsrvStop
<1>5. stack' \in Seq(Frame) /\ Shaped(stack') /\ Going(stack') = Going(stack)
  <2>1. Lies(x, Caller)
    BY <1>3 DEF Lies
  <2> QED BY <1>1, <1>3, <1>4, <2>1, Waits, Put
<1>6. gone' \in BOOLEAN /\ sock' \in BOOLEAN /\ accept_rw' \in BOOLEAN /\ told' \in Nat
      /\ state' \in States
  BY <1>2 DEF Counts, Typing
<1> QED BY <1>2, <1>5, <1>6, CountsKept

\* and that of evsrv_graceful_stop, or its report.
LEMMA GracefulStopCounts == ASSUME Counts, GracefulStop PROVE Counts'
<1>1. /\ Calling("graceful_stop")
      /\ UNCHANGED << active_connections, connections, conn, gone, fault, may >>
      /\ sock' = FALSE /\ accept_rw' = FALSE
  BY DEF GracefulStop, CloseListener
<1>2. PICK x \in Frame : x = App("on_graceful_stop", None) /\ x.at = "on_graceful_stop"
  BY AppFrame DEF Callbacks
<1>3. PICK y \in Frame : y = At("graceful_stop", None, 0) /\ y.at = "graceful_stop"
  BY AtFrame DEF Points
<1>4. \/ stack' = << x >> \o Caller /\ state' = "STOPPED" /\ told' = told + 1
      \/ stack' = << y >> \o Caller /\ state' = "GRACEFULLY_STOPPING" /\ told' = told
  BY <1>2, <1>3 DEF GracefulStop
<1>5. stack' \in Seq(Frame) /\ Shaped(stack') /\ Going(stack') = Going(stack)
  <2>1. Lies(x, Caller) /\ Lies(y, Caller)
    BY <1>2, <1>3 DEF Lies
  <2>2. Caller \in Seq(Frame) /\ Shaped(Caller) /\ Going(Caller) = Going(stack)
    BY <1>1, Waits
  <2> QED BY <1>2, <1>3, <1>4, <2>1, <2>2, Put
<1>6. gone' \in BOOLEAN /\ sock' \in BOOLEAN /\ accept_rw' \in BOOLEAN /\ told' \in Nat
      /\ state' \in States
  <2>1. told \in Nat /\ gone \in BOOLEAN
    BY DEF Counts, Typing
  <2>2. told' \in Nat /\ state' \in States
    BY <1>4, <2>1 DEF States
  <2> QED BY <1>1, <2>1, <2>2
<1> QED BY <1>1, <1>5, <1>6, CountsKept

\* evsrv_destroy waits for evsrv_stop, or frees the table at once.
LEMMA DestroyCounts == ASSUME Counts, EvsrvDestroy PROVE Counts'
<1>1. /\ Calling("destroy")
      /\ UNCHANGED << state, active_connections, connections, conn, told, fault, may >>
  BY DEF EvsrvDestroy
<1>2. PICK x \in Frame : x = At("stop", None, 0) /\ x.at = "stop"
  BY AtFrame DEF Points
<1>3. PICK y \in Frame : y = At("destroy", None, 0) /\ y.at = "destroy"
  BY AtFrame DEF Points
<1>4. Caller \in Seq(Frame) /\ Shaped(Caller) /\ Going(Caller) = Going(stack)
  BY <1>1, Waits
<1>5. \/ stack' = Caller /\ gone' = TRUE /\ UNCHANGED << accept_rw, sock >>
      \/ /\ stack' = << x, y >> \o Caller
         /\ accept_rw' = FALSE /\ sock' = FALSE /\ UNCHANGED gone
  BY <1>2, <1>3 DEF EvsrvDestroy, CloseListener
<1>6. stack' \in Seq(Frame) /\ Shaped(stack') /\ Going(stack') = Going(stack)
  <2>1. PICK q \in Seq(Frame) : q = << y >> \o Caller
    BY <1>3, <1>4, Push
  <2>2. Shaped(q) /\ Going(q) = Going(stack)
    <3>1. Lies(y, Caller)
      BY <1>3 DEF Lies
    <3> QED BY <1>3, <1>4, <2>1, <3>1, Put
  <2>3. stack' = Caller \/ stack' = << x >> \o q
    BY <1>4, <1>5, <2>1, PushTwo
  <2>4. Lies(x, q)
    BY <1>2 DEF Lies
  <2> QED BY <1>2, <1>4, <2>2, <2>3, <2>4, Put
<1>7. gone' \in BOOLEAN /\ sock' \in BOOLEAN /\ accept_rw' \in BOOLEAN /\ told' \in Nat
      /\ state' \in States
  BY <1>1, <1>5 DEF Counts, Typing
<1> QED BY <1>1, <1>6, <1>7, CountsKept

\* A connection may be closed by the application, also for the second time,
LEMMA ConnCloseCounts == ASSUME Counts, BothSet, NEW c \in Conns, ConnClose(c) PROVE Counts'
<1>1. c \in Live /\ BeginClose(c, Caller)
  BY DEF ConnClose
<1>2. Calling("close_own") \/ Calling("close_other")
  BY DEF ConnClose
<1>3. Caller \in Seq(Frame) /\ Shaped(Caller) /\ Going(Caller) = Going(stack)
  BY <1>2, Waits
<1> QED BY <1>1, <1>3, Begins

\* or because reading or writing has failed.
LEMMA FailsCounts == ASSUME Counts, BothSet, NEW c \in Conns, Fails(c) PROVE Counts'
<1>1. c \in Live /\ BeginClose(c, << >>) /\ stack = << >>
  BY DEF Fails, Idle, Live
<1> QED BY <1>1, Begins, NoShape, NoFrames
-----------------------------------------------------------------------------
(* Steps: the end of a close.                                              *)

\* The connection is destroyed; the function below will take it off.
LEMMA ConnDestroyCounts == ASSUME Counts, ConnDestroy PROVE Counts'
<1>1. stack # << >> /\ Top.at = "on_conn_destroy"
  BY DEF ConnDestroy, Runs
<1>2. CASE Fault
  BY <1>2, FaultCounts
<1>3. CASE ~Fault
  <2>1. PICK c \in Live : c = Top.conn
    BY <1>3 DEF ConnDestroy
  <2>2. /\ conn' = [ conn EXCEPT ![c] = NoConn ]
        /\ stack' = << App("destroyed", c) >> \o Below
        /\ UNCHANGED << srv, fault, may >>
    BY <1>3, <2>1 DEF ConnDestroy
  <2>3. /\ Below \in Seq(Frame) /\ Shaped(Below) /\ Going(stack) = Going(Below) \ {c}
        /\ Below # << >> /\ Head(Below).at = "close" /\ Head(Below).conn = c
    BY <1>1, <2>1, Split DEF Lies
  <2>4. c \in Conns /\ c \in Going(Below)
    <3>1. 1 \in 1 .. Len(Below) /\ Below[1] = Head(Below)
          /\ \A j \in 1 .. Len(Below) : ~(j < 1)
      BY <2>3
    <3>2. c \in Conns
      BY DEF Live
    <3> QED BY <2>3, <3>1, <3>2 DEF Going
  <2>5. PICK x \in Frame : x = App("destroyed", c) /\ x.at = "destroyed"
    BY <2>4, AppFrame DEF Callbacks
  <2>6. stack' \in Seq(Frame) /\ Shaped(stack') /\ Going(stack') = Going(Below)
    <3>1. Lies(x, Below)
      BY <2>5 DEF Lies
    <3> QED BY <2>2, <2>3, <2>5, <3>1, Put
  <2>7. Typing'
    BY <2>2, <2>6 DEF Counts, Typing, srv, NoConn, ConnStates
  <2>8. Live' = Live \ {c}
    BY <2>2 DEF Live, NoConn, Counts, Typing
  <2>9. Live' \cup Going(stack') = Live \cup Going(stack) /\ Live' \cap Going(stack') = {}
    BY <2>3, <2>4, <2>6, <2>8 DEF Counts, Balance
  <2>10. Balance'
    BY <2>2, <2>9 DEF Counts, Balance, srv
  <2> QED BY <2>6, <2>7, <2>10 DEF Counts
<1> QED BY <1>2, <1>3

\* evsrv_conn_close takes the connection off the counter: nobody else has.
LEMMA EndCloseCounts == ASSUME Counts, EndClose PROVE Counts'
<1>1. stack # << >> /\ Top.at = "close"
  BY DEF EndClose, Runs
<1>2. CASE Fault
  BY <1>2, FaultCounts
<1>3. CASE ~Fault
  <2>1. PICK c \in Conns : c = Top.conn /\ c \notin Going(Below)
    BY <1>1, Split DEF Lies
  <2>2. Below \in Seq(Frame) /\ Shaped(Below) /\ Going(stack) = Going(Below) \cup {c}
    BY <1>1, <2>1, Split
  <2>3. /\ connections' = [ connections EXCEPT ![Top.n] = None ]
        /\ active_connections' = active_connections - 1
        /\ UNCHANGED << accept_rw, sock, conn, gone, fault, may >>
        /\ \/ /\ stack' = << App("on_graceful_stop", None) >> \o Below
              /\ state' = "STOPPED" /\ told' = told + 1
           \/ stack' = Below /\ UNCHANGED << state, told >>
    BY <1>3 DEF EndClose, Cleared, Remaining, Report
  <2>4. PICK x \in Frame : x = App("on_graceful_stop", None) /\ x.at = "on_graceful_stop"
    BY AppFrame DEF Callbacks
  <2>5. stack' \in Seq(Frame) /\ Shaped(stack') /\ Going(stack') = Going(Below)
    <3>1. Lies(x, Below)
      BY <2>4 DEF Lies
    <3> QED BY <2>2, <2>3, <2>4, <3>1, Put
  <2>6. Typing'
    <3>1. /\ active_connections \in Int /\ told \in Nat /\ state \in States
          /\ connections \in [ Fds -> Conns \cup {None} ]
      BY DEF Counts, Typing
    <3>2. active_connections' \in Int /\ connections' \in [ Fds -> Conns \cup {None} ]
      <4>1. active_connections' \in Int
        BY <2>3, <3>1
      <4>2. connections' = [ connections EXCEPT ![Top.n] = None ]
        BY <2>3
      <4> QED BY <3>1, <4>1, <4>2
    <3>3. told' \in Nat /\ state' \in States
      BY <2>3, <3>1 DEF States
    <3> QED BY <2>3, <2>5, <3>2, <3>3 DEF Counts, Typing
  <2>7. Live' = Live /\ c \notin Live
    BY <2>2, <2>3 DEF Live, Counts, Balance
  <2>8. Balance'
    <3> DEFINE S == Live \cup Going(stack)
    <3>1. Live' \cup Going(stack') = S \ {c} /\ Live' \cap Going(stack') = {} /\ c \in S
      BY <2>1, <2>2, <2>5, <2>7 DEF Counts, Balance
    <3>2. IsFiniteSet(S)
      <4>1. S \subseteq Conns
        BY DEF Live, Going
      <4> HIDE DEF S
      <4> QED BY <4>1, ReentryAssumption, FS_Subset
    <3>3. active_connections = Cardinality(S)
      BY DEF Counts, Balance
    <3> HIDE DEF S
    <3>4. Cardinality(S \ {c}) = Cardinality(S) - 1
      BY <3>1, <3>2, FS_RemoveElement
    <3> QED BY <2>3, <3>1, <3>3, <3>4 DEF Balance
  <2> QED BY <2>5, <2>6, <2>8 DEF Counts
<1> QED BY <1>2, <1>3
-----------------------------------------------------------------------------
(* Steps: the loops over the table, and what waits for them.               *)

\* The entry a loop has come to
LEMMA NextEntry ==
  ASSUME Counts, Entries(Top.n) # {}
  PROVE  Min(Entries(Top.n)) \in Fds /\ Min(Entries(Top.n)) \in Nat
<1> DEFINE S == Entries(Top.n)
<1>1. S \subseteq Fds /\ S \subseteq Nat /\ S # {}
  BY Sockets DEF Entries, OpenFds
<1> HIDE DEF S
<1>2. Min(S) \in S
  BY <1>1, MinIs
<1> QED BY <1>1, <1>2 DEF S

\* evsrv_stop closes a connection, or ends.
LEMMA StopLoopCounts == ASSUME Counts, BothSet, StopLoop PROVE Counts'
<1>1. stack # << >> /\ Top.at = "stop"
  BY DEF StopLoop, Runs
<1>2. Below \in Seq(Frame) /\ Shaped(Below) /\ Going(stack) = Going(Below)
  BY <1>1, Split
<1>3. CASE Fault
  BY <1>3, FaultCounts
<1>4. CASE ~Fault /\ Entries(Top.n) # {}
  <2>1. PICK f \in Nat : f = Min(Entries(Top.n))
    BY <1>4, NextEntry
  <2>2. PICK x \in Frame : x = At("stop", None, Following(f)) /\ x.at = "stop"
    <3>1. Following(f) \in Int
      BY DEF Following
    <3> QED BY <3>1, AtFrame DEF Points
  <2>3. PICK fs \in Seq(Frame) : fs = << x >> \o Below
    BY <1>2, Push
  <2>4. connections[f] \in Live /\ BeginClose(connections[f], fs)
    BY <1>4, <2>1, <2>2, <2>3 DEF StopLoop
  <2>5. Shaped(fs) /\ Going(fs) = Going(stack)
    <3>1. Lies(x, Below)
      BY <2>2 DEF Lies
    <3> QED BY <1>2, <2>2, <2>3, <3>1, Put
  <2> QED BY <2>4, <2>5, Begins
<1>5. CASE ~Fault /\ Entries(Top.n) = {}
  <2>1. /\ state' = "STOPPED" /\ stack' = Below
        /\ UNCHANGED << active_connections, connections, accept_rw, sock, conn, told, gone, fault, may >>
    BY <1>5 DEF StopLoop
  <2>2. gone' \in BOOLEAN /\ sock' \in BOOLEAN /\ accept_rw' \in BOOLEAN /\ told' \in Nat
        /\ state' \in States
    BY <2>1 DEF Counts, Typing, States
  <2> QED BY <1>2, <2>1, <2>2, CountsKept
<1> QED BY <1>3, <1>4, <1>5

\* evsrv_graceful_stop closes a connection, calls on_graceful_close, or ends.
LEMMA GracefulLoopCounts == ASSUME Counts, BothSet, GracefulLoop PROVE Counts'
<1>1. stack # << >> /\ Top.at = "graceful_stop"
  BY DEF GracefulLoop, Runs
<1>2. Below \in Seq(Frame) /\ Shaped(Below) /\ Going(stack) = Going(Below)
  BY <1>1, Split
<1>3. CASE Fault
  BY <1>3, FaultCounts
<1>4. CASE ~Fault /\ Entries(Top.n) # {}
  <2>1. PICK f \in Nat : f = Min(Entries(Top.n))
    BY <1>4, NextEntry
  <2>2. PICK c \in Live : c = connections[f]
    BY <1>4, <2>1 DEF GracefulLoop
  <2>3. c \in Conns /\ Following(f) \in Int
    BY DEF Live, Following
  <2>4. CASE c \notin Graceful
    <3>1. PICK x \in Frame : x = At("count", c, Following(f)) /\ x.at = "count"
      BY <2>3, AtFrame DEF Points
    <3>2. PICK fs \in Seq(Frame) : fs = << x >> \o Below
      BY <1>2, Push
    <3>3. BeginClose(c, fs)
      BY <1>4, <2>1, <2>2, <2>4, <3>1, <3>2 DEF GracefulLoop
    <3>4. Shaped(fs) /\ Going(fs) = Going(stack)
      <4>1. Lies(x, Below)
        BY <3>1 DEF Lies
      <4> QED BY <1>2, <3>1, <3>2, <4>1, Put
    <3> QED BY <3>3, <3>4, Begins
  <2>5. CASE c \in Graceful
    <3>1. PICK x \in Frame : x = At("graceful_stop", c, Following(f)) /\ x.at = "graceful_stop"
      BY <2>3, AtFrame DEF Points
    <3>2. PICK y \in Frame : y = App("on_graceful_close", c) /\ y.at = "on_graceful_close"
      BY <2>3, AppFrame DEF Callbacks
    <3>3. stack' = << y, x >> \o Below /\ UNCHANGED << srv, conn, fault, may >>
      BY <1>4, <2>1, <2>2, <2>5, <3>1, <3>2 DEF GracefulLoop
    <3>4. PICK q \in Seq(Frame) : q = << x >> \o Below /\ q # << >> /\ Head(q) = x
      BY <1>2, Push
    <3>5. Shaped(q) /\ Going(q) = Going(stack)
      <4>1. Lies(x, Below)
        BY <3>1 DEF Lies
      <4> QED BY <1>2, <3>1, <3>4, <4>1, Put
    <3>6. stack' \in Seq(Frame) /\ Shaped(stack') /\ Going(stack') = Going(stack)
      <4>1. Lies(y, q)
        BY <3>1, <3>2, <3>4 DEF Lies
      <4>2. stack' = << y >> \o q
        BY <1>2, <3>3, <3>4, PushTwo
      <4> QED BY <3>2, <3>5, <4>1, <4>2, Put
    <3>7. gone' \in BOOLEAN /\ sock' \in BOOLEAN /\ accept_rw' \in BOOLEAN /\ told' \in Nat
          /\ state' \in States
      BY <3>3 DEF Counts, Typing, srv
    <3> QED BY <3>3, <3>6, <3>7, CountsKept DEF srv
  <2> QED BY <2>4, <2>5
<1>5. CASE ~Fault /\ Entries(Top.n) = {}
  <2>1. stack' = Below /\ UNCHANGED << srv, conn, fault, may >>
    BY <1>5 DEF GracefulLoop
  <2>2. gone' \in BOOLEAN /\ sock' \in BOOLEAN /\ accept_rw' \in BOOLEAN /\ told' \in Nat
        /\ state' \in States
    BY <2>1 DEF Counts, Typing, srv
  <2> QED BY <1>2, <2>1, <2>2, CountsKept DEF srv
<1> QED BY <1>3, <1>4, <1>5

\* on_graceful_close returns to the loop that has called it.
LEMMA CloseReturnsCounts == ASSUME Counts, GracefulCloseReturns PROVE Counts'
<1>1. stack # << >> /\ Top.at = "on_graceful_close"
  BY DEF GracefulCloseReturns, Runs
<1>2. /\ Below \in Seq(Frame) /\ Shaped(Below) /\ Going(stack) = Going(Below)
      /\ Below # << >> /\ Head(Below).at = "graceful_stop"
  BY <1>1, Split DEF Lies
<1>3. PICK q \in Seq(Frame), x \in Frame :
        Below = << x >> \o q /\ q = Tail(Below) /\ x = Head(Below)
  BY <1>2, Pop
<1>4. Shaped(q) /\ Going(q) = Going(stack)
  <2>1. Shaped(q)
    BY <1>2, <1>3, PopShape
  <2>2. x.at \notin {"close", "on_conn_destroy"} /\ Below = << x >> \o q
    BY <1>2, <1>3
  <2>3. Going(Below) = Going(q)
    BY ONLY <2>2, PushGoing, q \in Seq(Frame), x \in Frame
  <2> QED BY <1>2, <2>1, <2>3
<1>5. PICK p \in {"count", "graceful_stop"} :
        /\ stack' = << [ x EXCEPT !.at = p ] >> \o q
        /\ \/ UNCHANGED conn
           \/ Top.conn \in Live /\ conn' = [ conn EXCEPT ![Top.conn].state = "PENDING_CLOSE" ]
  BY <1>3 DEF GracefulCloseReturns
<1>6. PICK y \in Frame : y = [ x EXCEPT !.at = p ] /\ y.at = p
  <2>1. p \in Points
    BY DEF Points
  <2> QED BY <2>1, Renamed
<1>7. stack' \in Seq(Frame) /\ Shaped(stack') /\ Going(stack') = Going(stack)
  <2>1. Lies(y, q)
    BY <1>6 DEF Lies
  <2>2. stack' = << y >> \o q
    BY <1>5, <1>6
  <2> QED BY <1>4, <1>6, <2>1, <2>2, Put
<1>8. UNCHANGED << srv, fault, may >>
  BY DEF GracefulCloseReturns
<1>9. /\ conn' \in [ Conns -> [ state : ConnStates, sock : Fds \cup {-1} ] ]
      /\ \A d \in Conns : conn'[d].state = "NONE" <=> conn[d].state = "NONE"
  <2>1. conn \in [ Conns -> [ state : ConnStates, sock : Fds \cup {-1} ] ]
    BY DEF Counts, Typing
  <2>2. CASE UNCHANGED conn
    BY <2>1, <2>2
  <2>3. CASE Top.conn \in Live /\ conn' = [ conn EXCEPT ![Top.conn].state = "PENDING_CLOSE" ]
    BY <2>1, <2>3 DEF Live, ConnStates
  <2> QED BY <1>5, <2>2, <2>3
<1>10. Typing'
  BY <1>7, <1>8, <1>9 DEF Counts, Typing, srv
<1>11. Balance'
  BY <1>7, <1>8, <1>9, BalanceSame DEF Counts, srv
<1> QED BY <1>7, <1>10, <1>11 DEF Counts

\* The loop of a graceful stop reports the end, or goes on.
LEMMA CountCounts == ASSUME Counts, GracefulCount PROVE Counts'
<1>1. stack # << >> /\ Top.at = "count"
  BY DEF GracefulCount, Runs
<1>2. Top \in Frame /\ Below \in Seq(Frame) /\ Shaped(Below) /\ Going(stack) = Going(Below)
  BY <1>1, Split
<1>3. PICK x \in Frame : x = App("on_graceful_stop", None) /\ x.at = "on_graceful_stop"
  BY AppFrame DEF Callbacks
<1>4. PICK y \in Frame : y = [ Top EXCEPT !.at = "graceful_stop" ] /\ y.at = "graceful_stop"
  <2>1. "graceful_stop" \in Points
    BY DEF Points
  <2> QED BY <1>2, <2>1, Renamed
<1>5. /\ UNCHANGED << active_connections, connections, accept_rw, sock, conn, gone, fault, may >>
      /\ \/ stack' = << x >> \o Below /\ state' = "STOPPED" /\ told' = told + 1
         \/ stack' = << y >> \o Below /\ UNCHANGED << state, told >>
  BY <1>3, <1>4 DEF GracefulCount, Report
<1>6. stack' \in Seq(Frame) /\ Shaped(stack') /\ Going(stack') = Going(stack)
  <2>1. Lies(x, Below) /\ Lies(y, Below)
    BY <1>3, <1>4 DEF Lies
  <2> QED BY <1>2, <1>3, <1>4, <1>5, <2>1, Put
<1>7. gone' \in BOOLEAN /\ sock' \in BOOLEAN /\ accept_rw' \in BOOLEAN /\ told' \in Nat
      /\ state' \in States
  <2>1. told \in Nat /\ state \in States
    BY DEF Counts, Typing
  <2>2. told' \in Nat /\ state' \in States
    BY <1>5, <2>1 DEF States
  <2> QED BY <1>5, <2>2 DEF Counts, Typing
<1> QED BY <1>5, <1>6, <1>7, CountsKept

\* A function or callback that returns leaves what is below it.
LEMMA ReturnCounts ==
  ASSUME Counts, DestroyEnds \/ AcceptEnds \/ ReadEnds \/ CallbackReturns
  PROVE  Counts'
<1>1. CASE Fault
  BY <1>1, FaultCounts
<1>2. CASE ~Fault
  <2>1. /\ stack # << >> /\ Top.at \notin {"close", "on_conn_destroy"} /\ stack' = Below
        /\ UNCHANGED << state, active_connections, connections, accept_rw, sock, conn, told, fault, may >>
        /\ gone' = TRUE \/ gone' = gone
    BY <1>2 DEF DestroyEnds, AcceptEnds, ReadEnds, CallbackReturns, Runs, srv, Callbacks
  <2>2. Below \in Seq(Frame) /\ Shaped(Below) /\ Going(stack) = Going(Below)
    BY <2>1, Split
  <2>3. gone' \in BOOLEAN /\ sock' \in BOOLEAN /\ accept_rw' \in BOOLEAN /\ told' \in Nat
        /\ state' \in States
    BY <2>1 DEF Counts, Typing
  <2> QED BY <2>1, <2>2, <2>3, CountsKept
<1> QED BY <1>1, <1>2
-----------------------------------------------------------------------------
(* Steps: the callbacks of the loop.                                       *)

\* The accept callback begins,
LEMMA AcceptCbCounts == ASSUME Counts, AcceptCb PROVE Counts'
<1>1. stack = << >> /\ UNCHANGED << srv, conn, fault, may >>
  BY DEF AcceptCb, Idle
<1>2. PICK x \in Frame : x = At("accept_cb", None, 0) /\ x.at = "accept_cb"
  BY AtFrame DEF Points
<1>3. stack' = << x >> \o << >>
  BY <1>2, PushJoined, NoFrames DEF AcceptCb
<1>4. stack' \in Seq(Frame) /\ Shaped(stack') /\ Going(stack') = Going(stack)
  <2>1. Lies(x, << >>)
    BY <1>2 DEF Lies
  <2> QED BY <1>1, <1>2, <1>3, <2>1, Put, NoShape, NoFrames
<1>5. gone' \in BOOLEAN /\ sock' \in BOOLEAN /\ accept_rw' \in BOOLEAN /\ told' \in Nat
      /\ state' \in States
  BY <1>1 DEF Counts, Typing, srv
<1> QED BY <1>1, <1>4, <1>5, CountsKept DEF srv

\* or the read callback.
LEMMA ReadCbCounts == ASSUME Counts, NEW c \in Conns, ReadCb(c) PROVE Counts'
<1>1. stack = << >> /\ UNCHANGED << srv, conn, fault, may >>
  BY DEF ReadCb, Idle
<1>2. PICK x \in Frame : x = At("read_cb", c, 0) /\ x.at = "read_cb"
  BY AtFrame DEF Points
<1>3. PICK y \in Frame : y = App("on_read", c) /\ y.at = "on_read"
  BY AppFrame DEF Callbacks
<1>4. PICK q \in Seq(Frame) : q = << x >> \o << >>
  BY NoFrames, Push
<1>5. stack' = << y >> \o q
  BY <1>2, <1>3, <1>4, PushJoined, NoFrames DEF ReadCb
<1>6. stack' \in Seq(Frame) /\ Shaped(stack') /\ Going(stack') = Going(stack)
  <2>1. Lies(x, << >>) /\ Lies(y, q)
    BY <1>2, <1>3 DEF Lies
  <2>2. Shaped(q) /\ Going(q) = Going(stack)
    BY <1>1, <1>2, <1>4, <2>1, Put, NoShape, NoFrames
  <2> QED BY <1>3, <1>5, <2>1, <2>2, Put
<1>7. gone' \in BOOLEAN /\ sock' \in BOOLEAN /\ accept_rw' \in BOOLEAN /\ told' \in Nat
      /\ state' \in States
  BY <1>1 DEF Counts, Typing, srv
<1> QED BY <1>1, <1>6, <1>7, CountsKept DEF srv

\* A connection is accepted by the outermost function, so that none of this
\* name is on its way, and the counter counts one more.
LEMMA AcceptOneCounts ==
  ASSUME Counts, NEW c \in Conns, NEW f \in Fds, AcceptOne(c, f)
  PROVE  Counts'
<1>1. /\ stack # << >> /\ Top.at = "accept_cb" /\ conn[c] = NoConn
      /\ active_connections' = active_connections + 1
      /\ conn' = [ conn EXCEPT ![c] = [ state |-> "CREATED", sock |-> f ] ]
      /\ stack' = Asks("on_conn_create", c) \o << At("enter", c, f) >> \o Below
      /\ UNCHANGED << state, connections, accept_rw, sock, told, gone, fault, may >>
  BY DEF AcceptOne, Runs
<1>2. Below = << >> /\ Going(stack) = {}
  <2>1. Below = << >> /\ Going(stack) = Going(Below)
    BY <1>1, Split DEF Lies
  <2> QED BY <2>1, NoShape
<1>3. PICK x \in Frame : x = At("enter", c, f) /\ x.at = "enter"
  BY Sockets, AtFrame DEF Points
<1>4. PICK y \in Frame : y = App("on_conn_create", c) /\ y.at = "on_conn_create"
  BY AppFrame DEF Callbacks
<1>5. PICK q \in Seq(Frame) : q = << x >> \o << >>
  BY NoFrames, Push
<1>6. Shaped(q) /\ Going(q) = {}
  <2>1. Lies(x, << >>)
    BY <1>3 DEF Lies
  <2> QED BY <1>3, <1>5, <2>1, Put, NoShape, NoFrames
<1>7. stack' = q \/ stack' = << y >> \o q
  <2>1. CASE IsSet("on_conn_create")
    <3>1. stack' = (<< y >> \o << x >>) \o << >>
      BY <1>1, <1>2, <1>3, <1>4, <2>1 DEF Asks
    <3> QED BY <1>5, <3>1, PushJoined, NoFrames
  <2>2. CASE ~IsSet("on_conn_create")
    <3>1. stack' = (<< >> \o << x >>) \o << >>
      BY <1>1, <1>2, <1>3, <2>2 DEF Asks
    <3> QED BY <1>5, <3>1, PushJoined, NoFrames
  <2> QED BY <2>1, <2>2
<1>8. stack' \in Seq(Frame) /\ Shaped(stack') /\ Going(stack') = {}
  <2>1. Lies(y, q)
    BY <1>4 DEF Lies
  <2> QED BY <1>4, <1>6, <1>7, <2>1, Put
<1>9. Typing'
  <2>1. /\ active_connections \in Int
        /\ conn \in [ Conns -> [ state : ConnStates, sock : Fds \cup {-1} ] ]
    BY DEF Counts, Typing
  <2>2. conn' \in [ Conns -> [ state : ConnStates, sock : Fds \cup {-1} ] ]
    BY <1>1, <2>1 DEF ConnStates
  <2>3. active_connections' \in Int
    BY <1>1, <2>1
  <2> QED BY <1>1, <1>8, <2>2, <2>3 DEF Counts, Typing
<1>10. Live' = Live \cup {c} /\ c \notin Live
  BY <1>1 DEF Live, NoConn, Counts, Typing
<1>11. Balance'
  <2>1. IsFiniteSet(Live)
    <3>1. Live \subseteq Conns
      BY DEF Live
    <3> QED BY <3>1, ReentryAssumption, FS_Subset
  <2>2. Live \cup Going(stack) = Live /\ Live' \cup Going(stack') = Live \cup {c}
    BY <1>2, <1>8, <1>10
  <2>3. active_connections = Cardinality(Live)
    BY <2>2 DEF Counts, Balance
  <2>4. Cardinality(Live \cup {c}) = Cardinality(Live) + 1
    BY <1>10, <2>1, FS_AddElement
  <2> QED BY <1>1, <1>8, <2>2, <2>3, <2>4 DEF Balance
<1> QED BY <1>8, <1>9, <1>11 DEF Counts

\* It enters the table, or memory that has been freed is used.
LEMMA AcceptEnterCounts == ASSUME Counts, AcceptEnter PROVE Counts'
<1>1. stack # << >> /\ Top.at = "enter"
  BY DEF AcceptEnter, Runs
<1>2. CASE Fault
  BY <1>2, FaultCounts
<1>3. CASE ~Fault
  <2>1. PICK c \in Live : c = Top.conn
    BY <1>3 DEF AcceptEnter
  <2>2. /\ connections' = [ connections EXCEPT ![Top.n] = c ]
        /\ conn' = [ conn EXCEPT ![c].state = "ACTIVE" ]
        /\ stack' = << App("on_conn_ready", c), At("accept_cb", None, 0) >> \o Below
        /\ UNCHANGED << state, active_connections, accept_rw, sock, told, gone, fault, may >>
    BY <1>3, <2>1 DEF AcceptEnter
  <2>3. c \in Conns /\ Below = << >> /\ Going(stack) = {}
    <3>1. Below = << >> /\ Going(stack) = Going(Below)
      BY <1>1, Split DEF Lies
    <3> QED BY <3>1, NoShape DEF Live
  <2>4. PICK x \in Frame : x = At("accept_cb", None, 0) /\ x.at = "accept_cb"
    BY AtFrame DEF Points
  <2>5. PICK y \in Frame : y = App("on_conn_ready", c) /\ y.at = "on_conn_ready"
    BY <2>3, AppFrame DEF Callbacks
  <2>6. PICK q \in Seq(Frame) : q = << x >> \o << >>
    BY NoFrames, Push
  <2>7. stack' = << y >> \o q
    <3>1. stack' = << y, x >> \o << >>
      BY <2>2, <2>3, <2>4, <2>5
    <3> QED BY <2>6, <3>1, PushTwo, NoFrames
  <2>8. stack' \in Seq(Frame) /\ Shaped(stack') /\ Going(stack') = Going(stack)
    <3>1. Lies(x, << >>) /\ Lies(y, q)
      BY <2>4, <2>5 DEF Lies
    <3>2. Shaped(q) /\ Going(q) = Going(stack)
      BY <2>3, <2>4, <2>6, <3>1, Put, NoShape, NoFrames
    <3> QED BY <2>5, <2>7, <3>1, <3>2, Put
  <2>9. /\ conn' \in [ Conns -> [ state : ConnStates, sock : Fds \cup {-1} ] ]
        /\ \A d \in Conns : conn'[d].state = "NONE" <=> conn[d].state = "NONE"
    <3>1. conn \in [ Conns -> [ state : ConnStates, sock : Fds \cup {-1} ] ]
      BY DEF Counts, Typing
    <3>2. conn[c].state # "NONE"
      BY DEF Live
    <3> QED BY <2>2, <2>3, <3>1, <3>2 DEF ConnStates
  <2>10. connections' \in [ Fds -> Conns \cup {None} ]
    BY <2>2, <2>3 DEF Counts, Typing
  <2>11. Typing'
    BY <2>2, <2>8, <2>9, <2>10 DEF Counts, Typing
  <2>12. Balance'
    BY <2>2, <2>8, <2>9, BalanceSame DEF Counts
  <2> QED BY <2>8, <2>11, <2>12 DEF Counts
<1> QED BY <1>2, <1>3
-----------------------------------------------------------------------------
(* The invariant, and the type of the variables.                           *)

\* A new server counts nothing,
LEMMA InitCounts == Init => Counts
<1> SUFFICES ASSUME Init PROVE Counts
  OBVIOUS
<1>1. /\ stack = << >> /\ active_connections = 0 /\ state = "IDLE" /\ told = 0
      /\ accept_rw = FALSE /\ sock = FALSE /\ gone = FALSE /\ fault = FALSE
  BY DEF Init
<1>2. Typing
  <2>1. conn \in [ Conns -> [ state : ConnStates, sock : Fds \cup {-1} ] ]
    BY DEF Init, NoConn, ConnStates
  <2>2. connections \in [ Fds -> Conns \cup {None} ] /\ may \in Profiles
    BY DEF Init
  <2>3. stack \in Seq(Frame) /\ told \in Nat /\ active_connections \in Int /\ state \in States
    BY <1>1, NoFrames DEF States
  <2> QED BY <1>1, <2>1, <2>2, <2>3 DEF Typing
<1>3. Live = {} /\ Going(stack) = {} /\ Shaped(stack)
  <2>1. Live = {}
    BY DEF Init, Live, NoConn
  <2> QED BY <1>1, <2>1, NoShape
<1>4. Balance
  BY <1>1, <1>3, FS_EmptySet DEF Balance
<1> QED BY <1>2, <1>3, <1>4 DEF Counts

\* and every step, of a careful application or not, counts right.
LEMMA NextCounts == ASSUME Counts, BothSet, [Next]_vars PROVE Counts'
<1>1. CASE EvsrvStart
  BY <1>1, StartCounts
<1>2. CASE EvsrvStop
  BY <1>2, StopCounts
<1>3. CASE GracefulStop
  BY <1>3, GracefulStopCounts
<1>4. CASE EvsrvDestroy
  BY <1>4, DestroyCounts
<1>5. ASSUME NEW c \in Conns, ConnClose(c) PROVE Counts'
  BY <1>5, ConnCloseCounts
<1>6. CASE ConnDestroy
  BY <1>6, ConnDestroyCounts
<1>7. CASE EndClose
  BY <1>7, EndCloseCounts
<1>8. CASE StopLoop
  BY <1>8, StopLoopCounts
<1>9. CASE GracefulLoop
  BY <1>9, GracefulLoopCounts
<1>10. CASE GracefulCloseReturns
  BY <1>10, CloseReturnsCounts
<1>11. CASE GracefulCount
  BY <1>11, CountCounts
<1>12. CASE DestroyEnds \/ AcceptEnds \/ ReadEnds \/ CallbackReturns
  BY <1>12, ReturnCounts
<1>13. CASE AcceptEnter
  BY <1>13, AcceptEnterCounts
<1>14. CASE AcceptCb
  BY <1>14, AcceptCbCounts
<1>15. ASSUME NEW c \in Conns, ReadCb(c) PROVE Counts'
  BY <1>15, ReadCbCounts
<1>16. ASSUME NEW c \in Conns, Fails(c) PROVE Counts'
  BY <1>16, FailsCounts
<1>17. ASSUME NEW c \in Conns, NEW f \in Fds, AcceptOne(c, f) PROVE Counts'
  BY <1>17, AcceptOneCounts
<1>18. CASE UNCHANGED vars
  <2>1. UNCHANGED << state, active_connections, connections, accept_rw, sock, told, gone, conn,
                     stack, fault, may >>
    BY <1>18 DEF vars, srv
  <2>2. gone' \in BOOLEAN /\ sock' \in BOOLEAN /\ accept_rw' \in BOOLEAN /\ told' \in Nat
        /\ state' \in States /\ stack' \in Seq(Frame) /\ Shaped(stack')
    BY <2>1 DEF Counts, Typing
  <2> QED BY <2>1, <2>2, CountsKept
<1> QED BY <1>1, <1>2, <1>3, <1>4, <1>5, <1>6, <1>7, <1>8, <1>9, <1>10, <1>11, <1>12, <1>13,
           <1>14, <1>15, <1>16, <1>17, <1>18 DEF Next, Api, Forward

\* Whatever the application calls from its callbacks, every connection is taken
\* off the counter exactly once, unless freed memory is used first
\* (src/evsrv_conn.c:107-136, src/evsrv.c:184-200).
THEOREM CountsCorrect == Spec => []CountsInv
<1>1. Init => CountsInv
  BY InitCounts DEF CountsInv
<1>2. CountsInv /\ [Next]_vars => CountsInv'
  <2> SUFFICES ASSUME CountsInv, [Next]_vars, BothSet' PROVE Counts'
    BY DEF CountsInv
  <2>1. BothSet
    BY SameApplication DEF BothSet, IsSet
  <2> QED BY <2>1, NextCounts DEF CountsInv
<1> QED BY <1>1, <1>2, PTL DEF Spec

\* Every variable has its type, and active_connections is never negative nor
\* more than the objects there are, for careful and other applications alike.
\* The one condition is needed: connections that the application creates and
\* never destroys can be closed again and again (src/evsrv_conn.c:107-128).
THEOREM TypeCorrect == Spec => [](BothSet => TypeOK)
<1>1. CountsInv => (BothSet => TypeOK)
  <2> SUFFICES ASSUME Counts PROVE TypeOK
    BY DEF CountsInv
  <2>1. active_connections \in 0 .. Cardinality(Conns)
    <3> DEFINE S == Live \cup Going(stack)
    <3>1. S \subseteq Conns
      BY DEF Live, Going
    <3>2. active_connections = Cardinality(S)
      BY DEF Counts, Balance
    <3> HIDE DEF S
    <3>3. IsFiniteSet(Conns)
      BY ReentryAssumption
    <3>4. IsFiniteSet(S) /\ Cardinality(S) <= Cardinality(Conns)
      BY <3>1, <3>3, FS_Subset
    <3>5. Cardinality(S) \in Nat /\ Cardinality(Conns) \in Nat
      BY <3>3, <3>4, FS_CardinalityType
    <3> QED BY <3>2, <3>4, <3>5
  <2> QED BY <2>1 DEF Counts, Typing, TypeOK
<1> QED BY <1>1, CountsCorrect, PTL
=============================================================================
