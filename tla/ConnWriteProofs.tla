-------------------------- MODULE ConnWriteProofs ---------------------------
(***************************************************************************)
(* What is true of ConnWrite for messages and queues of any length, as     *)
(* long as one writev() takes the whole queue.                             *)
(***************************************************************************)
EXTENDS ConnWrite, SequenceTheorems, TLAPS

\* The queue never outgrows one writev().
OneBatch == MaxQueue <= IovMax

Slots == [ lo : 0 .. MaxBytes, hi : 0 .. MaxBytes, live : BOOLEAN ]

\* The queue q holds the bytes from, ..., to - 1, in order and without a gap.
\* The third conjunct follows from the fourth by induction on the distance of
\* the slots; as part of the invariant it needs none.
Holds(q, from, to) ==
  /\ q \in Seq(Slots)
  /\ \A i \in 1 .. Len(q) :
       q[i].live /\ from <= q[i].lo /\ q[i].lo < q[i].hi /\ q[i].hi <= to
  /\ \A i, k \in 1 .. Len(q) : i < k => q[i].hi <= q[k].lo
  /\ \A i \in 1 .. Len(q) : q[i].lo = (IF i = 1 THEN from ELSE q[i - 1].hi)
  /\ to = IF Len(q) = 0 THEN from ELSE q[Len(q)].hi

Shape ==
  /\ open \in BOOLEAN /\ ww \in BOOLEAN
  /\ submitted \in 0 .. MaxBytes /\ sent \in 0 .. MaxBytes
  /\ wlen \in Nat
  /\ tww \in TimerStates

\* The inductive invariant.
IInv ==
  /\ Shape
  /\ fault = FALSE
  /\ wbuf \in Seq(Slots) /\ Len(wbuf) <= MaxQueue /\ Len(wbuf) <= wlen
  /\ ww <=> Len(wbuf) # 0
  /\ open => Holds(wbuf, sent, submitted)
  /\ ~open => Len(wbuf) = 0
-----------------------------------------------------------------------------
(* Numbers and timers.                                                     *)

\* A queue that fits one writev() is never written in more than one batch.
LEMMA NoFullBatch ==
  ASSUME OneBatch, NEW n \in 0 .. MaxQueue
  PROVE  /\ \A j \in 0 .. n - 1 : FullBatches(j) = 0
         /\ \A k \in Int : k >= 0 /\ k * IovMax < n => k = 0
<1>1. MaxQueue \in Nat /\ IovMax \in Nat \ {0} /\ MaxQueue <= IovMax
  BY ConnWriteAssumption DEF OneBatch
<1>2. ASSUME NEW j \in 0 .. n - 1 PROVE FullBatches(j) = 0
  <2>1. j \in Nat /\ j < IovMax BY <1>1
  <2>2. j \div IovMax = 0 BY <1>1, <2>1
  <2> QED BY <1>1, <2>2 DEF FullBatches
<1>3. ASSUME NEW k \in Int, k >= 0, k * IovMax < n PROVE k = 0
  <2>1. k >= 1 => k * IovMax >= IovMax BY <1>1
  <2> QED BY <1>1, <1>3, <2>1
<1> QED BY <1>2, <1>3

LEMMA TimerTyped == ASSUME tww \in TimerStates
                    PROVE  StopTimer(tww) \in TimerStates /\ RearmTimer \in TimerStates
BY DEF StopTimer, EvIsActive, EvTimerStop, EvTimerStart, IsQueued, RearmTimer, EvTimerAgain, TimerStates
-----------------------------------------------------------------------------
(* Queues.                                                                 *)

LEMMA SlotTyped ==
  ASSUME NEW q \in Seq(Slots), NEW i \in 1 .. Len(q)
  PROVE  q[i] \in Slots /\ q[i].lo \in 0 .. MaxBytes /\ q[i].hi \in 0 .. MaxBytes
<1>1. q[i] \in Slots OBVIOUS
<1> QED BY <1>1 DEF Slots

\* An empty queue lacks nothing.
LEMMA HoldsNothing == ASSUME NEW q \in Seq(Slots), Len(q) = 0, NEW n \in Nat
                      PROVE  Holds(q, n, n)
BY DEF Holds

\* One slot holds what it says.
LEMMA HoldsOne ==
  ASSUME NEW a \in 0 .. MaxBytes, NEW b \in 0 .. MaxBytes, a < b
  PROVE  Holds(<< Slot(a, b) >>, a, b)
<1>1. Slot(a, b) \in Slots /\ Slot(a, b).lo = a /\ Slot(a, b).hi = b /\ Slot(a, b).live
  BY DEF Slot, Slots
<1> DEFINE s == Slot(a, b)
<1>2. << s >> \in Seq(Slots) /\ Len(<< s >>) = 1 /\ << s >>[1] = s
  BY <1>1
<1> HIDE DEF s
<1> QED BY <1>1, <1>2, ConnWriteAssumption DEF Holds, s

\* Appending a slot that starts where the queue ends.
LEMMA HoldsAppended ==
  ASSUME NEW q \in Seq(Slots), NEW a \in 0 .. MaxBytes, NEW b \in 0 .. MaxBytes,
         NEW c \in 0 .. MaxBytes, b < c, Len(q) # 0, Holds(q, a, b)
  PROVE  Holds(Append(q, Slot(b, c)), a, c)
<1>1. Slot(b, c) \in Slots /\ Slot(b, c).lo = b /\ Slot(b, c).hi = c /\ Slot(b, c).live
  BY DEF Slot, Slots
<1> DEFINE s == Slot(b, c)
           p == Append(q, s)
           n == Len(q)
<1>2. /\ p \in Seq(Slots) /\ n \in Nat /\ n # 0 /\ Len(p) = n + 1 /\ p[n + 1] = s
      /\ \A i \in 1 .. n : p[i] = q[i]
  BY <1>1
<1>3. \A i \in 1 .. n : q[i] \in Slots /\ q[i].lo \in Int /\ q[i].hi \in Int
  BY SlotTyped
<1>4. /\ \A i \in 1 .. n : q[i].live /\ a <= q[i].lo /\ q[i].lo < q[i].hi /\ q[i].hi <= b
      /\ \A i, k \in 1 .. n : i < k => q[i].hi <= q[k].lo
      /\ \A i \in 1 .. n : q[i].lo = (IF i = 1 THEN a ELSE q[i - 1].hi)
      /\ b = q[n].hi
  BY <1>2 DEF Holds
<1>5. a <= b /\ MaxBytes \in Nat BY <1>2, <1>3, <1>4, ConnWriteAssumption
<1> HIDE DEF s, p, n
<1>6. \A i \in 1 .. n + 1 : p[i].live /\ a <= p[i].lo /\ p[i].lo < p[i].hi /\ p[i].hi <= c
  <2>1. \A i \in 1 .. n : q[i].hi <= c BY <1>2, <1>3, <1>4, <1>5
  <2>2. p[n + 1].live /\ a <= p[n + 1].lo /\ p[n + 1].lo < p[n + 1].hi /\ p[n + 1].hi <= c
    BY <1>1, <1>2, <1>5 DEF s
  <2>3. \A i \in 1 .. n + 1 : i \in 1 .. n \/ i = n + 1 BY <1>2
  <2> QED BY <1>2, <1>4, <2>1, <2>2, <2>3
<1>7. \A i, k \in 1 .. n + 1 : i < k => p[i].hi <= p[k].lo
  <2>1. \A k \in 1 .. n + 1 : k \in 1 .. n \/ k = n + 1 BY <1>2
  <2>2. \A i, k \in 1 .. n + 1 : i < k => i \in 1 .. n BY <1>2
  <2>3. \A i \in 1 .. n : p[i].hi <= p[n + 1].lo BY <1>1, <1>2, <1>4 DEF s
  <2> QED BY <1>2, <1>4, <2>1, <2>2, <2>3
<1>8. \A i \in 1 .. n + 1 : p[i].lo = (IF i = 1 THEN a ELSE p[i - 1].hi)
  <2>1. p[n + 1].lo = p[n].hi BY <1>1, <1>2, <1>4 DEF s
  <2>2. \A i \in 1 .. n + 1 : i \in 1 .. n \/ i = n + 1 BY <1>2
  <2>3. \A i \in 1 .. n : i = 1 \/ p[i - 1] = q[i - 1] BY <1>2
  <2>4. n + 1 # 1 /\ (n + 1) - 1 = n BY <1>2
  <2> QED BY <1>2, <1>4, <2>1, <2>2, <2>3, <2>4
<1>9. c = p[n + 1].hi BY <1>1, <1>2 DEF s
<1> QED BY <1>2, <1>6, <1>7, <1>8, <1>9 DEF Holds, p, s

\* A queue without its first j slots, and with x as the first byte.
From(q, j, n, x) ==
  [ i \in 1 .. n |-> IF i = 1 THEN [ q[j + 1] EXCEPT !.lo = x ] ELSE q[j + i] ]

\* Byte x is in slot j + 1 of the n slots that follow the first j of q.
Cut(q, j, n, x) ==
  j + n = Len(q) /\ n # 0 /\ q[j + 1].lo <= x /\ x < q[j + 1].hi

\* What is left of q = a, ..., b - 1 when it is written up to x.
Left(q, a, b, j, n, x) ==
  /\ From(q, j, n, x) \in Seq(Slots) /\ Len(From(q, j, n, x)) = n
  /\ Holds(From(q, j, n, x), x, b)
  /\ x < b /\ a <= x
  /\ j > 0 \/ q[j + 1].lo < x => a < x
  /\ q[j + 1].lo = (IF j = 0 THEN a ELSE q[j].hi)

\* The slots that _evsrv_conn_write_cb keeps of a queue, when j are written and
\* a part of the next, up to its byte x, hold what has not been written.
LEMMA HoldsKept ==
  ASSUME NEW q \in Seq(Slots), NEW a \in Nat, NEW b \in Nat, Holds(q, a, b),
         NEW n \in Nat, NEW j \in Nat, NEW x \in 0 .. MaxBytes, Cut(q, j, n, x)
  PROVE  Left(q, a, b, j, n, x)
<1>cut. j + n = Len(q) /\ n # 0 /\ q[j + 1].lo <= x /\ x < q[j + 1].hi
  BY DEF Cut
<1>nat. x \in Nat BY ConnWriteAssumption
<1> DEFINE m == From(q, j, n, x)
<1>kept. /\ m \in Seq(Slots) /\ Len(m) = n
         /\ \A i \in 1 .. n : m[i].live = q[j + i].live /\ m[i].hi = q[j + i].hi
         /\ \A i \in 1 .. n : m[i].lo = IF i = 1 THEN x ELSE q[j + i].lo
  <2> DEFINE head == [ q[j + 1] EXCEPT !.lo = x ]
  <2>0. m = [ i \in 1 .. n |-> IF i = 1 THEN head ELSE q[j + i] ] BY DEF From
  <2> HIDE DEF m
  <2>1. \A i \in 1 .. n : j + i \in 1 .. Len(q) BY <1>cut
  <2>2. \A i \in 1 .. n : q[j + i] \in Slots BY <2>1, SlotTyped
  <2>3. \A s \in Slots : LET r == [ s EXCEPT !.lo = x ] IN
          r \in Slots /\ r.lo = x /\ r.hi = s.hi /\ r.live = s.live
    BY DEF Slots
  <2>4. q[j + 1] \in Slots BY <1>cut, <2>2
  <2>5. head \in Slots /\ head.lo = x /\ head.hi = q[j + 1].hi /\ head.live = q[j + 1].live
    BY <2>3, <2>4
  <2> HIDE DEF head
  <2>6. m \in [ 1 .. n -> Slots ] BY <2>0, <2>2, <2>5
  <2>7. m[1] = head BY <1>cut, <2>0
  <2>8. \A i \in 1 .. n : i # 1 => m[i] = q[j + i] BY <2>0
  <2>9. m \in Seq(Slots) /\ Len(m) = n
    <3>1. m \in UNION { [ 1 .. k -> Slots ] : k \in Nat } BY <2>6, Zenon
    <3>2. m \in Seq(Slots) BY <3>1, SeqDef, Zenon
    <3>3. DOMAIN m = 1 .. n /\ DOMAIN m = 1 .. Len(m) /\ Len(m) \in Nat
      BY <2>6, <3>2, LenProperties
    <3> QED BY <3>2, <3>3
  <2> QED BY <2>5, <2>7, <2>8, <2>9
<1> HIDE DEF m
<1> DEFINE N == Len(q)
           lo(i) == q[i].lo
           hi(i) == q[i].hi
<1>1. /\ N \in Nat /\ N # 0 /\ j + 1 \in 1 .. N /\ j + n = N
      /\ \A i \in 1 .. n : j + i \in 1 .. N
  BY <1>cut
<1>2. \A i \in 1 .. N : lo(i) \in Int /\ hi(i) \in Int
  <2>1. ASSUME NEW i \in 1 .. N PROVE lo(i) \in Int /\ hi(i) \in Int
    <3>1. q[i].lo \in 0 .. MaxBytes /\ q[i].hi \in 0 .. MaxBytes BY SlotTyped
    <3> QED BY <3>1
  <2> QED BY <2>1
<1>3. \A i \in 1 .. N : q[i].live /\ a <= lo(i) /\ lo(i) < hi(i) /\ hi(i) <= b
  BY DEF Holds
<1>4. \A i, k \in 1 .. N : i < k => hi(i) <= lo(k)
  BY DEF Holds
<1>5. \A i \in 1 .. N : lo(i) = (IF i = 1 THEN a ELSE hi(i - 1))
  BY DEF Holds
<1>6. b = hi(N) BY <1>1 DEF Holds
<1>7. lo(j + 1) <= x /\ x < hi(j + 1) /\ x \in Nat BY <1>cut, <1>nat
<1>8. \A i \in 1 .. n : m[i].live /\ m[i].hi = hi(j + i)
  BY <1>1, <1>3, <1>kept
<1>9. \A i \in 1 .. n : m[i].lo = IF i = 1 THEN x ELSE lo(j + i)
  BY <1>kept
<1> HIDE DEF N, lo, hi
<1>10. lo(j + 1) = (IF j = 0 THEN a ELSE hi(j))
  BY <1>1, <1>5
<1>11. x < b /\ a <= x
  BY <1>1, <1>2, <1>3, <1>7
<1>12. j > 0 \/ lo(j + 1) < x => a < x
  BY <1>1, <1>2, <1>3, <1>4, <1>7
<1>13. \A i \in 1 .. n : i # 1 => hi(j + 1) <= lo(j + i)
  BY <1>1, <1>4
<1>14. \A i \in 1 .. n : x <= m[i].lo /\ m[i].lo < m[i].hi /\ m[i].hi <= b
  <2> SUFFICES ASSUME NEW i \in 1 .. n
               PROVE  x <= m[i].lo /\ m[i].lo < m[i].hi /\ m[i].hi <= b
    OBVIOUS
  <2>1. /\ lo(j + i) \in Int /\ hi(j + i) \in Int /\ hi(j + 1) \in Int
        /\ lo(j + i) < hi(j + i) /\ hi(j + i) <= b
    BY <1>1, <1>2, <1>3
  <2>2. CASE i = 1 BY <1>7, <1>8, <1>9, <2>1, <2>2
  <2>3. CASE i # 1 BY <1>7, <1>8, <1>9, <1>13, <2>1, <2>3
  <2> QED BY <2>2, <2>3
<1>15. \A i, k \in 1 .. n : i < k => m[i].hi <= m[k].lo
  BY <1>1, <1>4, <1>8, <1>9
<1>16. \A i \in 1 .. n : m[i].lo = (IF i = 1 THEN x ELSE m[i - 1].hi)
  <2> SUFFICES ASSUME NEW i \in 1 .. n, i # 1 PROVE m[i].lo = m[i - 1].hi
    BY <1>9
  <2>1. i - 1 \in 1 .. n /\ j + i # 1 /\ (j + i) - 1 = j + (i - 1) BY <1>1
  <2>2. lo(j + i) = hi(j + (i - 1)) BY <1>1, <1>5, <2>1
  <2> QED BY <1>8, <1>9, <2>1, <2>2
<1>17. b = m[n].hi
  <2>1. n \in 1 .. n BY <1>1
  <2> QED BY <1>1, <1>6, <1>8, <2>1
<1>18. Holds(m, x, b)
  <2>1. m \in Seq(Slots) /\ Len(m) = n BY <1>kept
  <2>2. b = IF Len(m) = 0 THEN x ELSE m[Len(m)].hi BY <1>cut, <1>17, <2>1
  <2> QED BY <1>8, <1>14, <1>15, <1>16, <2>1, <2>2 DEF Holds
<1> QED BY <1>kept, <1>10, <1>11, <1>12, <1>18 DEF lo, hi, m, Left
-----------------------------------------------------------------------------
(* The steps.  Each keeps the invariant, and is a step or a stutter of     *)
(* ByteStream.                                                             *)

StreamStep == Stream!Next \/ UNCHANGED Stream!vars

LEMMA InitIInv == Init => IInv /\ Stream!Init
<1> SUFFICES ASSUME Init PROVE IInv /\ Stream!Init OBVIOUS
<1>1. << >> \in Seq(Slots) /\ Len(<< >>) = 0 OBVIOUS
<1>2. Holds(<< >>, 0, 0) BY <1>1, HoldsNothing
<1>3. submitted \in 0 .. MaxBytes /\ sent \in 0 .. MaxBytes /\ wlen \in Nat
  BY ConnWriteAssumption DEF Init
<1>4. open \in BOOLEAN /\ ww \in BOOLEAN BY Zenon DEF Init
<1>5. tww \in TimerStates BY DEF Init, TimerStates
<1>6. Shape BY <1>3, <1>4, <1>5, Zenon DEF Shape
<1> QED BY <1>1, <1>2, <1>6, ConnWriteAssumption DEF Init, IInv, Stream!Init

\* What the invariant says of an open connection.
LEMMA Opened ==
  ASSUME IInv, open
  PROVE  /\ wbuf \in Seq(Slots) /\ Len(wbuf) \in 0 .. MaxQueue /\ Holds(wbuf, sent, submitted)
         /\ Len(wbuf) = 0 => sent = submitted
         /\ Len(wbuf) # 0 => sent < submitted
         /\ \A i \in 1 .. Len(wbuf) : wbuf[i].live
         /\ \A n \in 0 .. Len(wbuf) : Expected(n)
         /\ End(Len(wbuf)) = submitted
         /\ sent \in 0 .. MaxBytes /\ submitted \in 0 .. MaxBytes /\ MaxBytes \in Nat
<1>1. wbuf \in Seq(Slots) /\ Len(wbuf) \in 0 .. MaxQueue /\ Holds(wbuf, sent, submitted)
  BY ConnWriteAssumption DEF IInv
<1>2. sent \in 0 .. MaxBytes /\ submitted \in 0 .. MaxBytes /\ MaxBytes \in Nat
  BY ConnWriteAssumption DEF IInv, Shape
<1>3. /\ \A i \in 1 .. Len(wbuf) : wbuf[i].live /\ sent <= wbuf[i].lo
                                  /\ wbuf[i].lo < wbuf[i].hi /\ wbuf[i].hi <= submitted
      /\ \A i \in 1 .. Len(wbuf) : wbuf[i].lo = (IF i = 1 THEN sent ELSE wbuf[i - 1].hi)
      /\ submitted = IF Len(wbuf) = 0 THEN sent ELSE wbuf[Len(wbuf)].hi
  BY <1>1 DEF Holds
<1>4. Len(wbuf) # 0 => sent < submitted
  <2> SUFFICES ASSUME Len(wbuf) # 0 PROVE sent < submitted OBVIOUS
  <2>1. 1 \in 1 .. Len(wbuf) BY <1>1
  <2>2. wbuf[1].lo \in 0 .. MaxBytes /\ wbuf[1].hi \in 0 .. MaxBytes
    BY <1>1, <2>1, SlotTyped
  <2> QED BY <1>2, <1>3, <2>1, <2>2
<1>5. \A n \in 0 .. Len(wbuf) : Expected(n) BY <1>1, <1>3 DEF Expected
<1>6. End(Len(wbuf)) = submitted BY <1>3 DEF End
<1> QED BY <1>1, <1>2, <1>3, <1>4, <1>5, <1>6

\* Closing frees every slot once.
LEMMA CloseStep ==
  ASSUME IInv, open, ConnClose(wbuf), sent' = sent, submitted' >= submitted,
         submitted' \in 0 .. MaxBytes
  PROVE  IInv' /\ Stream!Close
<1>1. fault' = FALSE BY Opened DEF ConnClose
<1>2. Shape' BY TimerTyped DEF IInv, Shape, ConnClose
<1>3. wbuf' \in Seq(Slots) /\ Len(wbuf') = 0 BY DEF ConnClose
<1>4. IInv' BY <1>1, <1>2, <1>3, ConnWriteAssumption DEF IInv, ConnClose
<1>5. sent <= submitted BY Opened
<1>6. Stream!Close
  BY <1>5, Opened DEF Stream!Close, ConnClose
<1> QED BY <1>4, <1>6

LEMMA AppendStep ==
  ASSUME IInv, fault = FALSE, NEW len \in 1 .. MaxLen, WriteAppend(len)
  PROVE  IInv' /\ Stream!Accept
<1>1. open /\ submitted' = submitted + len /\ submitted' <= MaxBytes
  BY DEF WriteAppend, Submit
<1>2. len \in Nat /\ len > 0 BY ConnWriteAssumption
<1>3. submitted' \in 0 .. MaxBytes /\ submitted < submitted' BY <1>1, <1>2, Opened
<1>4. Len(wbuf) # 0 BY <1>1, Opened DEF WriteAppend
<1>5. wbuf' = Append(wbuf, Slot(submitted, submitted')) BY <1>1 DEF WriteAppend
<1>6. Holds(wbuf', sent, submitted') BY <1>1, <1>3, <1>4, <1>5, Opened, HoldsAppended
<1>7. wbuf' \in Seq(Slots) /\ Len(wbuf') = Len(wbuf) + 1
  <2>1. Slot(submitted, submitted') \in Slots BY <1>1, <1>3, Opened DEF Slot, Slots
  <2> QED BY <1>1, <1>5, <2>1, Opened
<1>8. Len(wbuf') <= MaxQueue BY <1>1, <1>7, Opened, ConnWriteAssumption DEF WriteAppend, wuse
<1>9. wlen' \in Nat /\ Len(wbuf') <= wlen'
  <2>1. wlen \in Nat /\ Len(wbuf) <= wlen /\ Len(wbuf) \in Nat
    BY <1>1, Opened, ConnWriteAssumption DEF IInv, Shape
  <2> QED BY <1>7, <2>1 DEF WriteAppend, Grown, wuse
<1>10. UNCHANGED << open, sent, ww, tww, fault >> BY DEF WriteAppend
<1>11. Shape' BY <1>3, <1>9, <1>10 DEF IInv, Shape
<1>12. Len(wbuf') # 0 BY <1>1, <1>7, Opened, ConnWriteAssumption
<1>13. IInv' BY <1>1, <1>4, <1>6, <1>7, <1>8, <1>9, <1>10, <1>11, <1>12 DEF IInv
<1>14. ww BY <1>4 DEF IInv
<1>15. sent' \in sent .. sent /\ sent' # submitted' BY <1>1, <1>3, <1>4, <1>10, Opened
<1>16. ww' = (sent' # submitted') /\ open' = open
  <2>1. ww = TRUE BY <1>14, Zenon DEF IInv, Shape
  <2> QED BY <1>10, <1>15, <2>1, Zenon
<1>17. submitted' > submitted BY <1>1, <1>3, Opened
<1>18. Stream!Accept BY <1>1, <1>14, <1>15, <1>16, <1>17, Zenon DEF Stream!Accept
<1> QED BY <1>13, <1>18

LEMMA NowStep ==
  ASSUME IInv, fault = FALSE, NEW len \in 1 .. MaxLen, NEW wr \in 0 .. len, WriteNow(len, wr)
  PROVE  IInv' /\ Stream!Accept
<1>1. open /\ submitted' = submitted + len /\ submitted' <= MaxBytes /\ sent' = sent + wr
      /\ open' = open
  BY DEF WriteNow, Submit
<1>2. len \in Nat /\ len > 0 /\ wr \in Nat /\ wr <= len BY ConnWriteAssumption
<1>3. Len(wbuf) = 0 BY DEF WriteNow
<1>4. sent = submitted /\ ~ww BY <1>1, <1>3, Opened DEF IInv
<1>5. /\ submitted' \in 0 .. MaxBytes /\ sent' \in 0 .. MaxBytes
      /\ sent' <= submitted' /\ submitted' > submitted /\ sent' >= sent
      /\ sent' = submitted' <=> wr = len
  BY <1>1, <1>2, <1>4, Opened
<1>6. fault' = FALSE BY <1>4 DEF WriteNow
<1>9. sent' \in sent .. submitted' BY <1>1, <1>5, Opened
<1>7. CASE wr = len
  <2>1. UNCHANGED << wbuf, wlen, ww, tww >> BY <1>7, <1>2 DEF WriteNow
  <2>2. Holds(wbuf, sent', submitted')
    <3>1. sent' = submitted' /\ sent' \in Nat BY <1>5, <1>7
    <3>2. wbuf \in Seq(Slots) BY DEF IInv
    <3> QED BY <1>3, <3>1, <3>2, HoldsNothing
  <2>3. IInv' BY <1>1, <1>3, <1>5, <1>6, <2>1, <2>2 DEF IInv, Shape
  <2>4. ww' = (sent' # submitted')
    <3>1. ww' = FALSE BY <1>4, <2>1, Zenon DEF IInv, Shape
    <3>2. sent' = submitted' BY <1>5, <1>7
    <3> QED BY <3>1, <3>2, Zenon
  <2>5. Stream!Accept BY <1>1, <1>4, <1>5, <1>9, <2>4, Zenon DEF Stream!Accept
  <2> QED BY <2>3, <2>5
<1>8. CASE wr < len
  <2>1. /\ wbuf' = << Slot(submitted + wr, submitted + len) >>
        /\ wlen' = IF wlen = 0 THEN 2 ELSE wlen
        /\ ww' = TRUE /\ tww' = RearmTimer
    BY <1>2, <1>8 DEF WriteNow, Rest
  <2>2. wbuf' = << Slot(sent', submitted') >> BY <1>1, <1>4, <2>1
  <2>3. sent' < submitted' BY <1>1, <1>2, <1>4, <1>8, Opened
  <2>4. Holds(wbuf', sent', submitted') BY <1>5, <2>2, <2>3, HoldsOne
  <2>5. Len(wbuf') = 1 /\ wbuf' \in Seq(Slots) BY <2>2, <2>4 DEF Holds
  <2>6. wlen' \in Nat /\ 1 <= wlen' BY <2>1 DEF IInv, Shape
  <2>7. Shape' BY <1>1, <1>5, <2>1, <2>6, TimerTyped DEF IInv, Shape
  <2>8. IInv' BY <1>1, <1>6, <2>1, <2>4, <2>5, <2>6, <2>7, ConnWriteAssumption DEF IInv
  <2>9. ww' = (sent' # submitted')
    <3>1. sent' # submitted' BY <1>5, <2>3
    <3> QED BY <2>1, <3>1, Zenon
  <2>10. Stream!Accept BY <1>1, <1>4, <1>5, <1>9, <2>9, Zenon DEF Stream!Accept
  <2> QED BY <2>8, <2>10
<1> QED BY <1>2, <1>7, <1>8

LEMMA AllStep ==
  ASSUME IInv, fault = FALSE, WriteAll
  PROVE  IInv' /\ Stream!Deliver
<1>1. open /\ ww /\ Len(wbuf) # 0 BY DEF WriteAll, Writable, IInv
<1>2. sent' = submitted /\ fault' = FALSE
  <2>1. Len(wbuf) \in 0 .. Len(wbuf) BY <1>1, Opened, ConnWriteAssumption
  <2>2. Expected(Len(wbuf)) /\ End(Len(wbuf)) = submitted BY <1>1, <2>1, Opened, Zenon
  <2> QED BY <2>2, Zenon DEF WriteAll, wuse
<1>3. wbuf' \in Seq(Slots) /\ Len(wbuf') = 0 BY DEF WriteAll
<1>4. /\ UNCHANGED << open, submitted, wlen >> /\ ww' = FALSE /\ tww' = StopTimer(tww)
  BY DEF WriteAll, Disarm
<1>5. Holds(wbuf', sent', submitted')
  <2>1. sent' \in Nat /\ submitted' = sent' BY <1>1, <1>2, <1>4, Opened
  <2> QED BY <1>3, <2>1, HoldsNothing
<1>6. Shape' BY <1>1, <1>2, <1>4, TimerTyped, Opened DEF IInv, Shape
<1>7. IInv' BY <1>2, <1>3, <1>4, <1>5, <1>6, ConnWriteAssumption DEF IInv, Shape
<1>8. sent' \in sent + 1 .. submitted BY <1>1, <1>2, Opened
<1>9. ww' = (sent' # submitted) BY <1>2, <1>4, Zenon
<1>10. UNCHANGED << open, submitted >> BY <1>4
<1>11. Stream!Deliver BY <1>1, <1>8, <1>9, <1>10, Zenon DEF Stream!Deliver
<1> QED BY <1>7, <1>11

LEMMA PartStep ==
  ASSUME OneBatch, IInv, fault = FALSE,
         NEW j \in 0 .. wuse - 1, NEW w \in 0 .. MaxLen - 1, WritePart(j, w)
  PROVE  IInv' /\ Stream!Deliver
<1> DEFINE n == Len(wbuf) - j
<1>1. open /\ ww /\ Len(wbuf) # 0 BY DEF WritePart, Writable, IInv
<1>2. /\ Len(wbuf) \in 0 .. MaxQueue /\ Len(wbuf) \in Nat /\ MaxBytes \in Nat /\ j \in Nat /\ j \in 0 .. Len(wbuf) - 1 /\ w \in Nat
      /\ n = Len(wbuf) - j /\ n \in Nat /\ n # 0 /\ n <= Len(wbuf) /\ j + n = Len(wbuf)
      /\ j + 1 \in 1 .. Len(wbuf) /\ j + 1 \in 0 .. Len(wbuf)
  BY <1>1, Opened, ConnWriteAssumption DEF wuse
<1> HIDE DEF n
<1>3. FullBatches(j) = 0 BY <1>2, NoFullBatch
<1>4. Kept(j) = n
  <2>1. Kept(j) = Len(wbuf) - 0 - j BY <1>3 DEF Kept, wuse
  <2> QED BY <1>2, <2>1
<1>5. wbuf[j + 1].lo \in 0 .. MaxBytes /\ wbuf[j + 1].hi \in 0 .. MaxBytes
  BY <1>1, <1>2, Opened, SlotTyped
<1>6. /\ w < wbuf[j + 1].hi - wbuf[j + 1].lo
      /\ w > 0 \/ j > 0
  BY <1>3 DEF WritePart
<1> DEFINE x == wbuf[j + 1].lo + w
<1>7. /\ x \in 0 .. MaxBytes /\ x \in Nat /\ wbuf[j + 1].lo <= x /\ x < wbuf[j + 1].hi
      /\ w > 0 => wbuf[j + 1].lo < x
  <2> DEFINE l == wbuf[j + 1].lo
             h == wbuf[j + 1].hi
  <2>1. l \in 0 .. MaxBytes /\ h \in 0 .. MaxBytes /\ w < h - l BY <1>5, <1>6
  <2> HIDE DEF l, h
  <2>2. LET y == l + w IN /\ y \in 0 .. MaxBytes /\ y \in Nat /\ l <= y /\ y < h
                          /\ w > 0 => l < y
    BY <1>2, <2>1
  <2> QED BY <2>2 DEF l, h
<1> HIDE DEF x
<1>8. wbuf' = From(wbuf, j, n, x)
  BY <1>4 DEF WritePart, Moved, From, x
<1>9. fault' = FALSE
  <2>2. Expected(j + 1) BY <1>1, <1>2, Opened, Zenon
  <2>3. ~(Kept(j) < 0) BY <1>2, <1>4
  <2> QED BY <2>2, <2>3, Zenon DEF WritePart
<1>10. sent' = End(j) + w /\ tww' = RearmTimer /\ UNCHANGED << open, submitted, wlen, ww >>
  BY DEF WritePart
<1>11. wbuf \in Seq(Slots) /\ Holds(wbuf, sent, submitted) BY <1>1, Opened
<1>12. sent \in Nat /\ submitted \in Nat BY <1>1, Opened
<1>13. /\ wbuf' \in Seq(Slots) /\ Len(wbuf') = n
       /\ Holds(wbuf', x, submitted) /\ x < submitted /\ sent <= x
       /\ j > 0 \/ wbuf[j + 1].lo < x => sent < x
       /\ wbuf[j + 1].lo = (IF j = 0 THEN sent ELSE wbuf[j].hi)
  <2>1. Cut(wbuf, j, n, x) BY <1>2, <1>7 DEF Cut
  <2>2. Left(wbuf, sent, submitted, j, n, x) BY <1>2, <1>7, <1>12, <1>11, <2>1, HoldsKept
  <2> QED BY <1>8, <2>2 DEF Left
<1>14. sent' = x
  BY <1>10, <1>13 DEF End, x
<1>15. sent < sent' /\ sent' < submitted BY <1>6, <1>7, <1>13, <1>14
<1>16. Shape' BY <1>1, <1>7, <1>10, <1>14, TimerTyped DEF IInv, Shape
<1>17. Len(wbuf') # 0 /\ Len(wbuf') <= MaxQueue /\ Len(wbuf') <= wlen'
  <2>1. wlen \in Nat /\ Len(wbuf) <= wlen BY DEF IInv, Shape
  <2> QED BY <1>2, <1>10, <1>13, <2>1, ConnWriteAssumption
<1>18. IInv' BY <1>1, <1>9, <1>10, <1>13, <1>14, <1>16, <1>17 DEF IInv
<1>19. Stream!Deliver
  <2>1. sent' \in sent + 1 .. submitted BY <1>7, <1>12, <1>14, <1>15
  <2>2. sent' # submitted BY <1>7, <1>12, <1>14, <1>15
  <2>3. ww' = (sent' # submitted)
    <3>1. ww' = TRUE BY <1>1, <1>10, Zenon DEF IInv, Shape
    <3> QED BY <2>2, <3>1, Zenon
  <2>4. UNCHANGED << open, submitted >> BY <1>10
  <2> QED BY <1>1, <2>1, <2>3, <2>4, Zenon DEF Stream!Deliver
<1> QED BY <1>18, <1>19

\* With one batch nothing has been written when writev() fails.
LEMMA NoBatches ==
  ASSUME OneBatch, IInv, open, NEW k \in Int, k >= 0, k * IovMax < Len(wbuf)
  PROVE  k * IovMax = 0 /\ AfterBatches(k) = wbuf /\ End(k * IovMax) = sent
<1>1. k = 0 BY Opened, NoFullBatch
<1>2. k * IovMax = 0 BY <1>1, ConnWriteAssumption
<1>3. AfterBatches(k) = [ i \in 1 .. Len(wbuf) |-> wbuf[i] ]
  BY <1>2, Opened DEF AfterBatches, wuse
<1>4. wbuf = [ i \in 1 .. Len(wbuf) |-> wbuf[i] ]
  BY Opened, LenProperties
<1> QED BY <1>2, <1>3, <1>4 DEF End

LEMMA AgainStep ==
  ASSUME OneBatch, IInv, fault = FALSE, NEW k \in Int, k >= 0, WriteAgain(k)
  PROVE  IInv' /\ UNCHANGED Stream!vars
<1>1. open /\ k * IovMax < Len(wbuf) BY DEF WriteAgain, WriteBatches, Writable, wuse
<1>2. wbuf' = wbuf /\ sent' = sent
  BY <1>1, NoBatches DEF WriteAgain, WriteBatches
<1>3. fault' = FALSE
  <2>1. Expected(0) BY <1>1, Opened, ConnWriteAssumption
  <2> QED BY <1>1, <2>1, NoBatches DEF WriteAgain
<1>4. tww' = RearmTimer /\ UNCHANGED << open, submitted, wlen, ww >> BY DEF WriteAgain
<1>5. Shape' BY <1>2, <1>4, TimerTyped DEF IInv, Shape
<1>6. IInv' BY <1>2, <1>3, <1>4, <1>5 DEF IInv
<1> QED BY <1>2, <1>4, <1>6 DEF Stream!vars

LEMMA FailStep ==
  ASSUME OneBatch, IInv, fault = FALSE, NEW k \in Int, k >= 0, WriteFails(k)
  PROVE  IInv' /\ Stream!Close
<1>1. open /\ k * IovMax < Len(wbuf) BY DEF WriteFails, WriteBatches, Writable, wuse
<1>2. ConnClose(wbuf) /\ sent' = sent /\ submitted' = submitted
  BY <1>1, NoBatches DEF WriteFails, WriteBatches
<1>3. submitted' >= submitted /\ submitted' \in 0 .. MaxBytes BY <1>1, <1>2, Opened
<1> QED BY <1>1, <1>2, <1>3, CloseStep
-----------------------------------------------------------------------------
LEMMA NextStep ==
  ASSUME OneBatch, IInv, Next
  PROVE  IInv' /\ StreamStep
<1>1. fault = FALSE BY DEF IInv
<1>2. ASSUME NEW len \in 1 .. MaxLen, WriteAppend(len) PROVE IInv' /\ StreamStep
  BY <1>1, <1>2, AppendStep DEF StreamStep, Stream!Next
<1>3. ASSUME NEW len \in 1 .. MaxLen, WriteNowFails(len) PROVE IInv' /\ StreamStep
  <2>1. open /\ ConnClose(wbuf) /\ sent' = sent /\ submitted' = submitted + len
        /\ submitted' <= MaxBytes
    BY <1>3 DEF WriteNowFails, Submit
  <2>2. submitted' >= submitted /\ submitted' \in 0 .. MaxBytes
    BY <2>1, Opened, ConnWriteAssumption
  <2> QED BY <2>1, <2>2, CloseStep DEF StreamStep, Stream!Next
<1>4. ASSUME NEW len \in 1 .. MaxLen, NEW wr \in 0 .. len, WriteNow(len, wr)
      PROVE  IInv' /\ StreamStep
  BY <1>1, <1>4, NowStep DEF StreamStep, Stream!Next
<1>5. ASSUME WriteAll PROVE IInv' /\ StreamStep
  BY <1>1, <1>5, AllStep DEF StreamStep, Stream!Next
<1>6. ASSUME NEW j \in 0 .. wuse - 1, NEW w \in 0 .. MaxLen - 1, WritePart(j, w)
      PROVE  IInv' /\ StreamStep
  BY <1>1, <1>6, PartStep, Zenon DEF StreamStep, Stream!Next
<1>7. ASSUME Close PROVE IInv' /\ StreamStep
  <2>1. open /\ ConnClose(wbuf) /\ sent' = sent /\ submitted' = submitted BY <1>7 DEF Close
  <2>2. submitted' >= submitted /\ submitted' \in 0 .. MaxBytes BY <2>1, Opened
  <2> QED BY <2>1, <2>2, CloseStep DEF StreamStep, Stream!Next
<1>8. ASSUME NEW k \in 0 .. wuse \div IovMax, WriteAgain(k) PROVE IInv' /\ StreamStep
  <2>1. k \in Int /\ k >= 0 OBVIOUS
  <2> QED BY <1>1, <1>8, <2>1, AgainStep, Zenon DEF StreamStep
<1>9. ASSUME NEW k \in 0 .. wuse \div IovMax, WriteFails(k) PROVE IInv' /\ StreamStep
  <2>1. k \in Int /\ k >= 0 OBVIOUS
  <2> QED BY <1>1, <1>9, <2>1, FailStep, Zenon DEF StreamStep, Stream!Next
<1> QED BY <1>2, <1>3, <1>4, <1>5, <1>6, <1>7, <1>8, <1>9 DEF Next, Write, Progress

LEMMA StutterStep == ASSUME IInv, UNCHANGED vars PROVE IInv' /\ StreamStep
<1>1. IInv'
  BY DEF vars, IInv, Shape, Holds
<1>2. UNCHANGED Stream!vars BY DEF vars, Stream!vars
<1> QED BY <1>1, <1>2 DEF StreamStep

\* The invariant holds in every reachable state, for messages and queues of
\* any length up to IOV_MAX slots.
THEOREM WriteInvariance == OneBatch => (Spec => []IInv)
<1> SUFFICES ASSUME OneBatch PROVE Spec => []IInv OBVIOUS
<1>1. Init => IInv BY InitIInv
<1>2. IInv /\ [Next]_vars => IInv' BY NextStep, StutterStep
<1> QED BY <1>1, <1>2, PTL DEF Spec

\* The variables of the write path keep their types.
THEOREM WriteTypeCorrect == OneBatch => (Spec => []TypeOK)
<1>1. IInv => TypeOK BY Zenon DEF IInv, Shape, TypeOK, Slots, wuse
<1> QED BY <1>1, WriteInvariance, PTL

\* No byte that was given to evsrv_conn_write is lost, doubled or reordered in
\* the queue, and none of it is in freed memory.
THEOREM QueueIntact == OneBatch => (Spec => []NothingLost)
<1>1. ASSUME IInv, open PROVE Expected(wuse) /\ End(wuse) = submitted
  <2>1. Len(wbuf) \in 0 .. Len(wbuf) BY <1>1, Opened, ConnWriteAssumption
  <2> QED BY <1>1, <2>1, Opened, Zenon DEF wuse
<1>2. IInv => NothingLost BY <1>1 DEF NothingLost
<1> QED BY <1>2, WriteInvariance, PTL

\* The queue stays within the array allocated for it.
THEOREM QueueWithinArray == OneBatch => (Spec => []QueueFits)
<1>1. IInv => QueueFits BY DEF IInv, QueueFits, wuse
<1> QED BY <1>1, WriteInvariance, PTL

\* The loop watches the socket exactly while data is queued.
THEOREM WatcherCorrect == OneBatch => (Spec => []WatcherMatchesQueue)
<1>1. IInv => WatcherMatchesQueue BY DEF IInv, WatcherMatchesQueue
<1> QED BY <1>1, WriteInvariance, PTL

\* No slot is read after it was freed, or freed twice.
THEOREM MemorySafe == OneBatch => (Spec => []NoFault)
<1>1. IInv => NoFault BY DEF IInv, NoFault
<1> QED BY <1>1, WriteInvariance, PTL

\* The write path implements a byte stream, its liveness aside: bytes reach
\* the peer in order and without a gap, and the sender is busy exactly while
\* some are missing.
THEOREM StreamRefinement ==
  OneBatch => (Spec => Stream!Init /\ [][Stream!Next]_(Stream!vars))
<1> SUFFICES ASSUME OneBatch PROVE Spec => Stream!Init /\ [][Stream!Next]_(Stream!vars)
  OBVIOUS
<1>1. Init => Stream!Init BY InitIInv
<1>2. IInv /\ [Next]_vars => [Stream!Next]_(Stream!vars)
  BY NextStep, StutterStep DEF StreamStep
<1> QED BY <1>1, <1>2, WriteInvariance, PTL DEF Spec
=============================================================================
