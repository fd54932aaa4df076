----------------------------- MODULE ConnWrite ------------------------------
(***************************************************************************)
(* The write path of one connection (src/evsrv_conn.c): evsrv_conn_write,  *)
(* the queue wbuf it fills while the socket is not writable, and the       *)
(* callback of ww that empties it with writev().                           *)
(*                                                                         *)
(* The bytes given to evsrv_conn_write are numbered 0, 1, ... over the     *)
(* life of the connection.  A slot of the queue (struct iovec) holds the   *)
(* bytes lo, ..., hi - 1, and is live until its memory is freed.  The      *)
(* sequence wbuf is the first wuse slots of the array, so wuse is its      *)
(* length.                                                                 *)
(***************************************************************************)
EXTENDS LibEv, Sequences

CONSTANTS
  IovMax,        \* IOV_MAX, the most slots one writev() takes
  WriteTimeout,  \* write_timeout in seconds, 0 when disabled
  MaxQueue,      \* bound: slots in the queue
  MaxLen,        \* bound: bytes of one evsrv_conn_write
  MaxBytes       \* bound: bytes written over the life of the connection

ASSUME ConnWriteAssumption ==
  /\ IovMax \in Nat \ {0} /\ WriteTimeout \in Nat
  /\ MaxQueue \in Nat \ {0} /\ MaxLen \in Nat /\ MaxBytes \in Nat

VARIABLES
  open,       \* the connection exists
  submitted,  \* bytes given to evsrv_conn_write
  sent,       \* bytes the peer has got
  wbuf,       \* the used slots of the queue
  wlen,       \* allocated slots
  ww,         \* is the write watcher active?
  tww,        \* the write timer
  fault       \* freed memory has been read or freed, or lost data overtaken

vars == << open, submitted, sent, wbuf, wlen, ww, tww, fault >>
-----------------------------------------------------------------------------
Slot(lo, hi) == [ lo |-> lo, hi |-> hi, live |-> TRUE ]
Freed(s) == [ s EXCEPT !.live = FALSE ]

wuse == Len(wbuf)

\* tww is initialised with a repeat of zero.
WriteTimerRepeat == 0
RearmTimer == IF WriteTimeout > 0 THEN EvTimerAgain(StopTimer(tww), WriteTimerRepeat)
              ELSE StopTimer(tww)

\* Are the first n slots what the peer is waiting for?
Expected(n) ==
  \A i \in 1 .. n :
    wbuf[i].live /\ wbuf[i].lo = (IF i = 1 THEN sent ELSE wbuf[i - 1].hi)

\* The byte after the first n slots.
End(n) == IF n = 0 THEN sent ELSE wbuf[n].hi

\* evsrv_conn_close: stop the watchers, free the slots of the queue q, then
\* the array.  A slot that has been freed before is freed twice.
ConnClose(q) ==
  /\ open' = FALSE
  /\ wbuf' = << >> /\ wlen' = 0
  /\ ww' = FALSE /\ tww' = StopTimer(tww)
  /\ fault' = \E i \in DOMAIN q : ~q[i].live
-----------------------------------------------------------------------------
(* evsrv_conn_write                                                        *)

Init ==
  /\ open = TRUE
  /\ submitted = 0 /\ sent = 0
  /\ wbuf = << >> /\ wlen = 0
  /\ ww = FALSE /\ tww = "off"
  /\ fault = FALSE

Submit(len) ==
  /\ open
  /\ submitted + len <= MaxBytes
  /\ submitted' = submitted + len

\* A full array grows by two slots.
NeverGrows(used) == wlen
Grown(used) == IF used = wlen THEN wlen + 2 ELSE wlen

\* Data is queued already: it is appended.
WriteAppend(len) ==
  /\ Submit(len)
  /\ wbuf # << >> /\ wuse < MaxQueue
  /\ wbuf' = Append(wbuf, Slot(submitted, submitted + len))
  /\ wlen' = Grown(wuse)
  /\ UNCHANGED << open, sent, ww, tww, fault >>

\* The queue is empty: wr bytes go out now (none on EAGAIN or when wnow is
\* unset) and the rest becomes the first slot.
TakesWhole(len, wr) == Slot(submitted, submitted + len)
Rest(len, wr) == Slot(submitted + wr, submitted + len)

WriteNow(len, wr) ==
  /\ Submit(len)
  /\ wbuf = << >>
  /\ fault' = (wr > 0 /\ sent # submitted)
  /\ sent' = sent + wr
  /\ \/ wr = len /\ UNCHANGED << wbuf, wlen, ww, tww >>
     \/ /\ wr < len
        /\ wbuf' = << Rest(len, wr) >>
        /\ wlen' = IF wlen = 0 THEN 2 ELSE wlen
        /\ ww' = TRUE
        /\ tww' = RearmTimer
  /\ UNCHANGED open

\* write() fails for good.
WriteNowFails(len) ==
  /\ Submit(len)
  /\ wbuf = << >>
  /\ ConnClose(wbuf)
  /\ UNCHANGED sent
-----------------------------------------------------------------------------
(* _evsrv_conn_write_cb, which calls writev() for batches of IovMax slots  *)
(* until the queue is empty, a batch is written in part, or writev() fails.*)

Writable == open /\ ww

\* All slots are written.
StaysArmed == UNCHANGED ww
Disarm == ww' = FALSE

WriteAll ==
  /\ Writable
  /\ fault' = ~Expected(wuse)
  /\ sent' = End(wuse)
  /\ wbuf' = << >>
  /\ Disarm
  /\ tww' = StopTimer(tww)
  /\ UNCHANGED << open, submitted, wlen >>

\* j slots are written, and w bytes of the next one.  wuse has already been
\* decreased for the full batches, and is decreased for them again.
FullBatches(j) == (j \div IovMax) * IovMax
Kept(j) == wuse - FullBatches(j) - j

\* The kept slots move to the front, the bytes written out of the first.
MovedWhole(j, w) == SubSeq(wbuf, j + 1, j + Kept(j))
Moved(j, w) ==
  [ i \in 1 .. Kept(j) |-> IF i = 1 THEN [ wbuf[j + 1] EXCEPT !.lo = @ + w ] ELSE wbuf[j + i] ]

WritePart(j, w) ==
  /\ Writable
  /\ j < wuse
  /\ w < wbuf[j + 1].hi - wbuf[j + 1].lo
  /\ w > 0 \/ j > FullBatches(j)
  /\ fault' = (~Expected(j + 1) \/ Kept(j) < 0)
  /\ sent' = End(j) + w
  /\ wbuf' = Moved(j, w)
  /\ tww' = RearmTimer
  /\ UNCHANGED << open, submitted, wlen, ww >>

\* The slots in use when writev() fails after k full batches: theirs have
\* been freed, wuse is smaller, but nothing has moved.
AfterBatches(k) ==
  [ i \in 1 .. wuse - k * IovMax |-> IF i <= k * IovMax THEN Freed(wbuf[i]) ELSE wbuf[i] ]

WriteBatches(k) ==
  /\ Writable
  /\ k * IovMax < wuse
  /\ sent' = End(k * IovMax)

\* writev() fails with EAGAIN
WriteAgain(k) ==
  /\ WriteBatches(k)
  /\ fault' = ~Expected(k * IovMax)
  /\ wbuf' = AfterBatches(k)
  /\ tww' = RearmTimer
  /\ UNCHANGED << open, submitted, wlen, ww >>

\* writev() fails for good
WriteFails(k) ==
  /\ WriteBatches(k)
  /\ ConnClose(AfterBatches(k))
  /\ UNCHANGED submitted

\* The connection is closed for any other reason.
Close ==
  /\ open
  /\ ConnClose(wbuf)
  /\ UNCHANGED << submitted, sent >>
-----------------------------------------------------------------------------
Write ==
  \E len \in 1 .. MaxLen :
    WriteAppend(len) \/ WriteNowFails(len) \/ \E wr \in 0 .. len : WriteNow(len, wr)

Progress == WriteAll \/ \E j \in 0 .. wuse - 1 : \E w \in 0 .. MaxLen - 1 : WritePart(j, w)

\* After a fault the behaviour is undefined.
Next ==
  /\ ~fault
  /\ \/ Write \/ Progress \/ Close
     \/ \E k \in 0 .. wuse \div IovMax : WriteAgain(k) \/ WriteFails(k)

Spec == Init /\ [][Next]_vars

\* The peer keeps reading, so writev() makes progress when it is called; the
\* loop calls it as long as ww is active.
FairSpec == Spec /\ WF_vars(~fault /\ Progress)
-----------------------------------------------------------------------------
(* Properties.                                                             *)

TypeOK ==
  /\ open \in BOOLEAN /\ ww \in BOOLEAN /\ fault \in BOOLEAN
  /\ submitted \in 0 .. MaxBytes /\ sent \in 0 .. MaxBytes
  /\ wbuf \in Seq([ lo : 0 .. MaxBytes, hi : 0 .. MaxBytes, live : BOOLEAN ])
  /\ wuse <= MaxQueue
  /\ wlen \in Nat
  /\ tww \in TimerStates

\* The slots in use hold exactly the bytes the peer has not got, in order,
\* each once and none in freed memory (evsrv_conn.c:143-155, 187-193,
\* 294-326).
NothingLost ==
  open => Expected(wuse) /\ End(wuse) = submitted

\* A slot in use lies within the array (evsrv_conn.c:144-147, 187-190).
QueueFits == wuse <= wlen

\* The write watcher is active exactly as long as data is queued: it is not
\* forgotten, and the loop does not spin on a writable socket
\* (evsrv_conn.c:195, 310-314).
WatcherMatchesQueue == ww <=> wbuf # << >>

\* Nothing the library has freed is read or freed again, and no byte
\* overtakes another (evsrv_conn.c:85-88, 301-326).
NoFault == ~fault

\* A write that is not all written leaves the write timer running
\* (evsrv_conn.c:327-329: "written not all, so restart timer").
PartialWriteRestartsTimer ==
  [][ WriteTimeout > 0 /\ sent' > sent /\ wbuf # << >> /\ wbuf' # << >>
        => tww' = "active" ]_vars

Stream == INSTANCE ByteStream
            WITH up <- open, accepted <- submitted, delivered <- sent, busy <- ww

\* The write path is a byte stream: in order, without a gap, idle only when
\* all is delivered, and delivering everything while the connection is open
\* (evsrv_conn.c:139-199, 260-354).
ImplementsStream == Stream!Spec
=============================================================================
