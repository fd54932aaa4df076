------------------------------- MODULE LibEv -------------------------------
(***************************************************************************)
(* The part of libev that libevserver relies on.  libev is external: each  *)
(* operator states the effect of the call on one watcher, as the callers   *)
(* under src/ use it.                                                      *)
(*                                                                         *)
(* libev keeps two things of a watcher: whether it is in the timer heap or *)
(* in the list of its descriptor, and whether its callback is queued for   *)
(* the current iteration.  The watcher has a field for each, active and    *)
(* pending; ev_io_init and ev_timer_init reset the fields only, whatever   *)
(* libev still holds.                                                      *)
(***************************************************************************)
EXTENDS Integers

\* A one-shot timer is "off", "active" (in the heap) or "pending" (expired: out
\* of the heap, its callback queued).  The callback of a "stray" timer is queued
\* too, but a later ev_timer_init has made the timer forget it; "restarted" is
\* a stray timer that is in the heap again.
TimerStates == {"off", "active", "pending", "stray", "restarted"}

\* ev_is_active is false of an expired timer whose callback is queued.
EvIsActive(w) == w \in {"active", "restarted"}

\* Will libev make the callback in this iteration?
IsQueued(w) == w \in {"pending", "stray", "restarted"}

\* ev_timer_init of a timer that is not active
EvTimerInit(w) == IF IsQueued(w) THEN "stray" ELSE "off"

\* ev_timer_start(loop, w)
EvTimerStart(w) == IF IsQueued(w) THEN "restarted" ELSE "active"

\* ev_timer_stop(loop, w): drops the queued callback the timer knows of
EvTimerStop(w) == IF w \in {"stray", "restarted"} THEN "stray" ELSE "off"

\* ev_timer_again(loop, w): a repeating timer is (re)started with its repeat
\* value; a timer whose repeat is zero is stopped if it was active, and is
\* not started if it was not.  The queued callback it knows of is dropped.
EvTimerAgain(w, repeat) ==
  IF repeat > 0 THEN EvTimerStart(EvTimerStop(w)) ELSE EvTimerStop(w)

\* libev takes the callback from its queue to make it.
EvInvoked(w) == IF w = "restarted" THEN "active" ELSE "off"

\* The macro evsrv_stop_timer of common.h: a call of ev_timer_stop guarded
\* by ev_is_active, so a pending timer keeps its queued callback.
StopTimer(w) == IF EvIsActive(w) THEN EvTimerStop(w) ELSE w
-----------------------------------------------------------------------------
\* An I/O watcher is "off", "active" or "lost": ev_io_init has made it forget
\* that it is in the list of its descriptor.  libev goes on calling it.
IoStates == {"off", "active", "lost"}

EvIoInit(w) == IF w = "off" THEN "off" ELSE "lost"

\* ev_io_start of a watcher that is lost enters it in the list a second time.
EvIoStart(w) == "active"
EntersTwice(w) == w = "lost"

\* ev_io_stop, which does nothing unless the watcher is active; therefore also
\* the macro evsrv_stop_io of common.h, which asks ev_is_active first.
StopIo(w) == IF EvIsActive(w) THEN "off" ELSE w
=============================================================================
