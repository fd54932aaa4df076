----------------------------- MODULE ByteStream -----------------------------
(***************************************************************************)
(* What the write path of a connection promises its user: the peer gets    *)
(* the bytes accepted so far, in order and without a gap, a sender is busy *)
(* exactly while some are missing, and while the stream is up it delivers  *)
(* them all.                                                               *)
(***************************************************************************)
EXTENDS Naturals

VARIABLES
  up,         \* the stream is open
  accepted,   \* bytes taken from the user
  delivered,  \* the peer has exactly the first delivered of them
  busy        \* a sender is at work

vars == << up, accepted, delivered, busy >>

Init == up = TRUE /\ accepted = 0 /\ delivered = 0 /\ busy = FALSE

\* Bytes are accepted; only an idle stream may deliver some of them at once.
Accept ==
  /\ up
  /\ accepted' > accepted
  /\ delivered' \in delivered .. (IF busy THEN delivered ELSE accepted')
  /\ busy' = (delivered' # accepted')
  /\ UNCHANGED up

Deliver ==
  /\ up /\ busy
  /\ delivered' \in delivered + 1 .. accepted
  /\ busy' = (delivered' # accepted)
  /\ UNCHANGED << up, accepted >>

\* What has not been delivered never will be.
Close ==
  /\ up
  /\ up' = FALSE /\ busy' = FALSE
  /\ accepted' >= accepted
  /\ delivered' \in delivered .. accepted
  /\ delivered' > delivered => busy

Next == Accept \/ Deliver \/ Close

Spec == Init /\ [][Next]_vars /\ WF_vars(Deliver)
=============================================================================
