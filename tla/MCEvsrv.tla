------------------------------ MODULE MCEvsrv ------------------------------
(* Values of the constants of Evsrv for model checking.                    *)
EXTENDS Evsrv

CONSTANTS c1, c2, c3

TwoConns == {c1, c2}
ThreeConns == {c1, c2, c3}
=============================================================================
