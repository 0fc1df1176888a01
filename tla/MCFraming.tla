------------------------------ MODULE MCFraming ------------------------------
(***************************************************************************)
(* Small instances of Framing for TLC.                                     *)
(***************************************************************************)
EXTENDS Framing, TLC

CONSTANTS c1, c2, r1, r2, p1, p2

\* One body is longer than the others.
Sizes == [m \in Messages |-> IF m = r1 THEN 2 ELSE 1]
=============================================================================
