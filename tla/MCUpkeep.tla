------------------------------- MODULE MCUpkeep -------------------------------
(* A small instance of Upkeep.                                                *)
EXTENDS Upkeep

\* A clock that is fast, one that is right, and one more than Cap behind.
MCDelays == {-1, 0, 3}
=============================================================================
