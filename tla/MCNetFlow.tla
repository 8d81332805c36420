------------------------------ MODULE MCNetFlow -------------------------------
(* Buckets of three and of the largest capacity, with rates that fill them
   slowly or nearly at once; either may be set alone, and the width is small
   enough to saturate. *)
EXTENDS NetFlow

Params(capacity, rate) == [capacity |-> capacity, refill_per_second |-> rate]

MCAmounts == {1, 3, 7}
MCLimitParams ==
  {None, Params(3, 1), Params(7, 5), Params(3, None), Params(None, 1)}
===============================================================================
