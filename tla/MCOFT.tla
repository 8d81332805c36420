-------------------------------- MODULE MCOFT --------------------------------
(* A small instance of OFT, of both types.  Two local units make one shared
   unit, and fees are in quarters. *)
EXTENDS OFT

MCFees == {0, 2}
(* Of an adapter: a transfer fee that its cap bounds, and one that takes
   everything. *)
MCTransferFees ==
  [Native  |-> {[bps |-> 0, maximum |-> 0]},
   Adapter |-> {[bps |-> 1, maximum |-> 2], [bps |-> 4, maximum |-> 1]}]
MCLimits == {[capacity |-> 4, refill_per_second |-> 2], None}
MCMintAuthorities == {"oft_store", "multisig", "other", None}
===============================================================================
