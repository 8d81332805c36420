------------------------------- MODULE MCBridge -------------------------------
(* Bridges of one user and one remote chain with two successive applications,
   whose messages are few enough to try every order of delivery. *)
EXTENDS Bridge

MCNone == {}
MCFees == {0, 2}
MCTransferFees ==
  [Native |-> {[bps |-> 0, maximum |-> 0]},
   Adapter |-> {[bps |-> 0, maximum |-> 0], [bps |-> 1, maximum |-> 2]}]
MCMintAuthorities == {"oft_store", "other", None}
===============================================================================
