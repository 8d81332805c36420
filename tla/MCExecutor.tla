------------------------------ MODULE MCExecutor ------------------------------
(* An adapter whose token changes its transfer fee, and messages with and
   without a compose message from two successive applications. *)
EXTENDS Executor

MCNone == {}
MCNoFees == {0}
MCTransferFees == [Adapter |-> {[bps |-> 0, maximum |-> 0], [bps |-> 1, maximum |-> 2]}]
===============================================================================
