------------------------------ MODULE MCOFTQuote ------------------------------
(* A small instance of OFTQuote: fees in tenths, two local units per shared
   unit, and every transfer fee from none to all of the amount with a cap
   that binds, one that does not, and none of the amount. *)
EXTENDS OFTQuote

MCAmounts == 0..13
MCFeeChoices == {0, 3, 9}
MCTransferFees == [bps : {0, 3, 10}, maximum : {0, 2, 40}]
===============================================================================
