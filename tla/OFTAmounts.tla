------------------------------ MODULE OFTAmounts ------------------------------
(***************************************************************************)
(* The arithmetic of the OFT202 program: local and shared decimals, dust,  *)
(* the OFT fee, and the Token-2022 transfer fee that an adapter's token    *)
(* may charge on every transfer.                                           *)
(*                                                                         *)
(* "ld" amounts are in the token's local decimals, "sd" amounts in the     *)
(* decimals all chains share.  Amounts are u64 in the code; the release    *)
(* profile keeps overflow-checks on, so an operation whose result leaves   *)
(* 0..U64Max aborts the transaction, and what aborts is written here as a  *)
(* condition on the result.                                                *)
(***************************************************************************)
EXTENDS U64

CONSTANTS
  OneInBasisPoints,  \* the denominator of every fee, 10_000 in the code
  Ld2sdRate          \* 10^(decimals - shared_decimals)

ASSUME OneInBasisPointsAssumption == OneInBasisPoints \in Nat \ {0}
ASSUME Ld2sdRateAssumption == Ld2sdRate \in Nat \ {0}

(* A fee an admin may set: strictly below 100% (set_oft_config, set_peer_config). *)
FeeBps == 0..(OneInBasisPoints - 1)

(* The transfer fee of the current epoch.  A mint without the extension is
   one whose fee is 0 basis points. *)
TransferFee == [bps : 0..OneInBasisPoints, maximum : U64Values]

CeilDiv(numerator, denominator) == (numerator + denominator - 1) \div denominator

-------------------------------------------------------------------------------
(* OFTStore *)

Ld2sd(amount_ld) == amount_ld \div Ld2sdRate

Sd2ld(amount_sd) == amount_sd * Ld2sdRate

RemoveDust_Keeps(amount_ld) == amount_ld

RemoveDust(amount_ld) == amount_ld - (amount_ld % Ld2sdRate)

-------------------------------------------------------------------------------
(* Token-2022 (external): what a transfer of an amount withholds, and what
   its destination is credited with. *)

WithheldFee(fee, amount_ld) ==
  IF fee.bps = 0 \/ amount_ld = 0
  THEN 0
  ELSE Lesser(CeilDiv(amount_ld * fee.bps, OneInBasisPoints), fee.maximum)

PostFeeAmount(fee, amount_ld) == amount_ld - WithheldFee(fee, amount_ld)

-------------------------------------------------------------------------------
(* The smallest amount the proportional part of the fee asks for, rounded
   up; the cap on the fee is applied by CalculatePreFeeAmount. *)
RawPreFee_RoundsDown(fee, post_fee_amount) ==
  (post_fee_amount * OneInBasisPoints) \div (OneInBasisPoints - fee.bps)

RawPreFee(fee, post_fee_amount) ==
  CeilDiv(post_fee_amount * OneInBasisPoints, OneInBasisPoints - fee.bps)

CalculatePreFeeAmount_NeverCapped(fee, post_fee_amount) ==
  CASE fee.bps = 0 -> post_fee_amount
    [] fee.bps # 0 /\ post_fee_amount = 0 -> 0
    [] fee.bps = OneInBasisPoints /\ post_fee_amount # 0 -> post_fee_amount + fee.maximum
    [] OTHER -> RawPreFee(fee, post_fee_amount)

(* calculate_pre_fee_amount.  The code answers None, and the transaction
   aborts, exactly when this exceeds U64Max. *)
CalculatePreFeeAmount(fee, post_fee_amount) ==
  CASE fee.bps = 0 -> post_fee_amount
    [] fee.bps # 0 /\ post_fee_amount = 0 -> 0
    [] fee.bps = OneInBasisPoints /\ post_fee_amount # 0 -> post_fee_amount + fee.maximum
    [] OTHER -> Lesser(RawPreFee(fee, post_fee_amount), post_fee_amount + fee.maximum)

-------------------------------------------------------------------------------
(* The peer's fee replaces the default one, also when it is 0. *)
FinalFeeBps(default_fee_bps, fee_bps) ==
  IF fee_bps = None THEN default_fee_bps ELSE fee_bps

CalculateFee_Unscaled(pre_fee_amount, default_fee_bps, fee_bps) ==
  pre_fee_amount * FinalFeeBps(default_fee_bps, fee_bps)

CalculateFee(pre_fee_amount, default_fee_bps, fee_bps) ==
  (pre_fee_amount * FinalFeeBps(default_fee_bps, fee_bps)) \div OneInBasisPoints

(* What an amount is reduced to before the OFT fee: whole shared units that
   the escrow is sure to get, or, for a native OFT, that are burnt. *)
BridgedBeforeFee(oft_type, fee, amount_ld) ==
  IF oft_type = "Adapter" THEN RemoveDust(PostFeeAmount(fee, amount_ld))
                          ELSE RemoveDust(amount_ld)

OftFee(before_fee, default_fee_bps, fee_bps) ==
  RemoveDust(CalculateFee(before_fee, default_fee_bps, fee_bps))

AmountSent(oft_type, fee, before_fee) ==
  IF oft_type = "Adapter" THEN CalculatePreFeeAmount(fee, before_fee) ELSE before_fee

(* compute_fee_and_adjust_amount: what leaves the sender, what the message
   carries, and what stays behind as the fee. *)
ComputeFeeAndAdjustAmount(oft_type, fee, amount_ld, default_fee_bps, fee_bps) ==
  LET before  == BridgedBeforeFee(oft_type, fee, amount_ld)
      oft_fee == OftFee(before, default_fee_bps, fee_bps)
  IN  [sent     |-> AmountSent(oft_type, fee, before),
       received |-> before - oft_fee,
       fee      |-> oft_fee]
===============================================================================
