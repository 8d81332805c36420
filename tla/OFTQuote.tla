------------------------------- MODULE OFTQuote -------------------------------
(***************************************************************************)
(* quote_oft and the send that follows it.  A user reads what a transfer   *)
(* would cost, and sends later with the quoted amount as its slippage      *)
(* bound; the sending task of this repository quotes the message fee       *)
(* instead (quote_send), and sends with a bound of its own.  Between the   *)
(* two the admin may change either OFT fee, and the epoch may bring        *)
(* another Token-2022 transfer fee, so the send computes its amounts from  *)
(* a state the quote has not seen.                                         *)
(***************************************************************************)
EXTENDS OFTAmounts

CONSTANTS
  Amounts,        \* the amounts a user asks to send
  FeeChoices,     \* the OFT fees an admin may choose
  TransferFees    \* the transfer fees the token may have

ASSUME QuoteInputsAssumption ==
  /\ Amounts \subseteq U64Values
  /\ FeeChoices \subseteq FeeBps
  /\ TransferFees \subseteq TransferFee

VARIABLES
  oft_type,          \* OFTStore.oft_type: "Native" or "Adapter"
  default_fee_bps,   \* OFTStore.default_fee_bps
  fee_bps,           \* PeerConfig.fee_bps
  transfer_fee,      \* the token's transfer fee in this epoch
  quote,             \* the last QuoteOFTResult, with the amount it was for
  task,              \* the amount whose message fee lz:oft:solana:send has quoted, or None
  sale               \* what the last step sent, with what the token program did

vars == <<oft_type, default_fee_bps, fee_bps, transfer_fee, quote, task, sale>>

Receipt(amount_ld) ==
  ComputeFeeAndAdjustAmount(oft_type, transfer_fee, amount_ld, default_fee_bps, fee_bps)

(* The two entries of oft_fee_details; an entry the code leaves out is 0. *)
TransferFeeDetail_ForgetsOftFee(r) == r.sent - r.received

TransferFeeDetail(r) ==
  IF r.received + r.fee < r.sent THEN r.sent - r.fee - r.received ELSE 0

CrossChainFeeDetail(r) == r.fee

(* What the escrow is credited with: an adapter transfers all it debits, a
   native OFT the fee. *)
Escrowed(r) == PostFeeAmount(transfer_fee, IF oft_type = "Adapter" THEN r.sent ELSE r.fee)

Init ==
  /\ oft_type \in {"Native", "Adapter"}
  /\ default_fee_bps = 0
  /\ fee_bps = None
  /\ transfer_fee \in TransferFees
  /\ quote = None
  /\ task = None
  /\ sale = None

-------------------------------------------------------------------------------
(* The admin and the token's fee authority. *)

SetDefaultFee(bps) ==
  /\ default_fee_bps' = bps
  /\ sale' = None
  /\ UNCHANGED <<oft_type, fee_bps, transfer_fee, quote, task>>

SetPeerFee(bps) ==
  /\ fee_bps' = bps
  /\ sale' = None
  /\ UNCHANGED <<oft_type, default_fee_bps, transfer_fee, quote, task>>

NewEpochFee(fee) ==
  /\ transfer_fee' = fee
  /\ sale' = None
  /\ UNCHANGED <<oft_type, default_fee_bps, fee_bps, quote, task>>

-------------------------------------------------------------------------------
(* quote_oft with no bound of its own. *)
QuoteOft(amount_ld) ==
  LET r == Receipt(amount_ld) IN
  /\ quote' = [amount_ld    |-> amount_ld,
               sent         |-> r.sent,
               received     |-> r.received,
               transfer_fee |-> TransferFeeDetail(r),
               oft_fee      |-> CrossChainFeeDetail(r)]
  /\ sale' = None
  /\ UNCHANGED <<oft_type, default_fee_bps, fee_bps, transfer_fee, task>>

WithinSlippage_IgnoresOftFee(r, min_amount_ld) == r.received + r.fee >= min_amount_ld

WithinSlippage(r, min_amount_ld) == r.received >= min_amount_ld

(* send: the amounts are computed again, and only the bound ties them to what
   was quoted. *)
Sell(by, amount_ld, min_amount_ld) ==
  LET r == Receipt(amount_ld) IN
  /\ WithinSlippage(r, min_amount_ld)
  /\ sale' = [by |-> by, amount_ld |-> amount_ld, sent |-> r.sent, received |-> r.received,
              fee |-> r.fee, escrowed |-> Escrowed(r)]

Send ==
  /\ quote # None
  /\ Sell("user", quote.amount_ld, quote.received)
  /\ UNCHANGED <<oft_type, default_fee_bps, fee_bps, transfer_fee, quote, task>>

-------------------------------------------------------------------------------
(* lz:oft:solana:send.  That the wallet holds the amount is left to the token
   program, which checks it again. *)

TaskQuoteMin_None == 0

(* The bound of the quote and that of the send, nine tenths rounded down. *)
TaskQuoteMin == 1

TaskSendMin(amount_ld) == (amount_ld * 9) \div 10

(* quote_send fails under the same conditions as send. *)
TaskQuote(amount_ld) ==
  /\ task = None
  /\ amount_ld # 0
  /\ WithinSlippage(Receipt(amount_ld), TaskQuoteMin)
  /\ task' = amount_ld
  /\ sale' = None
  /\ UNCHANGED <<oft_type, default_fee_bps, fee_bps, transfer_fee, quote>>

TaskSend ==
  /\ task # None
  /\ Sell("task", task, TaskSendMin(task))
  /\ task' = None
  /\ UNCHANGED <<oft_type, default_fee_bps, fee_bps, transfer_fee, quote>>

(* The send fails, or the task is broken off. *)
TaskEnds ==
  /\ task # None
  /\ task' = None
  /\ sale' = None
  /\ UNCHANGED <<oft_type, default_fee_bps, fee_bps, transfer_fee, quote>>

Next ==
  \/ \E bps \in FeeChoices : SetDefaultFee(bps)
  \/ \E bps \in FeeChoices \cup {None} : SetPeerFee(bps)
  \/ \E fee \in TransferFees : NewEpochFee(fee)
  \/ \E amount_ld \in Amounts : QuoteOft(amount_ld)
  \/ Send
  \/ \E amount_ld \in Amounts : TaskQuote(amount_ld)
  \/ TaskSend
  \/ TaskEnds

Spec == Init /\ [][Next]_vars

-------------------------------------------------------------------------------
TypeOK ==
  /\ oft_type \in {"Native", "Adapter"}
  /\ default_fee_bps \in FeeBps
  /\ fee_bps \in FeeBps \cup {None}
  /\ transfer_fee \in TransferFee
  /\ quote = None \/ quote \in
       [amount_ld : U64Values, sent : U64Values, received : U64Values, transfer_fee : U64Values, oft_fee : U64Values]
  /\ task \in U64Values \cup {None}
  /\ sale = None \/ sale \in
       [by : {"user", "task"}, amount_ld : U64Values, sent : U64Values, received : U64Values,
        fee : U64Values, escrowed : U64Values]

(* Whatever the admin or the epoch changed after the quote, a send that goes
   through delivers at least the quoted amount and debits no more than the
   user asked to send (send.rs checks min_amount_ld against the amount the
   message carries). *)
SlippageProtectsSender ==
  sale # None => /\ sale.sent <= sale.amount_ld
                 /\ sale.by = "user" => sale.received >= quote.received

(* The sending task never bridges nothing (sendOFT.ts rejects an amount of 0):
   a small amount is dust, and the bound of its send rounds down to nothing,
   but then its quote has failed, whatever changed between the two. *)
TaskSendsValue == sale # None /\ sale.by = "task" => sale.received > 0

(* What the user reads adds up: the fee entries of a quote explain exactly
   the difference between what is debited and what arrives. *)
QuoteAddsUp ==
  quote # None => quote.sent = quote.received + quote.transfer_fee + quote.oft_fee

(* No value is lost between decimals: the amount a message carries survives
   the conversion to shared decimals and back, and so does the fee. *)
NoDustCrosses ==
  sale # None => /\ Sd2ld(Ld2sd(sale.received)) = sale.received
                 /\ Sd2ld(Ld2sd(sale.fee)) = sale.fee

(* An adapter's escrow is credited with exactly what tvl_ld grows by plus the
   OFT fee, although the token withheld a fee on the way in: the amount sent
   is the exact inverse of the transfer fee. *)
EscrowGetsExactly ==
  sale # None /\ oft_type = "Adapter" => sale.escrowed = sale.received + sale.fee

(* calculate_pre_fee_amount answers the least amount whose transfer credits
   at least the wanted amount (its comment: "the amount_sent_ld necessary to
   receive amount_received_ld"), whatever the fee and its cap. *)
PreFeeIsLeast ==
  \A wanted \in Amounts :
    LET pre == CalculatePreFeeAmount(transfer_fee, wanted) IN
    /\ PostFeeAmount(transfer_fee, pre) >= wanted
    /\ \A less \in 0..(pre - 1) : PostFeeAmount(transfer_fee, less) < wanted
===============================================================================
