---------------------------- MODULE OFTQuote_proofs ----------------------------
(***************************************************************************)
(* What a quote promises of the send after it, for every token, fee,       *)
(* amount and width, and for any number of changes in between.             *)
(***************************************************************************)
EXTENDS OFTQuote, OFTAmounts_proofs

(* What is true of the amounts of a send computed from any reachable fees. *)
LEMMA ReceiptOK ==
  ASSUME TypeOK, NEW amount_ld \in U64Values
  PROVE  LET r == Receipt(amount_ld)
         IN  /\ r.sent \in Nat /\ r.received \in Nat /\ r.fee \in Nat
             /\ r.sent <= amount_ld
             /\ r.received + r.fee <= r.sent
             /\ oft_type = "Adapter" => PostFeeAmount(transfer_fee, r.sent) = r.received + r.fee
             /\ Sd2ld(Ld2sd(r.received)) = r.received
             /\ Sd2ld(Ld2sd(r.fee)) = r.fee
<1>1. amount_ld \in Nat
  BY U64MaxAssumption DEF U64Values
<1>2. /\ transfer_fee \in TransferFee /\ default_fee_bps \in FeeBps
      /\ fee_bps \in FeeBps \cup {None}
  BY DEF TypeOK
<1>. QED  BY <1>1, <1>2, AmountsOfSend DEF Receipt

(* What any sale is: of amounts that are u64, no more debited than asked for,
   whole shared units carried, and the escrow of an adapter credited with all
   that it accounts for. *)
SaleOK ==
  sale # None =>
    /\ sale \in [by : {"user", "task"}, amount_ld : U64Values, sent : U64Values,
                 received : U64Values, fee : U64Values, escrowed : U64Values]
    /\ sale.sent <= sale.amount_ld
    /\ Sd2ld(Ld2sd(sale.received)) = sale.received
    /\ Sd2ld(Ld2sd(sale.fee)) = sale.fee
    /\ oft_type = "Adapter" => sale.escrowed = sale.received + sale.fee

(* A sale is one whatever it was quoted at. *)
LEMMA SellOK ==
  ASSUME TypeOK, NEW by \in {"user", "task"}, NEW amount_ld \in U64Values, NEW min_amount_ld,
         Sell(by, amount_ld, min_amount_ld), oft_type' = oft_type
  PROVE  SaleOK' /\ sale'.by = by /\ sale'.received >= min_amount_ld
<1>. DEFINE r == Receipt(amount_ld)
            e == Escrowed(r)
            s == [by |-> by, amount_ld |-> amount_ld, sent |-> r.sent, received |-> r.received,
                  fee |-> r.fee, escrowed |-> e]
<1>1. /\ r.sent \in Nat /\ r.received \in Nat /\ r.fee \in Nat
      /\ r.sent <= amount_ld
      /\ r.received + r.fee <= r.sent
      /\ oft_type = "Adapter" => PostFeeAmount(transfer_fee, r.sent) = r.received + r.fee
      /\ Sd2ld(Ld2sd(r.received)) = r.received
      /\ Sd2ld(Ld2sd(r.fee)) = r.fee
  BY ReceiptOK
<1>2. sale' = s /\ r.received >= min_amount_ld
  BY DEF Sell, WithinSlippage
<1>3. amount_ld \in Nat /\ amount_ld <= U64Max /\ U64Max \in Nat
  BY U64MaxAssumption DEF U64Values
<1>4. e \in Nat /\ e <= amount_ld /\ (oft_type = "Adapter" => e = r.received + r.fee)
  <2>1. transfer_fee \in TransferFee
    BY DEF TypeOK
  <2>. DEFINE from == IF oft_type = "Adapter" THEN r.sent ELSE r.fee
  <2>2. from \in Nat /\ from <= amount_ld
    BY <1>1, <1>3
  <2>3. e = PostFeeAmount(transfer_fee, from)
    BY DEF Escrowed
  <2>4. oft_type = "Adapter" => e = r.received + r.fee
    BY <1>1, <2>3
  <2>. HIDE DEF from, e
  <2>5. PostFeeAmount(transfer_fee, from) \in Nat /\ PostFeeAmount(transfer_fee, from) <= from
    BY <2>1, <2>2, AmountsAreNat
  <2>6. e \in Nat /\ e <= from
    BY <2>3, <2>5
  <2>. QED  BY <1>3, <2>2, <2>4, <2>6
<1>. HIDE DEF r, e
<1>5. /\ r.sent \in U64Values /\ r.received \in U64Values /\ r.fee \in U64Values
      /\ e \in U64Values
  BY <1>1, <1>3, <1>4 DEF U64Values
<1>6. /\ s \in [by : {"user", "task"}, amount_ld : U64Values, sent : U64Values,
               received : U64Values, fee : U64Values, escrowed : U64Values]
      /\ s.by = by /\ s.amount_ld = amount_ld /\ s.sent = r.sent
      /\ s.received = r.received /\ s.fee = r.fee /\ s.escrowed = e
  BY <1>5
<1>. HIDE DEF s
<1>. QED  BY <1>1, <1>2, <1>4, <1>6 DEF SaleOK

-------------------------------------------------------------------------------
(* What a quote says adds up. *)
QuoteOK ==
  quote # None =>
    /\ quote \in [amount_ld : U64Values, sent : U64Values, received : U64Values,
                  transfer_fee : U64Values, oft_fee : U64Values]
    /\ quote.sent = quote.received + quote.transfer_fee + quote.oft_fee

(* quote_oft answers amounts that add up. *)
LEMMA QuoteOftOK ==
  ASSUME TypeOK, NEW amount_ld \in U64Values, QuoteOft(amount_ld)
  PROVE  QuoteOK'
<1>. DEFINE r == Receipt(amount_ld)
            detail == TransferFeeDetail(r)
            q == [amount_ld |-> amount_ld, sent |-> r.sent, received |-> r.received,
                  transfer_fee |-> detail, oft_fee |-> r.fee]
<1>1. /\ r.sent \in Nat /\ r.received \in Nat /\ r.fee \in Nat
      /\ r.sent <= amount_ld
      /\ r.received + r.fee <= r.sent
  BY ReceiptOK
<1>2. quote' = q
  BY DEF QuoteOft, CrossChainFeeDetail
<1>3. amount_ld \in Nat /\ amount_ld <= U64Max /\ U64Max \in Nat
  BY U64MaxAssumption DEF U64Values
<1>. HIDE DEF r
<1>4. detail \in Nat /\ detail <= amount_ld /\ r.sent = r.received + detail + r.fee
  BY <1>1, <1>3 DEF TransferFeeDetail
<1>. HIDE DEF detail
<1>5. /\ r.sent \in U64Values /\ r.received \in U64Values /\ r.fee \in U64Values
      /\ detail \in U64Values
  BY <1>1, <1>3, <1>4 DEF U64Values
<1>6. /\ q \in [amount_ld : U64Values, sent : U64Values, received : U64Values,
               transfer_fee : U64Values, oft_fee : U64Values]
      /\ q.sent = r.sent /\ q.received = r.received /\ q.transfer_fee = detail
      /\ q.oft_fee = r.fee
  BY <1>5
<1>. HIDE DEF q
<1>. QED  BY <1>2, <1>4, <1>6 DEF QuoteOK

-------------------------------------------------------------------------------
(* The fees are those of the program and of the token. *)
FeesOK ==
  /\ oft_type \in {"Native", "Adapter"}
  /\ default_fee_bps \in FeeBps
  /\ fee_bps \in FeeBps \cup {None}
  /\ transfer_fee \in TransferFee
  /\ task \in U64Values \cup {None}

(* A user's sale keeps what its quote promised. *)
SaleKeepsQuote == sale # None /\ sale.by = "user" => sale.received >= quote.received

Inv == FeesOK /\ QuoteOK /\ SaleOK /\ SaleKeepsQuote

LEMMA InvTypes == Inv => TypeOK
  BY DEF Inv, FeesOK, QuoteOK, SaleOK, TypeOK

LEMMA InitInv == Init => Inv
  BY OneInBasisPointsAssumption, QuoteInputsAssumption
  DEF Init, Inv, FeesOK, QuoteOK, SaleOK, SaleKeepsQuote, FeeBps

(* Every step keeps the promise: those that change the fees or the quote make
   no sale, and those that make one compare it with the bound. *)
LEMMA NextInv == Inv /\ [Next]_vars => Inv'
<1>. SUFFICES ASSUME Inv, [Next]_vars PROVE Inv'
  OBVIOUS
<1>. USE InvTypes
<1>1. ASSUME NEW bps \in FeeChoices, SetDefaultFee(bps) PROVE Inv'
  BY <1>1, QuoteInputsAssumption DEF SetDefaultFee, Inv, FeesOK, QuoteOK, SaleOK, SaleKeepsQuote
<1>2. ASSUME NEW bps \in FeeChoices \cup {None}, SetPeerFee(bps) PROVE Inv'
  BY <1>2, QuoteInputsAssumption DEF SetPeerFee, Inv, FeesOK, QuoteOK, SaleOK, SaleKeepsQuote
<1>3. ASSUME NEW fee \in TransferFees, NewEpochFee(fee) PROVE Inv'
  BY <1>3, QuoteInputsAssumption DEF NewEpochFee, Inv, FeesOK, QuoteOK, SaleOK, SaleKeepsQuote
<1>4. ASSUME NEW amount_ld \in Amounts, QuoteOft(amount_ld) PROVE Inv'
  <2>1. QuoteOK'
    BY <1>4, QuoteOftOK, QuoteInputsAssumption
  <2>2. sale' = None /\ UNCHANGED <<oft_type, default_fee_bps, fee_bps, transfer_fee, task>>
    BY <1>4 DEF QuoteOft
  <2>. QED  BY <2>1, <2>2 DEF Inv, FeesOK, SaleOK, SaleKeepsQuote
<1>5. ASSUME Send PROVE Inv'
  <2>1. quote # None /\ Sell("user", quote.amount_ld, quote.received)
    BY <1>5 DEF Send
  <2>2. UNCHANGED <<oft_type, default_fee_bps, fee_bps, transfer_fee, quote, task>>
    BY <1>5 DEF Send
  <2>3. quote.amount_ld \in U64Values
    BY <2>1 DEF Inv, QuoteOK
  <2>4. SaleOK' /\ sale'.received >= quote.received
    BY <2>1, <2>2, <2>3, SellOK
  <2>. QED  BY <2>2, <2>4 DEF Inv, FeesOK, QuoteOK, SaleKeepsQuote
<1>6. ASSUME NEW amount_ld \in Amounts, TaskQuote(amount_ld) PROVE Inv'
  BY <1>6, QuoteInputsAssumption DEF TaskQuote, Inv, FeesOK, QuoteOK, SaleOK, SaleKeepsQuote
<1>7. ASSUME TaskSend PROVE Inv'
  <2>1. task # None /\ Sell("task", task, TaskSendMin(task)) /\ task' = None
    BY <1>7 DEF TaskSend
  <2>2. UNCHANGED <<oft_type, default_fee_bps, fee_bps, transfer_fee, quote>>
    BY <1>7 DEF TaskSend
  <2>3. task \in U64Values
    BY <2>1 DEF Inv, FeesOK
  <2>4. SaleOK' /\ sale'.by = "task"
    BY <2>1, <2>2, <2>3, SellOK
  <2>. QED  BY <2>1, <2>2, <2>4 DEF Inv, FeesOK, QuoteOK, SaleKeepsQuote
<1>8. ASSUME TaskEnds PROVE Inv'
  BY <1>8 DEF TaskEnds, Inv, FeesOK, QuoteOK, SaleOK, SaleKeepsQuote
<1>9. ASSUME UNCHANGED vars PROVE Inv'
  BY <1>9 DEF vars, Inv, FeesOK, QuoteOK, SaleOK, SaleKeepsQuote
<1>. QED  BY <1>1, <1>2, <1>3, <1>4, <1>5, <1>6, <1>7, <1>8, <1>9 DEF Next

(* The invariant holds for ever. *)
LEMMA Invariance == Spec => []Inv
  BY InitInv, NextInv, PTL DEF Spec

(* Every reachable quote and sale is of u64 amounts: for an amount that is one,
   nothing that is computed of it leaves u64. *)
THEOREM QuoteTypes == Spec => []TypeOK
  BY Invariance, InvTypes, PTL

(* The slippage bound protects the sender from any change after the quote, and
   no send debits more than it was asked to. *)
THEOREM SlippageAlwaysProtects == Spec => []SlippageProtectsSender
<1>1. Inv => SlippageProtectsSender
  BY DEF Inv, SaleOK, SaleKeepsQuote, SlippageProtectsSender
<1>. QED  BY <1>1, Invariance, PTL

(* The entries of a quote always explain what is debited. *)
THEOREM QuoteAlwaysAddsUp == Spec => []QuoteAddsUp
<1>1. Inv => QuoteAddsUp
  BY DEF Inv, QuoteOK, QuoteAddsUp
<1>. QED  BY <1>1, Invariance, PTL

(* No dust ever crosses. *)
THEOREM DustNeverCrosses == Spec => []NoDustCrosses
<1>1. Inv => NoDustCrosses
  BY DEF Inv, SaleOK, NoDustCrosses
<1>. QED  BY <1>1, Invariance, PTL

(* The escrow of an adapter is always credited with exactly the value and the
   fee that the program accounts for. *)
THEOREM EscrowAlwaysGetsExactly == Spec => []EscrowGetsExactly
<1>1. Inv => EscrowGetsExactly
  BY DEF Inv, SaleOK, EscrowGetsExactly
<1>. QED  BY <1>1, Invariance, PTL

-------------------------------------------------------------------------------
(* The amount that calculate_pre_fee_amount answers is the least one, whatever
   the transfer fee of the epoch. *)
THEOREM PreFeeIsAlwaysLeast == Spec => []PreFeeIsLeast
<1>1. Inv => PreFeeIsLeast
  <2>. SUFFICES ASSUME Inv, NEW wanted \in Amounts
                PROVE  LET pre == CalculatePreFeeAmount(transfer_fee, wanted) IN
                       /\ PostFeeAmount(transfer_fee, pre) >= wanted
                       /\ \A less \in 0..(pre - 1) : PostFeeAmount(transfer_fee, less) < wanted
    BY DEF PreFeeIsLeast
  <2>. DEFINE pre == CalculatePreFeeAmount(transfer_fee, wanted)
  <2>1. transfer_fee \in TransferFee /\ wanted \in Nat
    BY QuoteInputsAssumption, U64MaxAssumption DEF Inv, FeesOK, U64Values
  <2>2. pre \in Nat /\ PostFeeAmount(transfer_fee, pre) = wanted
    BY <2>1, PostFeeOfPreFee
  <2>3. ASSUME NEW less \in 0..(pre - 1) PROVE PostFeeAmount(transfer_fee, less) < wanted
    <3>. HIDE DEF pre
    <3>1. less \in Nat /\ less < pre
      BY <2>2
    <3>2. PostFeeAmount(transfer_fee, less) \in Nat
      BY <2>1, <3>1, AmountsAreNat
    <3>3. PostFeeAmount(transfer_fee, less) >= wanted => pre <= less
      BY <2>1, <3>1, PreFeeIsSmallest DEF pre
    <3>. QED  BY <2>1, <2>2, <3>1, <3>2, <3>3
  <2>. QED  BY <2>1, <2>2, <2>3
<1>. QED  BY <1>1, Invariance, PTL

-------------------------------------------------------------------------------
(* The sending task: what its quote let through is more than a single unit,
   so that nine tenths of it are not nothing. *)
TaskOK == task # None => task >= 2

LEMMA TaskStep ==
  ASSUME Ld2sdRate > 1, Inv, TaskOK, TaskSendsValue, [Next]_vars
  PROVE  TaskOK' /\ TaskSendsValue'
<1>. USE InvTypes
<1>1. ASSUME NEW amount_ld \in Amounts, TaskQuote(amount_ld) PROVE TaskOK' /\ TaskSendsValue'
  <2>. DEFINE r == Receipt(amount_ld)
              sd == Ld2sd(r.received)
  <2>1. /\ r.received \in Nat /\ r.received <= amount_ld /\ Sd2ld(sd) = r.received
        /\ amount_ld \in Nat
    <3>1. amount_ld \in U64Values /\ amount_ld \in Nat
      BY QuoteInputsAssumption, U64MaxAssumption DEF U64Values
    <3>2. /\ r.sent \in Nat /\ r.received \in Nat /\ r.fee \in Nat
          /\ r.sent <= amount_ld /\ r.received + r.fee <= r.sent /\ Sd2ld(sd) = r.received
      BY <3>1, ReceiptOK
    <3>. QED  BY <3>1, <3>2
  <2>2. r.received >= 1
    BY <1>1 DEF TaskQuote, WithinSlippage, TaskQuoteMin
  <2>. HIDE DEF r
  <2>3. sd \in Nat /\ sd * Ld2sdRate = r.received
    BY <2>1, DivBounds, Ld2sdRateAssumption DEF Ld2sd, Sd2ld
  <2>. HIDE DEF sd
  <2>4. sd # 0
    BY <2>2, <2>3, Ld2sdRateAssumption
  <2>5. sd * Ld2sdRate >= Ld2sdRate
    BY <2>3, <2>4, Ld2sdRateAssumption
  <2>6. amount_ld >= 2
    BY <2>1, <2>3, <2>5, Ld2sdRateAssumption
  <2>. QED  BY <1>1, <2>6 DEF TaskQuote, TaskOK, TaskSendsValue
<1>2. ASSUME TaskSend PROVE TaskOK' /\ TaskSendsValue'
  <2>1. task # None /\ Sell("task", task, TaskSendMin(task)) /\ task' = None /\ oft_type' = oft_type
    BY <1>2 DEF TaskSend
  <2>2. task \in U64Values /\ task \in Nat /\ task >= 2
    BY <2>1, U64MaxAssumption DEF Inv, FeesOK, TaskOK, U64Values
  <2>3. SaleOK' /\ sale'.received >= TaskSendMin(task)
    BY <2>1, <2>2, SellOK
  <2>4. TaskSendMin(task) \in Nat /\ TaskSendMin(task) >= 1
    <3>. DEFINE w == task * 9
    <3>1. w \in Nat /\ w >= 18
      BY <2>2
    <3>. HIDE DEF w
    <3>2. w \div 10 \in Nat /\ w < (w \div 10) * 10 + 10
      BY <3>1, DivBounds
    <3>3. w \div 10 >= 1
      BY <3>1, <3>2
    <3>. QED  BY <3>2, <3>3 DEF TaskSendMin, w
  <2>5. sale' # None => sale'.received \in Nat
    BY <2>3, U64MaxAssumption DEF SaleOK, U64Values
  <2>. QED  BY <2>1, <2>3, <2>4, <2>5 DEF TaskOK, TaskSendsValue
<1>3. ASSUME Send PROVE TaskOK' /\ TaskSendsValue'
  <2>1. quote # None /\ Sell("user", quote.amount_ld, quote.received) /\ UNCHANGED <<task, oft_type>>
    BY <1>3 DEF Send
  <2>2. quote.amount_ld \in U64Values
    BY <2>1 DEF Inv, QuoteOK
  <2>3. sale'.by = "user"
    BY <2>1, <2>2, SellOK
  <2>. QED  BY <2>1, <2>3 DEF TaskOK, TaskSendsValue
<1>4. ASSUME \/ \E bps \in FeeChoices : SetDefaultFee(bps)
             \/ \E bps \in FeeChoices \cup {None} : SetPeerFee(bps)
             \/ \E fee \in TransferFees : NewEpochFee(fee)
             \/ \E amount_ld \in Amounts : QuoteOft(amount_ld)
             \/ TaskEnds
      PROVE  TaskOK' /\ TaskSendsValue'
  <2>1. task' \in {task, None} /\ sale' = None
    BY <1>4 DEF SetDefaultFee, SetPeerFee, NewEpochFee, QuoteOft, TaskEnds
  <2>. QED  BY <2>1 DEF TaskOK, TaskSendsValue
<1>5. ASSUME UNCHANGED vars PROVE TaskOK' /\ TaskSendsValue'
  BY <1>5 DEF vars, TaskOK, TaskSendsValue
<1>. QED  BY <1>1, <1>2, <1>3, <1>4, <1>5 DEF Next

(* Where a shared unit is more than one local unit (10^3 of them by the
   defaults of createOFT), the sending task never bridges nothing, for any
   amount and whatever changed between its quote and its send. *)
THEOREM TaskAlwaysSendsValue ==
  ASSUME Ld2sdRate > 1
  PROVE  Spec => []TaskSendsValue
<1>1. Init => TaskOK /\ TaskSendsValue
  BY DEF Init, TaskOK, TaskSendsValue
<1>2. Inv /\ TaskOK /\ TaskSendsValue /\ [Next]_vars => TaskOK' /\ TaskSendsValue'
  BY TaskStep
<1>. QED  BY <1>1, <1>2, Invariance, PTL DEF Spec
===============================================================================
