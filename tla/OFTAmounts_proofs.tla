-------------------------- MODULE OFTAmounts_proofs --------------------------
(* The transfer fee and its inverse, for every width, rate, fee and amount;
   and the sums of amounts over finite sets. *)
EXTENDS OFTAmounts, FiniteSetsExt, FiniteSetTheorems, TLAPS

(* Euclidean division, as the inequalities the provers can use. *)
LEMMA DivBounds ==
  ASSUME NEW a \in Nat, NEW b \in Nat \ {0}
  PROVE  /\ a \div b \in Nat
         /\ (a \div b) * b <= a
         /\ a < (a \div b) * b + b
<1>1. a \div b \in Int /\ a % b \in 0..(b - 1) /\ a = b * (a \div b) + (a % b)
  OBVIOUS
<1>2. a \div b >= 0
  BY <1>1
<1>. QED  BY <1>1, <1>2

(* ceil_div rounds up by less than one denominator. *)
LEMMA CeilDivBounds ==
  ASSUME NEW a \in Nat, NEW b \in Nat \ {0}
  PROVE  /\ CeilDiv(a, b) \in Nat
         /\ a <= CeilDiv(a, b) * b
         /\ CeilDiv(a, b) * b < a + b
<1>. a + b - 1 \in Nat
  OBVIOUS
<1>. QED  BY DivBounds DEF CeilDiv

(* A common positive factor cancels from an inequality. *)
LEMMA CancelFactor ==
  ASSUME NEW a \in Int, NEW b \in Int, NEW n \in Nat \ {0}
  PROVE  /\ a * n < b * n => a < b
         /\ a * n <= b * n => a <= b
<1>1. ASSUME b <= a PROVE b * n <= a * n
  BY <1>1
<1>2. ASSUME b < a PROVE b * n < a * n
  BY <1>2
<1>. QED  BY <1>1, <1>2

(* The quotient that rounds a / n up is the only integer q with
   (q - 1) * n < a <= q * n. *)
LEMMA CeilDivUnique ==
  ASSUME NEW a \in Nat, NEW n \in Nat \ {0}, NEW q \in Int,
         a <= q * n, (q - 1) * n < a
  PROVE  CeilDiv(a, n) = q
<1>. DEFINE c == CeilDiv(a, n)
<1>1. c \in Nat /\ a <= c * n /\ c * n < a + n
  BY CeilDivBounds
<1>2. (c - 1) * n = c * n - n /\ (q - 1) * n = q * n - n
  BY <1>1
<1>. HIDE DEF c
<1>3. (c - 1) * n < q * n /\ (q - 1) * n < c * n
  BY <1>1, <1>2
<1>4. c - 1 < q /\ q - 1 < c
  BY <1>1, <1>3, CancelFactor
<1>. QED  BY <1>1, <1>4 DEF c

(* The transfer fee and its inverse are amounts, whatever the fee. *)
LEMMA AmountsAreNat ==
  ASSUME NEW fee \in TransferFee, NEW amount_ld \in Nat
  PROVE  /\ WithheldFee(fee, amount_ld) \in Nat
         /\ WithheldFee(fee, amount_ld) <= amount_ld
         /\ PostFeeAmount(fee, amount_ld) \in Nat
         /\ PostFeeAmount(fee, amount_ld) <= amount_ld
<1>. DEFINE n == OneInBasisPoints
            c == CeilDiv(amount_ld * fee.bps, n)
<1>0. n \in Nat \ {0} /\ fee.bps \in Nat /\ fee.bps <= n /\ fee.maximum \in Nat
  BY OneInBasisPointsAssumption, U64MaxAssumption DEF TransferFee, U64Values
<1>. HIDE DEF n
<1>1. amount_ld * fee.bps \in Nat /\ amount_ld * fee.bps <= amount_ld * n
  BY <1>0
<1>2. c \in Nat /\ c * n < amount_ld * n + n
  <2>. DEFINE w == amount_ld * fee.bps
  <2>1. w \in Nat /\ w <= amount_ld * n
    BY <1>1
  <2>. HIDE DEF w
  <2>2. /\ CeilDiv(w, n) \in Nat
        /\ CeilDiv(w, n) * n < w + n
    BY <1>0, <2>1, CeilDivBounds
  <2>3. CeilDiv(w, n) * n < amount_ld * n + n
    BY <1>0, <2>1, <2>2
  <2>. QED  BY <2>2, <2>3 DEF w, n
<1>3. c < amount_ld + 1
  <2>1. (amount_ld + 1) * n = amount_ld * n + n
    BY <1>0
  <2>. QED  BY <1>0, <1>2, <2>1, CancelFactor
<1>4. WithheldFee(fee, amount_ld) \in Nat /\ WithheldFee(fee, amount_ld) <= amount_ld
  BY <1>0, <1>2, <1>3 DEF WithheldFee, Lesser, n
<1>. QED  BY <1>4 DEF PostFeeAmount

(* calculate_pre_fee_amount inverts the transfer fee exactly: what an adapter
   debits from the sender is credited to its escrow as the amount it wanted,
   for every fee, cap and amount. *)
THEOREM PostFeeOfPreFee ==
  ASSUME NEW fee \in TransferFee, NEW post \in Nat
  PROVE  /\ CalculatePreFeeAmount(fee, post) \in Nat
         /\ PostFeeAmount(fee, CalculatePreFeeAmount(fee, post)) = post
<1>. DEFINE n   == OneInBasisPoints
            bps == fee.bps
            max == fee.maximum
            pre == CalculatePreFeeAmount(fee, post)
<1>0. n \in Nat \ {0} /\ bps \in Nat /\ bps <= n /\ max \in Nat
  BY OneInBasisPointsAssumption, U64MaxAssumption DEF TransferFee, U64Values
<1>1. CASE bps = 0 \/ post = 0
  BY <1>0, <1>1 DEF CalculatePreFeeAmount, PostFeeAmount, WithheldFee
<1>2. CASE bps = n /\ post # 0
  <2>1. pre = post + max
    BY <1>0, <1>2 DEF CalculatePreFeeAmount
  <2>2. CeilDiv((post + max) * n, n) = post + max
    <3>1. ((post + max) - 1) * n < (post + max) * n
      BY <1>0
    <3>. QED  BY <1>0, <3>1, CeilDivUnique
  <2>. QED  BY <1>0, <1>2, <2>1, <2>2 DEF PostFeeAmount, WithheldFee, Lesser
<1>3. CASE 0 < bps /\ bps < n /\ 0 < post
  <2>. DEFINE d   == n - bps
              raw == RawPreFee(fee, post)
              c   == CeilDiv(pre * bps, n)
  <2>1. d \in Nat \ {0} /\ post * n \in Nat
    BY <1>0, <1>3
  <2>2. raw \in Nat /\ post * n <= raw * d /\ raw * d < post * n + d
    BY <2>1, CeilDivBounds DEF RawPreFee
  <2>3. pre = Lesser(raw, post + max)
    BY <1>0, <1>3 DEF CalculatePreFeeAmount
  <2>. HIDE DEF raw, pre
  <2>4. post <= raw
    <3>1. raw * d <= raw * n
      BY <1>0, <1>3, <2>2
    <3>. QED  BY <1>0, <2>1, <2>2, <3>1, CancelFactor
  <2>5. pre \in Nat /\ 0 < pre
    BY <1>0, <1>3, <2>2, <2>3, <2>4 DEF Lesser
  <2>6. c \in Nat /\ pre * bps <= c * n
    <3>. DEFINE w == pre * bps
    <3>1. w \in Nat
      BY <1>0, <2>5
    <3>. HIDE DEF w
    <3>2. CeilDiv(w, n) \in Nat /\ w <= CeilDiv(w, n) * n
      BY <1>0, <3>1, CeilDivBounds
    <3>. QED  BY <3>2 DEF w
  <2>7. CASE raw <= post + max
    <3>1. pre = raw
      BY <1>0, <2>2, <2>3, <2>7 DEF Lesser
    <3>2. raw * d = raw * n - raw * bps
      BY <1>0, <2>2
    <3>3. (raw - post) * n = raw * n - post * n
      BY <1>0, <2>2
    <3>4. raw * bps <= (raw - post) * n
      BY <1>0, <2>2, <3>2, <3>3
    <3>5. ((raw - post) - 1) * n < raw * bps
      <4>1. ((raw - post) - 1) * n = raw * n - post * n - n
        BY <1>0, <2>2
      <4>. QED  BY <1>0, <1>3, <2>1, <2>2, <3>2, <4>1
    <3>6. c = raw - post
      BY <1>0, <2>2, <3>1, <3>4, <3>5, CeilDivUnique
    <3>. QED
      BY <1>0, <1>3, <2>2, <2>5, <2>7, <3>1, <3>6 DEF PostFeeAmount, WithheldFee, Lesser, pre
  <2>8. CASE post + max < raw
    <3>1. pre = post + max
      BY <1>0, <2>2, <2>3, <2>8 DEF Lesser
    <3>2. pre * d <= (raw - 1) * d
      BY <1>0, <2>1, <2>2, <2>8, <3>1
    <3>3. (raw - 1) * d < post * n
      BY <1>0, <2>1, <2>2
    <3>4. pre * d = pre * n - pre * bps
      BY <1>0, <2>5
    <3>5. pre * n = post * n + max * n
      BY <1>0, <3>1
    <3>6. max * n < c * n
      BY <1>0, <2>1, <2>2, <2>5, <2>6, <3>2, <3>3, <3>4, <3>5
    <3>7. max < c
      BY <1>0, <2>6, <3>6, CancelFactor
    <3>. QED
      BY <1>0, <1>3, <2>5, <2>6, <3>1, <3>7 DEF PostFeeAmount, WithheldFee, Lesser, pre
  <2>. QED  BY <1>0, <2>2, <2>7, <2>8
<1>. QED  BY <1>0, <1>1, <1>2, <1>3

-------------------------------------------------------------------------------
(* Removing dust never adds to an amount, nor takes it below zero. *)
LEMMA RemoveDustType ==
  ASSUME NEW amount_ld \in Nat
  PROVE  RemoveDust(amount_ld) \in Nat /\ RemoveDust(amount_ld) <= amount_ld
<1>. DEFINE r == Ld2sdRate
            d == amount_ld % r
<1>1. r \in Nat \ {0}
  BY Ld2sdRateAssumption
<1>2. amount_ld = r * (amount_ld \div r) + d /\ d \in 0..(r - 1) /\ amount_ld \div r \in Int
  BY <1>1
<1>3. amount_ld \div r \in Nat
  BY <1>1, DivBounds
<1>4. r * (amount_ld \div r) \in Nat
  BY <1>1, <1>3
<1>. QED  BY <1>1, <1>2, <1>4 DEF RemoveDust

(* A fee is part of the amount it is taken from: fees are below 100%. *)
LEMMA CalculateFeeType ==
  ASSUME NEW before \in Nat, NEW default_fee_bps \in FeeBps,
         NEW fee_bps \in FeeBps \cup {None}
  PROVE  /\ CalculateFee(before, default_fee_bps, fee_bps) \in Nat
         /\ CalculateFee(before, default_fee_bps, fee_bps) <= before
<1>. DEFINE bps == FinalFeeBps(default_fee_bps, fee_bps)
            n   == OneInBasisPoints
            raw == CalculateFee(before, default_fee_bps, fee_bps)
<1>1. n \in Nat \ {0} /\ bps \in Nat /\ bps <= n
  BY OneInBasisPointsAssumption DEF FeeBps, FinalFeeBps
<1>. HIDE DEF bps, n
<1>. DEFINE w == before * bps
<1>2. w \in Nat /\ w <= before * n
  BY <1>1
<1>. HIDE DEF w
<1>3. w \div n \in Nat /\ (w \div n) * n <= w
  BY <1>1, <1>2, DivBounds
<1>4. (w \div n) * n <= before * n
  BY <1>1, <1>2, <1>3
<1>5. w \div n <= before
  BY <1>1, <1>3, <1>4, CancelFactor
<1>6. raw = w \div n
  BY DEF CalculateFee, w, bps, n
<1>. QED  BY <1>3, <1>5, <1>6 DEF raw

(* So is what is left of it without its dust. *)
LEMMA OftFeeType ==
  ASSUME NEW before \in Nat, NEW default_fee_bps \in FeeBps,
         NEW fee_bps \in FeeBps \cup {None}
  PROVE  /\ OftFee(before, default_fee_bps, fee_bps) \in Nat
         /\ OftFee(before, default_fee_bps, fee_bps) <= before
<1>. DEFINE raw == CalculateFee(before, default_fee_bps, fee_bps)
<1>1. raw \in Nat /\ raw <= before
  BY CalculateFeeType
<1>. HIDE DEF raw
<1>2. RemoveDust(raw) \in Nat /\ RemoveDust(raw) <= raw
  BY <1>1, RemoveDustType
<1>. QED  BY <1>1, <1>2 DEF OftFee, raw

(* Removing dust leaves whole shared units. *)
LEMMA RemoveDustWhole ==
  ASSUME NEW amount_ld \in Nat
  PROVE  \E k \in Nat : RemoveDust(amount_ld) = k * Ld2sdRate
<1>. DEFINE r == Ld2sdRate
            k == amount_ld \div r
<1>1. r \in Nat \ {0}
  BY Ld2sdRateAssumption
<1>2. amount_ld = r * k + (amount_ld % r) /\ amount_ld % r \in 0..(r - 1) /\ k \in Int
  BY <1>1
<1>3. k \in Nat
  BY <1>1, DivBounds
<1>. HIDE DEF k
<1>4. RemoveDust(amount_ld) = k * r
  BY <1>1, <1>2, <1>3 DEF RemoveDust
<1>. QED  BY <1>3, <1>4

(* Whole shared units survive the conversion to shared decimals and back. *)
LEMMA WholeUnitsConvert ==
  ASSUME NEW k \in Nat
  PROVE  Sd2ld(Ld2sd(k * Ld2sdRate)) = k * Ld2sdRate
<1>. DEFINE r == Ld2sdRate
            w == k * r
            q == w \div r
<1>1. r \in Nat \ {0}
  BY Ld2sdRateAssumption
<1>2. w \in Nat
  BY <1>1
<1>. HIDE DEF w
<1>3. q \in Nat /\ q * r <= w /\ w < q * r + r
  BY <1>1, <1>2, DivBounds
<1>. HIDE DEF q
<1>4. q * r <= k * r /\ k * r < (q + 1) * r
  <2>1. (q + 1) * r = q * r + r
    BY <1>1, <1>3
  <2>. QED  BY <1>3, <2>1 DEF w
<1>5. q <= k /\ k < q + 1
  BY <1>1, <1>3, <1>4, CancelFactor
<1>6. q = k
  BY <1>3, <1>5
<1>. QED  BY <1>6 DEF Sd2ld, Ld2sd, q, w

(* calculate_pre_fee_amount answers no more than any amount whose transfer
   would credit enough. *)
LEMMA PreFeeIsSmallest ==
  ASSUME NEW fee \in TransferFee, NEW post \in Nat, NEW amount_ld \in Nat,
         PostFeeAmount(fee, amount_ld) >= post
  PROVE  CalculatePreFeeAmount(fee, post) <= amount_ld
<1>. DEFINE n   == OneInBasisPoints
            bps == fee.bps
            max == fee.maximum
            c   == CeilDiv(amount_ld * bps, n)
<1>0. n \in Nat \ {0} /\ bps \in Nat /\ bps <= n /\ max \in Nat
  BY OneInBasisPointsAssumption, U64MaxAssumption DEF TransferFee, U64Values
<1>1. CASE bps = 0 \/ post = 0
  <2>1. post <= amount_ld
    BY AmountsAreNat
  <2>. QED  BY <1>0, <1>1, <2>1 DEF CalculatePreFeeAmount
<1>2. CASE 0 < bps /\ 0 < post
  <2>1. amount_ld > 0 /\ post <= amount_ld
    BY <1>2, AmountsAreNat
  <2>2. amount_ld - Lesser(c, max) >= post
    BY <1>2, <2>1 DEF PostFeeAmount, WithheldFee
  <2>3. c \in Nat /\ amount_ld * bps <= c * n
    <3>. DEFINE w == amount_ld * bps
    <3>1. w \in Nat
      BY <1>0
    <3>. HIDE DEF w
    <3>2. CeilDiv(w, n) \in Nat /\ w <= CeilDiv(w, n) * n
      BY <1>0, <3>1, CeilDivBounds
    <3>. QED  BY <3>2 DEF w
  <2>. HIDE DEF c
  <2>4. CASE amount_ld - max >= post
    <3>1. post + max <= amount_ld
      BY <1>0, <2>4
    <3>2. CalculatePreFeeAmount(fee, post) \in {post + max, Lesser(RawPreFee(fee, post), post + max)}
      BY <1>0, <1>2 DEF CalculatePreFeeAmount
    <3>3. CASE CalculatePreFeeAmount(fee, post) = post + max
      BY <3>1, <3>3
    <3>4. CASE CalculatePreFeeAmount(fee, post) = Lesser(RawPreFee(fee, post), post + max) /\ bps # n
      <4>1. RawPreFee(fee, post) \in Nat
        <5>1. n - bps \in Nat \ {0} /\ post * n \in Nat
          BY <1>0, <3>4
        <5>. QED  BY <5>1, CeilDivBounds DEF RawPreFee
      <4>. QED  BY <1>0, <3>1, <3>4, <4>1 DEF Lesser
    <3>5. CASE bps = n
      BY <1>2, <3>1, <3>5 DEF CalculatePreFeeAmount
    <3>. QED  BY <3>2, <3>3, <3>4, <3>5
  <2>5. CASE amount_ld - c >= post
    <3>1. (amount_ld - c) * n = amount_ld * n - c * n
      BY <1>0, <2>3
    <3>2. post * n <= (amount_ld - c) * n
      BY <1>0, <2>3, <2>5
    <3>3. post * n <= amount_ld * n - amount_ld * bps
      BY <1>0, <2>3, <3>1, <3>2
    <3>4. bps # n
      <4>1. post * n > 0
        BY <1>0, <1>2
      <4>. QED  BY <1>0, <3>3, <4>1
    <3>. DEFINE d   == n - bps
                raw == RawPreFee(fee, post)
    <3>5. d \in Nat \ {0} /\ post * n \in Nat
      BY <1>0, <3>4
    <3>6. raw \in Nat /\ raw * d < post * n + d
      BY <3>5, CeilDivBounds DEF RawPreFee
    <3>. HIDE DEF raw
    <3>7. amount_ld * d = amount_ld * n - amount_ld * bps
      BY <1>0
    <3>. HIDE DEF d
    <3>8. (amount_ld + 1) * d = amount_ld * d + d
      BY <3>5
    <3>9. raw * d < (amount_ld + 1) * d
      BY <1>0, <3>3, <3>5, <3>6, <3>7, <3>8
    <3>10. raw <= amount_ld
      BY <3>5, <3>6, <3>9, CancelFactor
    <3>11. CalculatePreFeeAmount(fee, post) = Lesser(raw, post + max)
      BY <1>0, <1>2, <3>4 DEF CalculatePreFeeAmount, raw
    <3>. QED  BY <1>0, <3>6, <3>10, <3>11 DEF Lesser
  <2>. QED  BY <1>0, <2>2, <2>3, <2>4, <2>5 DEF Lesser
<1>. QED  BY <1>0, <1>1, <1>2

-------------------------------------------------------------------------------
(* What a send debits, carries and keeps: whole shared units that add up to
   what the escrow of an adapter is credited with, or a native OFT debits, and
   a debit that is no more than the amount asked for. *)
THEOREM AmountsOfSend ==
  ASSUME NEW oft_type, NEW fee \in TransferFee, NEW amount_ld \in Nat,
         NEW default_fee_bps \in FeeBps, NEW fee_bps \in FeeBps \cup {None}
  PROVE  LET r == ComputeFeeAndAdjustAmount(oft_type, fee, amount_ld, default_fee_bps, fee_bps)
         IN  /\ r.sent \in Nat /\ r.received \in Nat /\ r.fee \in Nat
             /\ r.sent <= amount_ld
             /\ r.received + r.fee <= r.sent
             /\ oft_type = "Adapter" => PostFeeAmount(fee, r.sent) = r.received + r.fee
             /\ oft_type # "Adapter" => r.sent = r.received + r.fee
             /\ Sd2ld(Ld2sd(r.received)) = r.received
             /\ Sd2ld(Ld2sd(r.fee)) = r.fee
<1>. DEFINE before  == BridgedBeforeFee(oft_type, fee, amount_ld)
            oft_fee == OftFee(before, default_fee_bps, fee_bps)
            sent    == AmountSent(oft_type, fee, before)
            r == ComputeFeeAndAdjustAmount(oft_type, fee, amount_ld, default_fee_bps, fee_bps)
            credited == PostFeeAmount(fee, amount_ld)
<1>0. credited \in Nat /\ credited <= amount_ld
  BY AmountsAreNat
<1>1. /\ before \in Nat
      /\ before <= IF oft_type = "Adapter" THEN credited ELSE amount_ld
      /\ \E k \in Nat : before = k * Ld2sdRate
  <2>1. CASE oft_type = "Adapter"
    BY <1>0, <2>1, RemoveDustType, RemoveDustWhole DEF BridgedBeforeFee
  <2>2. CASE oft_type # "Adapter"
    BY <2>2, RemoveDustType, RemoveDustWhole DEF BridgedBeforeFee
  <2>. QED  BY <2>1, <2>2
<1>2. r = [sent |-> sent, received |-> before - oft_fee, fee |-> oft_fee]
  BY DEF ComputeFeeAndAdjustAmount
<1>. HIDE DEF before, r
<1>3. oft_fee \in Nat /\ oft_fee <= before
  BY <1>1, OftFeeType
<1>4. \E k \in Nat : oft_fee = k * Ld2sdRate
  <2>. DEFINE raw == CalculateFee(before, default_fee_bps, fee_bps)
  <2>1. raw \in Nat
    BY <1>1, CalculateFeeType
  <2>. HIDE DEF raw
  <2>2. \E k \in Nat : RemoveDust(raw) = k * Ld2sdRate
    BY <2>1, RemoveDustWhole
  <2>. QED  BY <2>2 DEF OftFee, raw
<1>. HIDE DEF oft_fee
<1>5. /\ sent \in Nat /\ sent <= amount_ld /\ before <= sent
      /\ oft_type = "Adapter" => PostFeeAmount(fee, sent) = before
      /\ oft_type # "Adapter" => sent = before
  <2>1. CASE oft_type = "Adapter"
    <3>. DEFINE pre == CalculatePreFeeAmount(fee, before)
    <3>1. pre \in Nat /\ PostFeeAmount(fee, pre) = before
      BY <1>1, PostFeeOfPreFee
    <3>2. pre <= amount_ld
      BY <1>0, <1>1, <2>1, PreFeeIsSmallest
    <3>3. before <= pre
      <4>. HIDE DEF pre
      <4>. QED  BY <3>1, AmountsAreNat
    <3>. QED  BY <2>1, <3>1, <3>2, <3>3 DEF AmountSent
  <2>2. CASE oft_type # "Adapter"
    BY <1>1, <2>2 DEF AmountSent
  <2>. QED  BY <2>1, <2>2
<1>6. \E k \in Nat : before - oft_fee = k * Ld2sdRate
  <2>1. PICK b \in Nat : before = b * Ld2sdRate
    BY <1>1
  <2>2. PICK f \in Nat : oft_fee = f * Ld2sdRate
    BY <1>4
  <2>3. Ld2sdRate \in Nat \ {0}
    BY Ld2sdRateAssumption
  <2>4. f <= b
    BY <1>3, <2>1, <2>2, <2>3, CancelFactor
  <2>5. (b - f) * Ld2sdRate = b * Ld2sdRate - f * Ld2sdRate /\ b - f \in Nat
    BY <2>3, <2>4
  <2>. QED  BY <2>1, <2>2, <2>5
<1>7. /\ Sd2ld(Ld2sd(before - oft_fee)) = before - oft_fee
      /\ Sd2ld(Ld2sd(oft_fee)) = oft_fee
  BY <1>4, <1>6, WholeUnitsConvert
<1>. HIDE DEF sent
<1>8. r.sent = sent /\ r.received = before - oft_fee /\ r.fee = oft_fee
  BY <1>2
<1>9. /\ r.sent \in Nat /\ r.received \in Nat /\ r.fee \in Nat
      /\ r.sent <= amount_ld
      /\ r.received + r.fee = before
      /\ before <= r.sent
      /\ oft_type = "Adapter" => PostFeeAmount(fee, r.sent) = before
      /\ oft_type # "Adapter" => r.sent = before
  BY <1>1, <1>3, <1>5, <1>8
<1>10. /\ r.received + r.fee <= r.sent
       /\ oft_type = "Adapter" => PostFeeAmount(fee, r.sent) = r.received + r.fee
       /\ oft_type # "Adapter" => r.sent = r.received + r.fee
       /\ Sd2ld(Ld2sd(r.received)) = r.received
       /\ Sd2ld(Ld2sd(r.fee)) = r.fee
  BY <1>7, <1>8, <1>9
<1>. QED  BY <1>9, <1>10 DEF r

-------------------------------------------------------------------------------
(* Sums over finite sets *)

(* What holds of a set whenever it holds of its strict subsets holds of every
   finite set. *)
LEMMA SubsetInduction ==
  ASSUME NEW S, IsFiniteSet(S), NEW G,
         \A T \in SUBSET S : (\A U \in SUBSET T : U # T => U \in G) => T \in G
  PROVE  \A T \in SUBSET S : T \in G
<1>. DEFINE B == {T \in SUBSET S : T \notin G}
<1>. SUFFICES ASSUME B # {} PROVE FALSE
  OBVIOUS
<1>1. B \subseteq FiniteSubsetsOf(S)
  BY FS_Subset DEF FiniteSubsetsOf
<1>2. IsWellFoundedOn(StrictSubsetOrdering(S), FiniteSubsetsOf(S))
  BY FS_StrictSubsetOrderingWellFounded
<1>. HIDE DEF B
<1>3. PICK T \in B : \A U \in B : ~(<<U, T>> \in StrictSubsetOrdering(S))
  BY <1>1, <1>2, WFMin
<1>4. T \in SUBSET S /\ T \notin G
  BY <1>3 DEF B
<1>5. ASSUME NEW U \in SUBSET T, U # T PROVE U \in G
  <2>1. U \in SUBSET S
    BY <1>4
  <2>2. <<U, T>> \in StrictSubsetOrdering(S)
    BY <1>4, <1>5, <2>1 DEF StrictSubsetOrdering
  <2>. QED  BY <1>3, <2>1, <2>2 DEF B
<1>. QED  BY <1>4, <1>5

(* And so does what holds of the empty set and is kept by adding an element. *)
LEMMA SetInduction ==
  ASSUME NEW S, IsFiniteSet(S), NEW G, {} \in G,
         \A T \in SUBSET S : \A x \in S \ T : T \in G => T \cup {x} \in G
  PROVE  S \in G
<1>1. ASSUME NEW T \in SUBSET S, \A U \in SUBSET T : U # T => U \in G
      PROVE  T \in G
  <2>1. CASE T = {}
    BY <2>1
  <2>2. CASE T # {}
    <3>1. PICK x \in T : TRUE
      BY <2>2
    <3>2. T \ {x} \in G /\ (T \ {x}) \cup {x} = T /\ x \in S \ (T \ {x})
      BY <1>1, <3>1
    <3>. QED  BY <3>2
  <2>. QED  BY <2>1, <2>2
<1>. QED  BY <1>1, SubsetInduction

(* The element by which MapThenSumSet goes on, and its recursion. *)
Pick(s) == CHOOSE x \in s : TRUE

SumsOver(sum, S, f) ==
  sum = [s \in SUBSET S |-> IF s = {} THEN 0 ELSE f[Pick(s)] + sum[s \ {Pick(s)}]]

LEMMA PickIn == ASSUME NEW s, s # {} PROVE Pick(s) \in s
BY DEF Pick

LEMMA SumExists ==
  ASSUME NEW S, IsFiniteSet(S), NEW f
  PROVE  \E sum : SumsOver(sum, S, f)
<1>. DEFINE Small(T) == {s \in SUBSET S : Cardinality(s) <= Cardinality(T)}
            Sums(sum, T) == sum = [s \in Small(T) |->
                              IF s = {} THEN 0 ELSE f[Pick(s)] + sum[s \ {Pick(s)}]]
            G == {T \in SUBSET S : \E sum : Sums(sum, T)}
<1>1. \A T \in SUBSET S : IsFiniteSet(T) /\ Cardinality(T) \in Nat
  BY FS_Subset, FS_CardinalityType
<1>2. {} \in G
  <2>1. Cardinality({}) = 0
    BY FS_EmptySet
  <2>2. \A s \in Small({}) : s = {}
    BY <1>1, <2>1, FS_EmptySet
  <2>3. Sums([s \in Small({}) |-> 0], {})
    BY <2>2
  <2>. QED  BY <2>3
<1>3. ASSUME NEW T \in SUBSET S, NEW x \in S \ T, T \in G
      PROVE  T \cup {x} \in G
  <2>1. PICK sum : Sums(sum, T)
    BY <1>3
  <2>. DEFINE next == [s \in Small(T \cup {x}) |->
                         IF s = {} THEN 0 ELSE f[Pick(s)] + sum[s \ {Pick(s)}]]
  <2>2. Cardinality(T \cup {x}) = Cardinality(T) + 1
    BY <1>1, FS_AddElement
  <2>3. ASSUME NEW s \in Small(T \cup {x}), s # {}
        PROVE  s \ {Pick(s)} \in Small(T) /\ s \ {Pick(s)} \in Small(T \cup {x})
    <3>1. Cardinality(s \ {Pick(s)}) = Cardinality(s) - 1
      BY <1>1, <2>3, PickIn, FS_RemoveElement
    <3>. QED  BY <1>1, <2>2, <3>1
  <2>4. ASSUME NEW s \in Small(T)
        PROVE  next[s] = sum[s]
    <3>1. s \in Small(T \cup {x})
      BY <1>1, <2>2
    <3>2. sum[s] = IF s = {} THEN 0 ELSE f[Pick(s)] + sum[s \ {Pick(s)}]
      BY <2>1
    <3>. QED  BY <3>1, <3>2
  <2>5. Sums(next, T \cup {x})
    BY <2>3, <2>4
  <2>. QED  BY <2>5
<1>4. S \in G
  <2>. HIDE DEF G
  <2>. QED  BY <1>2, <1>3, SetInduction
<1>5. Small(S) = SUBSET S
  BY <1>1, FS_Subset
<1>. QED  BY <1>4, <1>5 DEF SumsOver

(* It depends only on the values. *)
LEMMA SumUnique ==
  ASSUME NEW S1, NEW S2, NEW f1, NEW f2, NEW sum1, NEW sum2,
         SumsOver(sum1, S1, f1), SumsOver(sum2, S2, f2),
         NEW T, IsFiniteSet(T), T \subseteq S1, T \subseteq S2, \A x \in T : f1[x] = f2[x]
  PROVE  sum1[T] = sum2[T]
<1>. DEFINE G == {U \in SUBSET T : sum1[U] = sum2[U]}
<1>1. ASSUME NEW U \in SUBSET T, \A V \in SUBSET U : V # U => V \in G
      PROVE  U \in G
  <2>1. /\ sum1[U] = IF U = {} THEN 0 ELSE f1[Pick(U)] + sum1[U \ {Pick(U)}]
        /\ sum2[U] = IF U = {} THEN 0 ELSE f2[Pick(U)] + sum2[U \ {Pick(U)}]
    BY DEF SumsOver
  <2>2. CASE U = {}
    BY <2>1, <2>2
  <2>3. CASE U # {}
    <3>1. Pick(U) \in U
      BY <2>3, PickIn
    <3>2. U \ {Pick(U)} \in G
      BY <1>1, <3>1
    <3>. QED  BY <2>1, <2>3, <3>1, <3>2
  <2>. QED  BY <2>2, <2>3
<1>2. T \in G
  <2>. HIDE DEF G
  <2>. QED  BY <1>1, SubsetInduction
<1>. QED  BY <1>2

LEMMA SumType ==
  ASSUME NEW S, IsFiniteSet(S), NEW f, \A x \in S : f[x] \in Nat,
         NEW sum, SumsOver(sum, S, f)
  PROVE  \A T \in SUBSET S : sum[T] \in Nat
<1>. DEFINE G == {T \in SUBSET S : sum[T] \in Nat}
<1>1. ASSUME NEW T \in SUBSET S, \A U \in SUBSET T : U # T => U \in G
      PROVE  T \in G
  <2>1. sum[T] = IF T = {} THEN 0 ELSE f[Pick(T)] + sum[T \ {Pick(T)}]
    BY DEF SumsOver
  <2>2. CASE T = {}
    BY <2>1, <2>2
  <2>3. CASE T # {}
    <3>1. Pick(T) \in T
      BY <2>3, PickIn
    <3>2. T \ {Pick(T)} \in G /\ f[Pick(T)] \in Nat
      BY <1>1, <3>1
    <3>. QED  BY <2>1, <2>3, <3>2
  <2>. QED  BY <2>2, <2>3
<1>2. \A T \in SUBSET S : T \in G
  <2>. HIDE DEF G
  <2>. QED  BY <1>1, SubsetInduction
<1>. QED  BY <1>2

(* The order does not matter: any element may be the first. *)
LEMMA SumFirst ==
  ASSUME NEW S, IsFiniteSet(S), NEW f, \A x \in S : f[x] \in Nat,
         NEW sum, SumsOver(sum, S, f), NEW R \in SUBSET S, NEW first \in R
  PROVE  sum[R] = f[first] + sum[R \ {first}]
<1>. DEFINE G == {T \in SUBSET S : \A x \in T : sum[T] = f[x] + sum[T \ {x}]}
<1>1. ASSUME NEW T \in SUBSET S, \A U \in SUBSET T : U # T => U \in G, NEW x \in T
      PROVE  sum[T] = f[x] + sum[T \ {x}]
  <2>1. PICK y \in T : y = Pick(T)
    BY PickIn
  <2>2. sum[T] = f[y] + sum[T \ {y}]
    BY <2>1 DEF SumsOver
  <2>3. CASE x = y
    BY <2>2, <2>3
  <2>4. CASE x # y
    <3>1. T \ {y} \in G /\ T \ {x} \in G /\ (T \ {y}) \ {x} = (T \ {x}) \ {y}
      BY <1>1
    <3>2. /\ sum[T \ {y}] = f[x] + sum[(T \ {y}) \ {x}]
          /\ sum[T \ {x}] = f[y] + sum[(T \ {y}) \ {x}]
      BY <2>4, <3>1
    <3>3. f[x] \in Nat /\ f[y] \in Nat /\ sum[(T \ {y}) \ {x}] \in Nat
      BY SumType
    <3>. QED  BY <2>2, <3>2, <3>3
  <2>. QED  BY <2>3, <2>4
<1>2. \A T \in SUBSET S : T \in G
  <2>1. \A T \in SUBSET S : (\A U \in SUBSET T : U # T => U \in G) => T \in G
    BY <1>1
  <2>. HIDE DEF G
  <2>. QED  BY <2>1, SubsetInduction
<1>. QED  BY <1>2

(* The sum of a function over a finite set: of the values, whichever function
   has them; one more or one fewer of them adds or subtracts its own. *)
Total(f, S) == MapThenSumSet(LAMBDA x : f[x], S)

LEMMA TotalIsSum ==
  ASSUME NEW S, IsFiniteSet(S), NEW f
  PROVE  \E sum : SumsOver(sum, S, f) /\ Total(f, S) = sum[S]
<1>. DEFINE it == CHOOSE sum : SumsOver(sum, S, f)
<1>1. SumsOver(it, S, f)
  BY SumExists
<1>2. Total(f, S) = it[S]
  BY DEF Total, MapThenSumSet, MapThenFoldSet, SumsOver, Pick
<1>. QED  BY <1>1, <1>2

LEMMA TotalSame ==
  ASSUME NEW S, IsFiniteSet(S), NEW f, NEW g, \A x \in S : f[x] = g[x]
  PROVE  Total(f, S) = Total(g, S)
<1>1. PICK sum1 : SumsOver(sum1, S, f) /\ Total(f, S) = sum1[S]
  BY TotalIsSum
<1>2. PICK sum2 : SumsOver(sum2, S, g) /\ Total(g, S) = sum2[S]
  BY TotalIsSum
<1>. QED  BY <1>1, <1>2, SumUnique

LEMMA TotalEmpty == ASSUME NEW f PROVE Total(f, {}) = 0
<1>1. PICK sum : SumsOver(sum, {}, f) /\ Total(f, {}) = sum[{}]
  BY TotalIsSum, FS_EmptySet
<1>. QED  BY <1>1 DEF SumsOver

LEMMA TotalFirst ==
  ASSUME NEW S, IsFiniteSet(S), NEW f, \A x \in S : f[x] \in Nat
  PROVE  /\ Total(f, S) \in Nat
         /\ \A x \in S : Total(f, S) = f[x] + Total(f, S \ {x})
<1>1. PICK sum : SumsOver(sum, S, f) /\ Total(f, S) = sum[S]
  BY TotalIsSum
<1>2. ASSUME NEW x \in S PROVE Total(f, S \ {x}) = sum[S \ {x}]
  <2>1. IsFiniteSet(S \ {x})
    BY FS_RemoveElement
  <2>2. PICK sum2 : SumsOver(sum2, S \ {x}, f) /\ Total(f, S \ {x}) = sum2[S \ {x}]
    BY <2>1, TotalIsSum
  <2>3. S \ {x} \subseteq S
    OBVIOUS
  <2>. QED  BY <1>1, <2>1, <2>2, <2>3, SumUnique
<1>3. \A T \in SUBSET S : sum[T] \in Nat
  BY <1>1, SumType
<1>4. S \in SUBSET S
  OBVIOUS
<1>5. SumsOver(sum, S, f)
  BY <1>1
<1>6. ASSUME NEW x \in S PROVE sum[S] = f[x] + sum[S \ {x}]
  BY <1>4, <1>5, SumFirst
<1>. QED  BY <1>1, <1>2, <1>3, <1>4, <1>6

(* Functions that differ in one value. *)
DifferAt(f, g, S, x) ==
  /\ IsFiniteSet(S) /\ x \in S
  /\ \A y \in S : f[y] \in Nat /\ g[y] \in Nat
  /\ \A y \in S \ {x} : g[y] = f[y]

LEMMA TotalDiffer ==
  ASSUME NEW S, NEW f, NEW g, NEW x, DifferAt(f, g, S, x)
  PROVE  /\ Total(f, S) \in Nat
         /\ Total(g, S) = Total(f, S) - f[x] + g[x]
<1>1. IsFiniteSet(S \ {x})
  BY FS_RemoveElement DEF DifferAt
<1>2. Total(g, S \ {x}) = Total(f, S \ {x})
  BY <1>1, TotalSame DEF DifferAt
<1>3. /\ Total(f, S) \in Nat
      /\ Total(f, S) = f[x] + Total(f, S \ {x})
      /\ Total(g, S) = g[x] + Total(g, S \ {x})
      /\ Total(f, S \ {x}) \in Nat
  BY <1>1, TotalFirst DEF DifferAt
<1>. QED  BY <1>2, <1>3 DEF DifferAt

(* A function with one value. *)
LEMMA TotalConstant ==
  ASSUME NEW S, IsFiniteSet(S), NEW v \in Nat
  PROVE  Total([x \in S |-> v], S) = Cardinality(S) * v
<1>. DEFINE f == [x \in S |-> v]
            G == {T \in SUBSET S : Total(f, T) = Cardinality(T) * v}
<1>1. {} \in G
  BY TotalEmpty, FS_EmptySet
<1>2. ASSUME NEW T \in SUBSET S, NEW x \in S \ T, T \in G
      PROVE  T \cup {x} \in G
  <2>1. /\ IsFiniteSet(T \cup {x}) /\ Cardinality(T \cup {x}) = Cardinality(T) + 1
        /\ Cardinality(T) \in Nat
    BY FS_Subset, FS_AddElement, FS_CardinalityType
  <2>2. (T \cup {x}) \ {x} = T /\ \A y \in T \cup {x} : f[y] = v
    OBVIOUS
  <2>3. Total(f, T \cup {x}) = v + Total(f, T)
    <3>. HIDE DEF f
    <3>1. \A y \in T \cup {x} : f[y] \in Nat
      BY <2>2
    <3>. QED  BY <2>1, <2>2, <3>1, TotalFirst
  <2>4. Total(f, T) = Cardinality(T) * v
    BY <1>2
  <2>5. Total(f, T \cup {x}) = (Cardinality(T) + 1) * v
    BY <2>1, <2>3, <2>4
  <2>. QED  BY <2>1, <2>5
<1>3. S \in G
  <2>. HIDE DEF G
  <2>. QED  BY <1>1, <1>2, SetInduction
<1>. QED  BY <1>3
===============================================================================
