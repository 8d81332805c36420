-------------------------- MODULE RateLimiter_proofs --------------------------
(* What the operations of a rate limiter return, for every width and time. *)
EXTENDS RateLimiter, TLAPS

(* A saturating operation on two amounts is their lesser with the largest. *)
LEMMA SaturatingType ==
  ASSUME NEW a \in Nat, NEW b \in Nat
  PROVE  SaturatingAdd(a, b) \in U64Values /\ SaturatingMul(a, b) \in U64Values
<1>. DEFINE w == a * b
<1>1. w \in Nat /\ a + b \in Nat
  OBVIOUS
<1>. HIDE DEF w
<1>2. Lesser(w, U64Max) \in U64Values /\ Lesser(a + b, U64Max) \in U64Values
  BY <1>1, U64MaxAssumption DEF Lesser, U64Values
<1>. QED  BY <1>2 DEF SaturatingAdd, SaturatingMul, w

(* What a bucket has earned is a u64, however long it was left. *)
LEMMA AccruedType ==
  ASSUME NEW limiter \in RateLimiterType, NEW now \in Nat
  PROVE  Accrued(limiter, now) \in U64Values
<1>1. limiter.refill_per_second \in Nat /\ limiter.last_refill_time \in Nat
  BY U64MaxAssumption DEF RateLimiterType, U64Values
<1>2. CASE now > limiter.last_refill_time
  <2>1. now - limiter.last_refill_time \in Nat
    BY <1>1, <1>2
  <2>. QED  BY <1>1, <1>2, <2>1, SaturatingType DEF Accrued
<1>3. CASE ~(now > limiter.last_refill_time)
  BY <1>3, U64MaxAssumption DEF Accrued, U64Values
<1>. QED  BY <1>2, <1>3

(* A refill touches the tokens and the clock only, and never fills the bucket
   above its capacity. *)
LEMMA RefillType ==
  ASSUME NEW limiter \in RateLimiterType, NEW extra_tokens \in Nat, NEW now \in Nat
  PROVE  /\ Refill(limiter, extra_tokens, now) \in RateLimiterType
         /\ Refill(limiter, extra_tokens, now).capacity = limiter.capacity
         /\ Refill(limiter, extra_tokens, now).refill_per_second = limiter.refill_per_second
         /\ Refill(limiter, extra_tokens, now).last_refill_time = now
         /\ Refill(limiter, extra_tokens, now).tokens <= limiter.capacity
<1>. DEFINE filled == SaturatingAdd(limiter.tokens, SaturatingAdd(extra_tokens, Accrued(limiter, now)))
<1>1. limiter.tokens \in Nat /\ limiter.capacity \in U64Values /\ Accrued(limiter, now) \in Nat
  BY AccruedType, U64MaxAssumption DEF RateLimiterType, U64Values
<1>2. SaturatingAdd(extra_tokens, Accrued(limiter, now)) \in Nat
  <2>1. SaturatingAdd(extra_tokens, Accrued(limiter, now)) \in U64Values
    BY <1>1, SaturatingType
  <2>. QED  BY <2>1, U64MaxAssumption DEF U64Values
<1>3. filled \in U64Values
  BY <1>1, <1>2, SaturatingType
<1>4. Refill(limiter, extra_tokens, now) =
        [limiter EXCEPT !.tokens = Lesser(limiter.capacity, filled), !.last_refill_time = now]
  BY DEF Refill
<1>. HIDE DEF filled
<1>5. Lesser(limiter.capacity, filled) \in U64Values /\ Lesser(limiter.capacity, filled) <= limiter.capacity
  BY <1>1, <1>3, U64MaxAssumption DEF Lesser, U64Values
<1>. QED  BY <1>4, <1>5 DEF RateLimiterType

(* try_consume leaves a limiter with no fewer than no tokens. *)
LEMMA ConsumeType ==
  ASSUME NEW limiter \in RateLimiterType \cup {None}, NEW amount \in Nat, NEW now \in Nat,
         CanConsume(limiter, amount, now)
  PROVE  Consume(limiter, amount, now) \in RateLimiterType \cup {None}
<1>1. CASE limiter = None
  BY <1>1 DEF Consume
<1>2. CASE limiter # None
  <2>. DEFINE b == Refill(limiter, 0, now)
  <2>1. b \in RateLimiterType /\ b.tokens >= amount
    BY <1>2, RefillType DEF CanConsume
  <2>2. Consume(limiter, amount, now) = [b EXCEPT !.tokens = b.tokens - amount]
    BY <1>2 DEF Consume
  <2>. HIDE DEF b
  <2>3. b.tokens - amount \in U64Values
    BY <2>1, U64MaxAssumption DEF RateLimiterType, U64Values
  <2>. QED  BY <2>1, <2>2, <2>3 DEF RateLimiterType
<1>. QED  BY <1>1, <1>2

(* So is a limiter that may be absent, after a refill. *)
LEMMA RefillIfSomeType ==
  ASSUME NEW limiter \in RateLimiterType \cup {None}, NEW extra_tokens \in Nat, NEW now \in Nat
  PROVE  RefillIfSome(limiter, extra_tokens, now) \in RateLimiterType \cup {None}
BY RefillType DEF RefillIfSome

(* set_peer_config leaves a limiter, or none. *)
LEMMA UpdateRateLimiterType ==
  ASSUME NEW limiter \in RateLimiterType \cup {None},
         NEW params \in RateLimitParams \cup {None}, NEW now \in Nat
  PROVE  UpdateRateLimiter(limiter, params, now) \in RateLimiterType \cup {None}
<1>1. CASE params = None
  BY <1>1 DEF UpdateRateLimiter
<1>2. CASE params # None
  <2>. DEFINE base   == IF limiter = None THEN DefaultLimiter ELSE limiter
              filled == IF params.capacity = None
                        THEN base ELSE SetCapacity(base, params.capacity, now)
  <2>1. base \in RateLimiterType
    BY U64MaxAssumption DEF DefaultLimiter, RateLimiterType, U64Values
  <2>. HIDE DEF base
  <2>2. filled \in RateLimiterType
    BY <1>2, <2>1 DEF SetCapacity, RateLimiterType, RateLimitParams
  <2>. HIDE DEF filled
  <2>3. ASSUME params.refill_per_second # None
        PROVE  SetRate(filled, params.refill_per_second, now) \in RateLimiterType
    <3>1. params.refill_per_second \in U64Values
      BY <1>2, <2>3 DEF RateLimitParams
    <3>2. Refill(filled, 0, now) \in RateLimiterType
      BY <2>2, RefillType
    <3>. QED  BY <3>1, <3>2 DEF SetRate, RateLimiterType
  <2>. QED  BY <1>2, <2>2, <2>3 DEF UpdateRateLimiter, filled, base
<1>. QED  BY <1>1, <1>2
===============================================================================
