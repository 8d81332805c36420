-------------------------- MODULE PeerLimits_proofs --------------------------
(***************************************************************************)
(* A limiter that is refilled when it is used is a bucket that is refilled *)
(* every second, for every width, capacity, rate and history.  The type    *)
(* invariant is the invariant the refinement needs: the tokens are within  *)
(* the capacity and the last refill is not in the future.  With it the     *)
(* saturations that refill goes through cannot be told from plain sums,    *)
(* because the capacity caps them all.                                     *)
(***************************************************************************)
EXTENDS NetFlow, RateLimiter_proofs

(* One limiter, at one time. *)

(* Refill, without its saturations. *)
LEMMA RefillTokens ==
  ASSUME NEW limiter \in RateLimiterType, NEW extra_tokens \in Nat, NEW time \in Nat,
         limiter.last_refill_time <= time
  PROVE  /\ (time - limiter.last_refill_time) * limiter.refill_per_second \in Nat
         /\ Refill(limiter, extra_tokens, time).tokens =
              Lesser(limiter.capacity,
                     limiter.tokens + extra_tokens
                       + (time - limiter.last_refill_time) * limiter.refill_per_second)
<1>. DEFINE cap  == limiter.capacity
            tok  == limiter.tokens
            rate == limiter.refill_per_second
            last == limiter.last_refill_time
            earned == (time - last) * rate
            acc == Accrued(limiter, time)
            sum == SaturatingAdd(tok, SaturatingAdd(extra_tokens, acc))
<1>1. /\ cap \in Nat /\ cap <= U64Max /\ tok \in Nat /\ rate \in Nat /\ last \in Nat
      /\ U64Max \in Nat
  BY U64MaxAssumption DEF RateLimiterType, U64Values
<1>2. earned \in Nat
  BY <1>1
<1>3. acc = Lesser(earned, U64Max)
  <2>1. CASE time > last
    BY <2>1 DEF Accrued, SaturatingMul
  <2>2. CASE ~(time > last)
    <3>1. time = last
      BY <1>1, <2>2
    <3>2. earned = 0
      BY <1>1, <3>1
    <3>. QED  BY <1>1, <2>2, <3>2 DEF Accrued, Lesser
  <2>. QED  BY <2>1, <2>2
<1>4. Refill(limiter, extra_tokens, time).tokens = Lesser(cap, sum)
  BY DEF Refill, RateLimiterType
<1>5. sum = Lesser(tok + Lesser(extra_tokens + acc, U64Max), U64Max)
  BY DEF SaturatingAdd
<1>. HIDE DEF cap, tok, rate, last, earned, acc, sum
<1>6. Lesser(cap, sum) = Lesser(cap, tok + extra_tokens + earned)
  BY <1>1, <1>2, <1>3, <1>5 DEF Lesser
<1>. QED  BY <1>2, <1>4, <1>6 DEF cap, tok, rate, last, earned

(* A limiter that is up to date holds what it would hold. *)
LEMMA UpToDateAtOnce ==
  ASSUME NEW limiter \in RateLimiterType, NEW time \in Nat,
         limiter.last_refill_time = time, limiter.tokens <= limiter.capacity
  PROVE  /\ LimiterOK(limiter, time)
         /\ UpToDate(limiter, time) =
              [capacity |-> limiter.capacity, rate |-> limiter.refill_per_second,
               tokens |-> limiter.tokens]
<1>. DEFINE rate == limiter.refill_per_second
<1>1. limiter.capacity \in Nat /\ limiter.tokens \in Nat /\ rate \in Nat
  BY U64MaxAssumption DEF RateLimiterType, U64Values
<1>2. Refill(limiter, 0, time).tokens =
        Lesser(limiter.capacity, limiter.tokens + 0 + (time - time) * rate)
  BY RefillTokens
<1>3. (time - time) * rate = 0
  BY <1>1
<1>4. Refill(limiter, 0, time).tokens = limiter.tokens
  BY <1>1, <1>2, <1>3 DEF Lesser
<1>5. limiter # None
  BY NoneAssumption
<1>. QED  BY <1>4, <1>5 DEF UpToDate, LimiterOK

(* The bucket of a limiter. *)
LEMMA UpToDateType ==
  ASSUME NEW limiter \in RateLimiterType, NEW time \in Nat, LimiterOK(limiter, time)
  PROVE  /\ limiter # None /\ limiter.last_refill_time <= time
         /\ UpToDate(limiter, time) # None
         /\ UpToDate(limiter, time) =
              [capacity |-> limiter.capacity, rate |-> limiter.refill_per_second,
               tokens |-> Refill(limiter, 0, time).tokens]
         /\ UpToDate(limiter, time) \in Bucket
         /\ UpToDate(limiter, time).tokens <= limiter.capacity
<1>1. limiter # None /\ limiter.last_refill_time <= time
  BY NoneAssumption DEF LimiterOK
<1>2. /\ Refill(limiter, 0, time).tokens \in U64Values
      /\ Refill(limiter, 0, time).tokens <= limiter.capacity
  BY RefillType DEF RateLimiterType
<1>3. UpToDate(limiter, time) =
        [capacity |-> limiter.capacity, rate |-> limiter.refill_per_second,
         tokens |-> Refill(limiter, 0, time).tokens]
  BY <1>1 DEF UpToDate
<1>4. UpToDate(limiter, time) \in Bucket
  BY <1>2, <1>3 DEF Bucket, RateLimiterType
<1>. QED  BY <1>1, <1>2, <1>3, <1>4, NoneAssumption

(* A second that passes unseen is the bucket's second. *)
LEMMA SecondStep ==
  ASSUME NEW limiter \in RateLimiterType, NEW time \in Nat, LimiterOK(limiter, time)
  PROVE  /\ LimiterOK(limiter, time + 1)
         /\ UpToDate(limiter, time + 1)
              = Out!Fill(UpToDate(limiter, time), UpToDate(limiter, time).rate)
<1>. DEFINE cap  == limiter.capacity
            tok  == limiter.tokens
            rate == limiter.refill_per_second
            last == limiter.last_refill_time
            earned == (time - last) * rate
            b == UpToDate(limiter, time)
            c == UpToDate(limiter, time + 1)
<1>1. cap \in Nat /\ tok \in Nat /\ rate \in Nat /\ last \in Nat /\ last <= time
  BY UpToDateType, U64MaxAssumption DEF RateLimiterType, U64Values
<1>2. LimiterOK(limiter, time + 1)
  BY <1>1 DEF LimiterOK
<1>3. earned \in Nat /\ Refill(limiter, 0, time).tokens = Lesser(cap, tok + 0 + earned)
  BY <1>1, RefillTokens
<1>4. Refill(limiter, 0, time + 1).tokens = Lesser(cap, tok + 0 + ((time + 1) - last) * rate)
  <2>1. time + 1 \in Nat /\ limiter.last_refill_time <= time + 1
    BY <1>1
  <2>. HIDE DEF cap, tok, rate, last
  <2>. QED  BY <2>1, RefillTokens DEF cap, tok, rate, last
<1>5. ((time + 1) - last) * rate = earned + rate
  <2>. DEFINE elapsed == time - last
  <2>1. elapsed \in Nat /\ (time + 1) - last = elapsed + 1
    BY <1>1
  <2>. HIDE DEF elapsed, rate, last
  <2>2. (elapsed + 1) * rate = elapsed * rate + rate
    BY <1>1, <2>1
  <2>. QED  BY <2>1, <2>2 DEF elapsed, rate, last
<1>6. b = [capacity |-> cap, rate |-> rate, tokens |-> Refill(limiter, 0, time).tokens]
  BY UpToDateType
<1>7. c = [capacity |-> cap, rate |-> rate, tokens |-> Refill(limiter, 0, time + 1).tokens]
  BY <1>2, UpToDateType
<1>. HIDE DEF cap, tok, rate, last, earned, b, c
<1>8. Lesser(cap, tok + 0 + (earned + rate)) = Lesser(cap, Lesser(cap, tok + 0 + earned) + rate)
  BY <1>1, <1>3 DEF Lesser
<1>9. c = Out!Fill(b, b.rate)
  BY <1>3, <1>4, <1>5, <1>6, <1>7, <1>8 DEF Out!Fill, Out!Lesser, Lesser
<1>. QED  BY <1>2, <1>9 DEF b, c

(* Consuming takes, if the bucket has it. *)
LEMMA TakeStep ==
  ASSUME NEW limiter \in RateLimiterType, NEW time \in Nat, LimiterOK(limiter, time),
         NEW amount \in U64Values, CanConsume(limiter, amount, time)
  PROVE  LET b == UpToDate(limiter, time)
             c == Consume(limiter, amount, time)
         IN  /\ LimiterOK(c, time)
             /\ b.tokens >= amount
             /\ UpToDate(c, time) = [b EXCEPT !.tokens = b.tokens - amount]
<1>. DEFINE b == UpToDate(limiter, time)
            c == Consume(limiter, amount, time)
            full == Refill(limiter, 0, time)
            left == full.tokens - amount
<1>1. /\ limiter # None
      /\ b = [capacity |-> limiter.capacity, rate |-> limiter.refill_per_second, tokens |-> full.tokens]
  BY UpToDateType
<1>2. full.tokens >= amount
  BY <1>1 DEF CanConsume
<1>3. /\ full \in RateLimiterType /\ full.capacity = limiter.capacity
      /\ full.refill_per_second = limiter.refill_per_second
      /\ full.last_refill_time = time /\ full.tokens <= limiter.capacity
  BY RefillType
<1>4. c = [full EXCEPT !.tokens = left]
  BY <1>1 DEF Consume
<1>5. full.tokens \in U64Values /\ limiter.capacity \in U64Values /\ limiter.refill_per_second \in U64Values
  BY <1>3 DEF RateLimiterType
<1>. HIDE DEF full
<1>6. left \in U64Values /\ left <= limiter.capacity
  BY <1>2, <1>3, <1>5, U64MaxAssumption DEF U64Values
<1>. HIDE DEF left
<1>7. /\ c \in RateLimiterType /\ c.last_refill_time = time
      /\ c.capacity = limiter.capacity /\ c.refill_per_second = limiter.refill_per_second
      /\ c.tokens = left
  BY <1>3, <1>4, <1>6 DEF RateLimiterType
<1>. HIDE DEF c
<1>8. /\ LimiterOK(c, time)
      /\ UpToDate(c, time) = [capacity |-> limiter.capacity, rate |-> limiter.refill_per_second,
                              tokens |-> left]
  BY <1>6, <1>7, UpToDateAtOnce
<1>. QED  BY <1>1, <1>2, <1>8 DEF left, c

(* Refilling returns. *)
LEMMA ReturnStep ==
  ASSUME NEW limiter \in RateLimiterType, NEW time \in Nat, LimiterOK(limiter, time),
         NEW amount \in Nat
  PROVE  /\ LimiterOK(Refill(limiter, amount, time), time)
         /\ UpToDate(Refill(limiter, amount, time), time)
              = Out!Fill(UpToDate(limiter, time), amount)
<1>. DEFINE cap  == limiter.capacity
            tok  == limiter.tokens
            rate == limiter.refill_per_second
            earned == (time - limiter.last_refill_time) * rate
            b == UpToDate(limiter, time)
            c == Refill(limiter, amount, time)
<1>1. cap \in Nat /\ tok \in Nat /\ rate \in U64Values /\ limiter.last_refill_time <= time
  BY UpToDateType, U64MaxAssumption DEF RateLimiterType, U64Values
<1>2. /\ earned \in Nat
      /\ Refill(limiter, 0, time).tokens = Lesser(cap, tok + 0 + earned)
      /\ c.tokens = Lesser(cap, tok + amount + earned)
  BY <1>1, RefillTokens
<1>3. b = [capacity |-> cap, rate |-> rate, tokens |-> Refill(limiter, 0, time).tokens]
  BY UpToDateType
<1>4. /\ c \in RateLimiterType /\ c.tokens <= cap
      /\ c.capacity = cap /\ c.refill_per_second = rate /\ c.last_refill_time = time
  BY RefillType
<1>. HIDE DEF c
<1>7. /\ LimiterOK(c, time)
      /\ UpToDate(c, time) = [capacity |-> cap, rate |-> rate, tokens |-> c.tokens]
  BY <1>4, UpToDateAtOnce
<1>. HIDE DEF cap, tok, rate, earned, b
<1>8. Lesser(cap, tok + amount + earned) = Lesser(cap, Lesser(cap, tok + 0 + earned) + amount)
  BY <1>1, <1>2 DEF Lesser
<1>9. UpToDate(c, time) = Out!Fill(b, amount)
  BY <1>2, <1>3, <1>7, <1>8 DEF Out!Fill, Out!Lesser, Lesser
<1>. QED  BY <1>7, <1>9 DEF b, c

(* A configuration fills a new capacity, or sets a rate, or removes the
   bucket, or changes nothing; what had accrued accrued at the old rate. *)
LEMMA UpdateStep ==
  ASSUME NEW limiter \in RateLimiterType \cup {None}, NEW time \in Nat,
         LimiterOK(limiter, time), NEW params \in RateLimitParams \cup {None}
  PROVE  LET b == UpToDate(limiter, time)
             l == UpdateRateLimiter(limiter, params, time)
             c == UpToDate(l, time)
         IN  /\ LimiterOK(l, time)
             /\ l \in RateLimiterType \cup {None}
             /\ \/ c = b
                \/ c = None
                \/ \E capacity, rate \in U64Values :
                     c = [capacity |-> capacity, rate |-> rate, tokens |-> capacity]
                \/ \E rate \in U64Values :
                     c = IF b = None
                         THEN [capacity |-> 0, rate |-> rate, tokens |-> 0]
                         ELSE [b EXCEPT !.rate = rate]
<1>. DEFINE b == UpToDate(limiter, time)
            l == UpdateRateLimiter(limiter, params, time)
            c == UpToDate(l, time)
            base   == IF limiter = None THEN DefaultLimiter ELSE limiter
            filled == IF params.capacity = None
                      THEN base ELSE SetCapacity(base, params.capacity, time)
<1>1. CASE params = None
  BY <1>1 DEF UpdateRateLimiter, UpToDate, LimiterOK
<1>2. CASE params # None
  <2>1. /\ base \in RateLimiterType /\ LimiterOK(base, time)
        /\ base.capacity \in U64Values /\ base.refill_per_second \in U64Values
    BY U64MaxAssumption DEF DefaultLimiter, RateLimiterType, U64Values, LimiterOK
  <2>2. l = IF params.refill_per_second = None
            THEN filled ELSE SetRate(filled, params.refill_per_second, time)
    BY <1>2 DEF UpdateRateLimiter
  <2>3. /\ params.capacity \in U64Values \cup {None}
        /\ params.refill_per_second \in U64Values \cup {None}
    BY <1>2 DEF RateLimitParams
  <2>4. limiter = None => base = DefaultLimiter /\ b = None
    BY DEF UpToDate
  <2>5. UpToDate(base, time) =
          IF limiter = None
          THEN [capacity |-> 0, rate |-> 0, tokens |-> 0] ELSE b
    <3>1. CASE limiter # None
      BY <3>1
    <3>2. CASE limiter = None
      <4>1. UpToDate(base, time) =
              [capacity |-> 0, rate |-> 0, tokens |-> Refill(base, 0, time).tokens]
        BY <2>1, <2>4, <3>2, UpToDateType DEF DefaultLimiter
      <4>2. Refill(base, 0, time).tokens <= 0 /\ Refill(base, 0, time).tokens \in Nat
        <5>1. /\ Refill(base, 0, time).tokens <= base.capacity
              /\ Refill(base, 0, time) \in RateLimiterType
          BY <2>1, RefillType
        <5>. QED
          BY <2>4, <3>2, <5>1, U64MaxAssumption DEF DefaultLimiter, RateLimiterType, U64Values
      <4>. QED  BY <3>2, <4>1, <4>2
    <3>. QED  BY <3>1, <3>2
  <2>. HIDE DEF base, l
  (* SetRate on a limiter in use. *)
  <2>6. ASSUME NEW x \in RateLimiterType, LimiterOK(x, time), NEW rate \in U64Values
        PROVE  /\ SetRate(x, rate, time) \in RateLimiterType
               /\ LimiterOK(SetRate(x, rate, time), time)
               /\ UpToDate(SetRate(x, rate, time), time) = [UpToDate(x, time) EXCEPT !.rate = rate]
    <3>. DEFINE y == SetRate(x, rate, time)
                full == Refill(x, 0, time)
    <3>1. /\ full \in RateLimiterType /\ full.capacity = x.capacity
          /\ full.last_refill_time = time /\ full.tokens <= x.capacity
      BY <2>6, RefillType
    <3>2. y = [full EXCEPT !.refill_per_second = rate]
      BY DEF SetRate
    <3>3. UpToDate(x, time) = [capacity |-> x.capacity, rate |-> x.refill_per_second, tokens |-> full.tokens]
      BY <2>6, UpToDateType
    <3>. HIDE DEF full
    <3>4. /\ y \in RateLimiterType /\ y.capacity = x.capacity /\ y.refill_per_second = rate
          /\ y.tokens = full.tokens /\ y.last_refill_time = time
      BY <3>1, <3>2 DEF RateLimiterType
    <3>. HIDE DEF y
    <3>5. /\ LimiterOK(y, time)
          /\ UpToDate(y, time) = [capacity |-> x.capacity, rate |-> rate, tokens |-> full.tokens]
      BY <3>1, <3>4, UpToDateAtOnce
    <3>. QED  BY <3>3, <3>4, <3>5 DEF y
  <2>7. CASE params.capacity = None
    <3>1. filled = base
      BY <2>7
    <3>2. CASE params.refill_per_second = None
      <4>1. l = base
        BY <2>2, <3>1, <3>2
      <4>2. c = b \/ (b = None /\ c = [capacity |-> 0, rate |-> 0, tokens |-> 0])
        BY <2>4, <2>5, <4>1
      <4>3. 0 \in U64Values
        BY U64MaxAssumption DEF U64Values
      <4>. HIDE DEF c, b
      <4>. QED  BY <2>1, <4>1, <4>2, <4>3 DEF l, c, b
    <3>3. CASE params.refill_per_second # None
      <4>. DEFINE rate == params.refill_per_second
      <4>1. rate \in U64Values /\ l = SetRate(base, rate, time)
        BY <2>2, <2>3, <3>1, <3>3
      <4>2. /\ l \in RateLimiterType /\ LimiterOK(l, time)
            /\ c = [UpToDate(base, time) EXCEPT !.rate = rate]
        BY <2>1, <2>6, <4>1
      <4>3. c = IF b = None
                THEN [capacity |-> 0, rate |-> rate, tokens |-> 0]
                ELSE [b EXCEPT !.rate = rate]
        <5>1. CASE limiter = None
          BY <2>4, <2>5, <4>2, <5>1
        <5>2. CASE limiter # None
          <6>1. b # None
            BY <5>2, UpToDateType
          <6>. QED  BY <2>5, <4>2, <5>2, <6>1
        <5>. QED  BY <5>1, <5>2
      <4>. HIDE DEF c, b
      <4>. QED  BY <4>1, <4>2, <4>3 DEF l, c, b
    <3>. QED  BY <3>2, <3>3
  <2>8. CASE params.capacity # None
    <3>. DEFINE capacity == params.capacity
    <3>1. capacity \in U64Values /\ filled = SetCapacity(base, capacity, time)
      BY <2>3, <2>8
    <3>2. filled = [base EXCEPT !.capacity = capacity, !.tokens = capacity, !.last_refill_time = time]
      BY <3>1 DEF SetCapacity
    <3>3. /\ filled \in RateLimiterType /\ filled.last_refill_time = time
          /\ filled.capacity = capacity /\ filled.tokens = capacity
          /\ filled.refill_per_second = base.refill_per_second
      BY <2>1, <3>1, <3>2 DEF RateLimiterType
    <3>. HIDE DEF filled
    <3>4. capacity <= capacity
      BY <3>1, U64MaxAssumption DEF U64Values
    <3>5. /\ LimiterOK(filled, time)
          /\ UpToDate(filled, time) = [capacity |-> capacity, rate |-> base.refill_per_second,
                                       tokens |-> capacity]
      BY <3>3, <3>4, UpToDateAtOnce
    <3>6. CASE params.refill_per_second = None
      <4>1. l = filled
        BY <2>2, <3>6
      <4>. HIDE DEF b
      <4>. QED  BY <2>1, <3>1, <3>3, <3>5, <4>1 DEF l
    <3>7. CASE params.refill_per_second # None
      <4>. DEFINE rate == params.refill_per_second
      <4>1. rate \in U64Values /\ l = SetRate(filled, rate, time)
        BY <2>2, <2>3, <3>7
      <4>2. /\ l \in RateLimiterType /\ LimiterOK(l, time)
            /\ c = [capacity |-> capacity, rate |-> rate, tokens |-> capacity]
        BY <2>6, <3>3, <3>5, <4>1
      <4>. HIDE DEF c, b
      <4>. QED  BY <3>1, <4>1, <4>2 DEF l, c
    <3>. QED  BY <3>6, <3>7
  <2>. QED  BY <2>7, <2>8
<1>. QED  BY <1>1, <1>2

-------------------------------------------------------------------------------
(* The two limiters of a peer. *)

(* TypeOK in the form the lemmas take it. *)
LEMMA LimitersTyped ==
  ASSUME TypeOK
  PROVE  /\ now \in Nat
         /\ outbound \in RateLimiterType \cup {None} /\ LimiterOK(outbound, now)
         /\ inbound \in RateLimiterType \cup {None} /\ LimiterOK(inbound, now)
BY DEF TypeOK, LimiterOK

(* A step of TokenBucket, as a relation between two buckets: what it may do to
   either limiter of the peer. *)
BucketStep(b, c) ==
  \/ c = b
  \/ b # None /\ c = Out!Fill(b, b.rate)
  \/ \E amount \in U64Values :
       /\ b # None
       /\ \/ b.tokens >= amount /\ c = [b EXCEPT !.tokens = b.tokens - amount]
          \/ c = Out!Fill(b, amount)
  \/ \E capacity, rate \in U64Values :
       c = [capacity |-> capacity, rate |-> rate, tokens |-> capacity]
  \/ \E rate \in U64Values :
       c = IF b = None
           THEN [capacity |-> 0, rate |-> rate, tokens |-> 0]
           ELSE [b EXCEPT !.rate = rate]
  \/ c = None

(* What a transfer does to the limiter of its direction. *)
LEMMA ConsumeIsBucketStep ==
  ASSUME NEW limiter \in RateLimiterType \cup {None}, NEW time \in Nat,
         LimiterOK(limiter, time), NEW amount \in U64Values,
         CanConsume(limiter, amount, time)
  PROVE  /\ LimiterOK(Consume(limiter, amount, time), time)
         /\ BucketStep(UpToDate(limiter, time), UpToDate(Consume(limiter, amount, time), time))
<1>1. CASE limiter = None
  BY <1>1 DEF Consume, LimiterOK, BucketStep
<1>2. CASE limiter # None
  <2>. DEFINE b == UpToDate(limiter, time)
              c == UpToDate(Consume(limiter, amount, time), time)
  <2>1. b # None
    BY <1>2, UpToDateType
  <2>2. /\ LimiterOK(Consume(limiter, amount, time), time)
        /\ b.tokens >= amount /\ c = [b EXCEPT !.tokens = b.tokens - amount]
    BY <1>2, TakeStep
  <2>. HIDE DEF b, c
  <2>3. BucketStep(b, c)
    BY <2>1, <2>2 DEF BucketStep
  <2>. QED  BY <2>2, <2>3 DEF b, c
<1>. QED  BY <1>1, <1>2

(* What a transfer does to the opposite limiter. *)
LEMMA RefillIsBucketStep ==
  ASSUME NEW limiter \in RateLimiterType \cup {None}, NEW time \in Nat,
         LimiterOK(limiter, time), NEW amount \in U64Values
  PROVE  /\ LimiterOK(RefillIfSome(limiter, amount, time), time)
         /\ BucketStep(UpToDate(limiter, time), UpToDate(RefillIfSome(limiter, amount, time), time))
<1>1. CASE limiter = None
  BY <1>1 DEF RefillIfSome, LimiterOK, BucketStep
<1>2. CASE limiter # None
  <2>. DEFINE b == UpToDate(limiter, time)
              c == UpToDate(Refill(limiter, amount, time), time)
  <2>1. b # None
    BY <1>2, UpToDateType
  <2>2. amount \in Nat
    BY U64MaxAssumption DEF U64Values
  <2>3. LimiterOK(Refill(limiter, amount, time), time) /\ c = Out!Fill(b, amount)
    BY <1>2, <2>2, ReturnStep
  <2>4. RefillIfSome(limiter, amount, time) = Refill(limiter, amount, time)
    BY <1>2 DEF RefillIfSome
  <2>. HIDE DEF b, c
  <2>5. BucketStep(b, c)
    BY <2>1, <2>3 DEF BucketStep
  <2>. QED  BY <2>3, <2>4, <2>5 DEF b, c
<1>. QED  BY <1>1, <1>2

(* What set_peer_config does to a limiter. *)
LEMMA UpdateIsBucketStep ==
  ASSUME NEW limiter \in RateLimiterType \cup {None}, NEW time \in Nat,
         LimiterOK(limiter, time), NEW params \in LimitParams
  PROVE  /\ LimiterOK(UpdateRateLimiter(limiter, params, time), time)
         /\ BucketStep(UpToDate(limiter, time), UpToDate(UpdateRateLimiter(limiter, params, time), time))
<1>1. params \in RateLimitParams \cup {None}
  BY LimitParamsAssumption
<1>. DEFINE b == UpToDate(limiter, time)
            l == UpdateRateLimiter(limiter, params, time)
            c == UpToDate(l, time)
<1>2. /\ LimiterOK(l, time)
      /\ \/ c = b
         \/ c = None
         \/ \E capacity, rate \in U64Values :
              c = [capacity |-> capacity, rate |-> rate, tokens |-> capacity]
         \/ \E rate \in U64Values :
              c = IF b = None
                  THEN [capacity |-> 0, rate |-> rate, tokens |-> 0]
                  ELSE [b EXCEPT !.rate = rate]
  BY <1>1, UpdateStep
<1>. HIDE DEF b, c, l
<1>3. BucketStep(b, c)
  BY <1>2 DEF BucketStep
<1>. QED  BY <1>2, <1>3 DEF b, c, l

(* What a second does to a limiter that nobody touches. *)
LEMMA TickIsBucketStep ==
  ASSUME NEW limiter \in RateLimiterType \cup {None}, NEW time \in Nat, LimiterOK(limiter, time)
  PROVE  /\ LimiterOK(limiter, time + 1)
         /\ BucketStep(UpToDate(limiter, time), UpToDate(limiter, time + 1))
<1>1. CASE limiter = None
  BY <1>1 DEF UpToDate, LimiterOK, BucketStep
<1>2. CASE limiter # None
  <2>. DEFINE b == UpToDate(limiter, time)
              c == UpToDate(limiter, time + 1)
  <2>1. b # None
    BY <1>2, UpToDateType
  <2>2. LimiterOK(limiter, time + 1) /\ c = Out!Fill(b, b.rate)
    BY <1>2, SecondStep
  <2>. HIDE DEF b, c
  <2>3. BucketStep(b, c)
    BY <2>1, <2>2 DEF BucketStep
  <2>. QED  BY <2>2, <2>3 DEF b, c
<1>. QED  BY <1>1, <1>2

(* Every step of the program is a step of both buckets, or of one, or of none. *)
LEMMA NextIsBucketStep ==
  ASSUME TypeOK, [Next]_vars
  PROVE  /\ TypeOK'
         /\ BucketStep(UpToDate(outbound, now), UpToDate(outbound', now'))
         /\ BucketStep(UpToDate(inbound, now), UpToDate(inbound', now'))
<1>0. /\ now \in Nat
      /\ outbound \in RateLimiterType \cup {None} /\ LimiterOK(outbound, now)
      /\ inbound \in RateLimiterType \cup {None} /\ LimiterOK(inbound, now)
  BY LimitersTyped
<1>s. ASSUME NEW b PROVE BucketStep(b, b)
  BY DEF BucketStep
<1>1. ASSUME NEW amount \in Amounts, Send(amount) \/ LzReceive(amount)
      PROVE  /\ TypeOK'
             /\ BucketStep(UpToDate(outbound, now), UpToDate(outbound', now'))
             /\ BucketStep(UpToDate(inbound, now), UpToDate(inbound', now'))
  <2>1. amount \in U64Values
    BY AmountsAssumption
  <2>2. CASE Send(amount)
    BY <1>0, <2>1, <2>2, ConsumeIsBucketStep, RefillIsBucketStep DEF Send, TypeOK
  <2>3. CASE LzReceive(amount)
    BY <1>0, <2>1, <2>3, ConsumeIsBucketStep, RefillIsBucketStep DEF LzReceive, TypeOK
  <2>. QED  BY <1>1, <2>2, <2>3
<1>2. ASSUME NEW params \in LimitParams, SetOutboundRateLimit(params) \/ SetInboundRateLimit(params)
      PROVE  /\ TypeOK'
             /\ BucketStep(UpToDate(outbound, now), UpToDate(outbound', now'))
             /\ BucketStep(UpToDate(inbound, now), UpToDate(inbound', now'))
  <2>1. CASE SetOutboundRateLimit(params)
    BY <1>0, <1>s, <2>1, UpdateIsBucketStep DEF SetOutboundRateLimit, TypeOK
  <2>2. CASE SetInboundRateLimit(params)
    BY <1>0, <1>s, <2>2, UpdateIsBucketStep DEF SetInboundRateLimit, TypeOK
  <2>. QED  BY <1>2, <2>1, <2>2
<1>3. CASE Tick
  BY <1>0, <1>3, TickIsBucketStep DEF Tick, TypeOK
<1>4. CASE UNCHANGED vars
  BY <1>0, <1>s, <1>4 DEF vars, TypeOK
<1>. QED  BY <1>1, <1>2, <1>3, <1>4 DEF Next

(* A new peer has no limiter in either direction. *)
LEMMA InitTyped == Init => TypeOK /\ UpToDate(outbound, now) = None /\ UpToDate(inbound, now) = None
BY DEF Init, TypeOK, LimiterOK, UpToDate

(* A stored limiter never holds more than its capacity and was never brought
   up to date in the future, whatever the admin, the users and the clock do. *)
THEOREM LimitersAlwaysOK == Spec => []TypeOK
BY InitTyped, NextIsBucketStep, PTL DEF Spec

(* The lazily refilled outbound limiter implements the bucket refilled every
   second. *)
THEOREM OutboundImplementsBucket == Spec => OutboundIsBucket
<1>1. Init => Out!Init
  BY InitTyped DEF Out!Init
<1>2. TypeOK /\ [Next]_vars => [Out!Next]_(UpToDate(outbound, now))
  <2>. SUFFICES ASSUME TypeOK, [Next]_vars
                PROVE  [Out!Next]_(UpToDate(outbound, now))
    OBVIOUS
  <2>1. BucketStep(UpToDate(outbound, now), UpToDate(outbound', now'))
    BY NextIsBucketStep
  <2>2. UpToDate(outbound, now)' = UpToDate(outbound', now')
    BY DEF UpToDate
  <2>. DEFINE b == UpToDate(outbound, now)
  <2>3. BucketStep(b, b')
    BY <2>1, <2>2
  <2>4. Out!U64Values = U64Values
    BY DEF Out!U64Values, U64Values
  <2>. QED
    BY <2>3, <2>4 DEF BucketStep, Out!Next, Out!Second, Out!Take, Out!Return,
       Out!NewCapacity, Out!NewRate, Out!Remove
<1>. QED  BY <1>1, <1>2, LimitersAlwaysOK, PTL DEF Spec, OutboundIsBucket, Out!Spec

(* So does the inbound one, with the roles of sends and receipts exchanged. *)
THEOREM InboundImplementsBucket == Spec => InboundIsBucket
<1>1. Init => In!Init
  BY InitTyped DEF In!Init
<1>2. TypeOK /\ [Next]_vars => [In!Next]_(UpToDate(inbound, now))
  <2>. SUFFICES ASSUME TypeOK, [Next]_vars
                PROVE  [In!Next]_(UpToDate(inbound, now))
    OBVIOUS
  <2>1. BucketStep(UpToDate(inbound, now), UpToDate(inbound', now'))
    BY NextIsBucketStep
  <2>2. UpToDate(inbound, now)' = UpToDate(inbound', now')
    BY DEF UpToDate
  <2>. DEFINE b == UpToDate(inbound, now)
  <2>3. BucketStep(b, b')
    BY <2>1, <2>2
  <2>4. In!U64Values = U64Values
    BY DEF In!U64Values, U64Values
  <2>5. \A x, amount : Out!Fill(x, amount) = In!Fill(x, amount)
    BY DEF Out!Fill, In!Fill, Out!Lesser, In!Lesser
  <2>. QED
    BY <2>3, <2>4, <2>5 DEF BucketStep, In!Next, In!Second, In!Take, In!Return,
       In!NewCapacity, In!NewRate, In!Remove
<1>. QED  BY <1>1, <1>2, LimitersAlwaysOK, PTL DEF Spec, InboundIsBucket, In!Spec

-------------------------------------------------------------------------------
(* The net flow *)

(* The observer changes nothing. *)
LEMMA ObserverIsHidden == FlowSpec => Spec
<1>1. FlowInit => Init
  BY DEF FlowInit
<1>2. [FlowNext]_flow_vars => [Next]_vars
  BY DEF FlowNext, Next, Observe, SendCounted, LzReceiveCounted, SetOutboundRateLimitUncounted,
         SetInboundRateLimitUncounted, TickCounted, flow_vars, vars
<1>. QED  BY <1>1, <1>2, PTL DEF FlowSpec, Spec

(* A bucket from which a net amount was taken since a time: what was taken and
   what is left are no more than what it can hold and has earned. *)
Covers(b, net, elapsed) ==
  /\ b \in Bucket
  /\ b.tokens + net <= b.capacity + b.rate * elapsed

FlowOK(c, out, in, time) ==
  c # None =>
    /\ c \in Counts
    /\ c.since <= time
    /\ Covers(UpToDate(IF c.way = "outbound" THEN out ELSE in, time), c.net, time - c.since)

FlowInv == FlowOK(count, outbound, inbound, now)

(* Taking from it, returning to it and a second that passes keep that. *)
LEMMA CoversTake ==
  ASSUME NEW b, NEW net \in Int, NEW elapsed \in Nat, Covers(b, net, elapsed),
         NEW amount \in U64Values, b.tokens >= amount
  PROVE  Covers([b EXCEPT !.tokens = b.tokens - amount], net + amount, elapsed)
<1>. DEFINE c == [b EXCEPT !.tokens = b.tokens - amount]
            earned == b.rate * elapsed
<1>1. /\ b \in Bucket /\ b.tokens \in Nat /\ b.capacity \in Nat /\ b.rate \in Nat
      /\ amount \in Nat /\ b.tokens <= U64Max
  BY U64MaxAssumption DEF Covers, Bucket, U64Values
<1>2. b.tokens - amount \in U64Values
  BY <1>1, U64MaxAssumption DEF U64Values
<1>3. /\ c \in Bucket /\ c.tokens = b.tokens - amount
      /\ c.capacity = b.capacity /\ c.rate = b.rate
  BY <1>1, <1>2 DEF Bucket
<1>4. earned \in Nat /\ b.tokens + net <= b.capacity + earned
  BY <1>1 DEF Covers
<1>. HIDE DEF c
<1>5. c.rate * elapsed = earned
  BY <1>3
<1>. HIDE DEF earned
<1>6. c.tokens + (net + amount) <= c.capacity + earned
  BY <1>1, <1>3, <1>4
<1>. QED  BY <1>3, <1>5, <1>6 DEF Covers, c

LEMMA FilledType ==
  ASSUME NEW b \in Bucket, NEW amount \in Nat
  PROVE  /\ Out!Fill(b, amount) \in Bucket
         /\ Out!Fill(b, amount).capacity = b.capacity
         /\ Out!Fill(b, amount).rate = b.rate
         /\ Out!Fill(b, amount).tokens <= b.tokens + amount
<1>. DEFINE full == Out!Lesser(b.capacity, b.tokens + amount)
<1>1. b.capacity \in U64Values /\ b.capacity \in Nat /\ b.tokens \in Nat
  BY U64MaxAssumption DEF Bucket, U64Values
<1>2. full \in U64Values /\ full <= b.tokens + amount
  BY <1>1, U64MaxAssumption DEF Out!Lesser, U64Values
<1>3. Out!Fill(b, amount) = [b EXCEPT !.tokens = full]
  BY DEF Out!Fill, Bucket
<1>. HIDE DEF full
<1>. QED  BY <1>2, <1>3 DEF Bucket

LEMMA CoversReturn ==
  ASSUME NEW b, NEW net \in Int, NEW elapsed \in Nat, Covers(b, net, elapsed),
         NEW amount \in Nat
  PROVE  Covers(Out!Fill(b, amount), net - amount, elapsed)
<1>. DEFINE c == Out!Fill(b, amount)
            earned == b.rate * elapsed
<1>1. /\ b \in Bucket /\ b.tokens \in Nat /\ b.capacity \in Nat /\ b.rate \in Nat
  BY U64MaxAssumption DEF Covers, Bucket, U64Values
<1>2. /\ c \in Bucket /\ c.capacity = b.capacity /\ c.rate = b.rate
      /\ c.tokens <= b.tokens + amount
  BY <1>1, FilledType
<1>3. c.tokens \in Nat
  BY <1>2, U64MaxAssumption DEF Bucket, U64Values
<1>4. earned \in Nat /\ b.tokens + net <= b.capacity + earned
  BY <1>1 DEF Covers
<1>. HIDE DEF c
<1>5. c.rate * elapsed = earned
  BY <1>2
<1>. HIDE DEF earned
<1>6. c.tokens + (net - amount) <= c.capacity + earned
  BY <1>1, <1>2, <1>3, <1>4
<1>. QED  BY <1>2, <1>5, <1>6 DEF Covers, c

LEMMA CoversSecond ==
  ASSUME NEW b, NEW net \in Int, NEW elapsed \in Nat, Covers(b, net, elapsed)
  PROVE  Covers(Out!Fill(b, b.rate), net, elapsed + 1)
<1>. DEFINE c == Out!Fill(b, b.rate)
            earned == b.rate * elapsed
<1>1. /\ b \in Bucket /\ b.tokens \in Nat /\ b.capacity \in Nat /\ b.rate \in Nat
  BY U64MaxAssumption DEF Covers, Bucket, U64Values
<1>2. /\ c \in Bucket /\ c.capacity = b.capacity /\ c.rate = b.rate
      /\ c.tokens <= b.tokens + b.rate
  BY <1>1, FilledType
<1>3. c.tokens \in Nat
  BY <1>2, U64MaxAssumption DEF Bucket, U64Values
<1>4. earned \in Nat /\ b.tokens + net <= b.capacity + earned
  BY <1>1 DEF Covers
<1>5. b.rate * (elapsed + 1) = earned + b.rate
  BY <1>1
<1>. HIDE DEF c
<1>6. c.rate * (elapsed + 1) = earned + b.rate
  BY <1>2, <1>5
<1>. HIDE DEF earned
<1>7. c.tokens + net <= c.capacity + (earned + b.rate)
  BY <1>1, <1>2, <1>3, <1>4
<1>. QED  BY <1>2, <1>6, <1>7 DEF Covers, c

(* What is covered is the bucket of a limiter there is. *)
LEMMA CoveredLimiter ==
  ASSUME NEW limiter \in RateLimiterType \cup {None}, NEW time \in Nat,
         NEW net, NEW elapsed, Covers(UpToDate(limiter, time), net, elapsed)
  PROVE  limiter # None /\ limiter \in RateLimiterType
BY NoneAssumption DEF Covers, UpToDate

(* A transfer of the way that is observed. *)
LEMMA CoversConsume ==
  ASSUME NEW limiter \in RateLimiterType \cup {None}, NEW time \in Nat, LimiterOK(limiter, time),
         NEW amount \in U64Values, CanConsume(limiter, amount, time),
         NEW net \in Int, NEW elapsed \in Nat, Covers(UpToDate(limiter, time), net, elapsed)
  PROVE  Covers(UpToDate(Consume(limiter, amount, time), time), net + amount, elapsed)
<1>1. limiter \in RateLimiterType
  BY CoveredLimiter
<1>2. /\ UpToDate(limiter, time).tokens >= amount
      /\ UpToDate(Consume(limiter, amount, time), time)
           = [UpToDate(limiter, time) EXCEPT !.tokens = UpToDate(limiter, time).tokens - amount]
  BY <1>1, TakeStep
<1>. QED  BY <1>2, CoversTake

(* A transfer of the other way. *)
LEMMA CoversRefill ==
  ASSUME NEW limiter \in RateLimiterType \cup {None}, NEW time \in Nat, LimiterOK(limiter, time),
         NEW amount \in U64Values,
         NEW net \in Int, NEW elapsed \in Nat, Covers(UpToDate(limiter, time), net, elapsed)
  PROVE  Covers(UpToDate(RefillIfSome(limiter, amount, time), time), net - amount, elapsed)
<1>1. limiter \in RateLimiterType /\ limiter # None /\ amount \in Nat
  BY CoveredLimiter, U64MaxAssumption DEF U64Values
<1>2. /\ RefillIfSome(limiter, amount, time) = Refill(limiter, amount, time)
      /\ UpToDate(Refill(limiter, amount, time), time) = Out!Fill(UpToDate(limiter, time), amount)
  BY <1>1, ReturnStep DEF RefillIfSome
<1>. QED  BY <1>1, <1>2, CoversReturn

(* What a transfer does to the count, and to both limiters. *)
LEMMA FlowTransfer ==
  ASSUME NEW limiter \in RateLimiterType \cup {None}, NEW other \in RateLimiterType \cup {None},
         NEW time \in Nat, LimiterOK(limiter, time), LimiterOK(other, time),
         NEW amount \in U64Values, CanConsume(limiter, amount, time),
         NEW way \in Ways, count \in Counts, Counted(way, amount) # None, count.since <= time,
         Covers(UpToDate(IF count.way = way THEN limiter ELSE other, time),
                count.net, time - count.since)
  PROVE  LET c == Counted(way, amount)
         IN  /\ c \in Counts /\ c.way = count.way /\ c.since = count.since
             /\ Covers(UpToDate(IF c.way = way THEN Consume(limiter, amount, time)
                                ELSE RefillIfSome(other, amount, time), time),
                       c.net, time - c.since)
<1>1. /\ count # None /\ count.net \in Int /\ time - count.since \in Nat /\ amount \in Int
      /\ count.way \in Ways
  BY NoCountAssumption, U64MaxAssumption DEF Counts, U64Values
<1>2. CASE count.way = way
  <2>1. Counted(way, amount) = [count EXCEPT !.net = count.net + amount]
    BY <1>1, <1>2 DEF Counted
  <2>2. Covers(UpToDate(Consume(limiter, amount, time), time), count.net + amount, time - count.since)
    BY <1>1, <1>2, CoversConsume
  <2>. QED  BY <1>1, <1>2, <2>1, <2>2 DEF Counts
<1>3. CASE count.way # way
  <2>1. Counted(way, amount) = [count EXCEPT !.net = count.net - amount]
    BY <1>1, <1>3 DEF Counted
  <2>2. Covers(UpToDate(RefillIfSome(other, amount, time), time), count.net - amount, time - count.since)
    BY <1>1, <1>3, CoversRefill
  <2>. QED  BY <1>1, <1>3, <2>1, <2>2 DEF Counts
<1>. QED  BY <1>2, <1>3

LEMMA FlowInvStep ==
  ASSUME TypeOK, FlowInv, [FlowNext]_flow_vars
  PROVE  FlowInv'
<1>0. /\ now \in Nat
      /\ outbound \in RateLimiterType \cup {None} /\ LimiterOK(outbound, now)
      /\ inbound \in RateLimiterType \cup {None} /\ LimiterOK(inbound, now)
  BY LimitersTyped
<1>. SUFFICES ASSUME count' # None PROVE FlowOK(count', outbound', inbound', now')
  BY DEF FlowInv, FlowOK
<1>1. ASSUME NEW way \in Ways, Observe(way) PROVE FlowOK(count', outbound', inbound', now')
  <2>. DEFINE limiter == LimiterOf(way)
              b == UpToDate(limiter, now)
  <2>1. /\ count' = [way |-> way, since |-> now, net |-> 0] /\ UNCHANGED vars
        /\ limiter \in RateLimiterType
        /\ LimiterOK(limiter, now)
        /\ limiter = IF way = "outbound" THEN outbound ELSE inbound
    BY <1>0, <1>1 DEF Observe, LimiterOf
  <2>. HIDE DEF limiter
  <2>2. /\ b \in Bucket /\ b.tokens <= limiter.capacity
        /\ b.capacity = limiter.capacity
    BY <1>0, <2>1, UpToDateType
  <2>. HIDE DEF b
  <2>3. b.tokens \in Nat /\ b.capacity \in Nat /\ b.rate \in Nat
    BY <2>2, U64MaxAssumption DEF Bucket, U64Values
  <2>4. b.rate * (now - now) = 0
    BY <1>0, <2>3
  <2>5. b.tokens + 0 <= b.capacity + b.rate * (now - now)
    BY <2>2, <2>3, <2>4
  <2>6. Covers(b, 0, now - now)
    BY <2>2, <2>5 DEF Covers
  <2>7. /\ count' \in Counts /\ count'.since = now /\ count'.net = 0 /\ count'.way = way
        /\ now' = now /\ outbound' = outbound /\ inbound' = inbound /\ now <= now
    BY <1>0, <2>1 DEF Counts, vars
  <2>. QED  BY <2>1, <2>6, <2>7 DEF FlowOK, b
<1>2. ASSUME NEW amount \in Amounts, SendCounted(amount)
      PROVE  FlowOK(count', outbound', inbound', now')
  <2>1. /\ count' = Counted("outbound", amount) /\ now' = now
        /\ CanConsume(outbound, amount, now)
        /\ outbound' = Consume(outbound, amount, now)
        /\ inbound' = RefillIfSome(inbound, amount, now)
        /\ amount \in U64Values /\ "outbound" \in Ways
    BY <1>2, AmountsAssumption DEF SendCounted, Send, Ways
  <2>2. /\ count \in Counts /\ count.since <= now
        /\ Covers(UpToDate(IF count.way = "outbound" THEN outbound ELSE inbound, now),
                  count.net, now - count.since)
    BY <2>1 DEF FlowInv, FlowOK, Counted
  <2>3. /\ count' \in Counts /\ count'.way = count.way /\ count'.since = count.since
        /\ Covers(UpToDate(IF count'.way = "outbound" THEN Consume(outbound, amount, now)
                           ELSE RefillIfSome(inbound, amount, now), now),
                  count'.net, now - count'.since)
    BY <1>0, <2>1, <2>2, FlowTransfer
  <2>. QED  BY <2>1, <2>2, <2>3 DEF FlowOK
<1>3. ASSUME NEW amount \in Amounts, LzReceiveCounted(amount)
      PROVE  FlowOK(count', outbound', inbound', now')
  <2>1. /\ count' = Counted("inbound", amount) /\ now' = now
        /\ CanConsume(inbound, amount, now)
        /\ inbound' = Consume(inbound, amount, now)
        /\ outbound' = RefillIfSome(outbound, amount, now)
        /\ amount \in U64Values /\ "inbound" \in Ways
    BY <1>3, AmountsAssumption DEF LzReceiveCounted, LzReceive, Ways
  <2>2. /\ count \in Counts /\ count.since <= now
        /\ Covers(UpToDate(IF count.way = "outbound" THEN outbound ELSE inbound, now),
                  count.net, now - count.since)
    BY <2>1 DEF FlowInv, FlowOK, Counted
  <2>3. (IF count.way = "outbound" THEN outbound ELSE inbound) =
          (IF count.way = "inbound" THEN inbound ELSE outbound)
    BY <2>2 DEF Counts, Ways
  <2>4. /\ count' \in Counts /\ count'.way = count.way /\ count'.since = count.since
        /\ Covers(UpToDate(IF count'.way = "inbound" THEN Consume(inbound, amount, now)
                           ELSE RefillIfSome(outbound, amount, now), now),
                  count'.net, now - count'.since)
    BY <1>0, <2>1, <2>2, <2>3, FlowTransfer
  <2>5. (IF count'.way = "outbound" THEN outbound' ELSE inbound') =
          (IF count'.way = "inbound" THEN Consume(inbound, amount, now)
           ELSE RefillIfSome(outbound, amount, now))
    BY <2>1, <2>4 DEF Counts, Ways
  <2>. QED  BY <2>1, <2>2, <2>4, <2>5 DEF FlowOK
<1>4. ASSUME NEW params \in LimitParams,
             SetOutboundRateLimitUncounted(params) \/ SetInboundRateLimitUncounted(params)
      PROVE  FlowOK(count', outbound', inbound', now')
  <2>1. CASE SetOutboundRateLimitUncounted(params)
    <3>1. count' = count /\ count.way # "outbound" /\ inbound' = inbound /\ now' = now
      BY <2>1 DEF SetOutboundRateLimitUncounted, SetOutboundRateLimit, CountedUnless
    <3>. QED  BY <3>1 DEF FlowInv, FlowOK
  <2>2. CASE SetInboundRateLimitUncounted(params)
    <3>1. count' = count /\ count.way # "inbound" /\ outbound' = outbound /\ now' = now
      BY <2>2 DEF SetInboundRateLimitUncounted, SetInboundRateLimit, CountedUnless
    <3>2. count.way = "outbound"
      BY <3>1 DEF FlowInv, FlowOK, Counts, Ways
    <3>. QED  BY <3>1, <3>2 DEF FlowInv, FlowOK
  <2>. QED  BY <1>4, <2>1, <2>2
<1>5. CASE TickCounted
  <2>. DEFINE limiter == IF count.way = "outbound" THEN outbound ELSE inbound
  <2>1. /\ count' = count /\ now' = now + 1 /\ outbound' = outbound /\ inbound' = inbound
    BY <1>5 DEF TickCounted, Tick
  <2>2. /\ count \in Counts /\ count.since <= now
        /\ Covers(UpToDate(limiter, now), count.net, now - count.since)
    BY <2>1 DEF FlowInv, FlowOK
  <2>3. limiter \in RateLimiterType \cup {None} /\ LimiterOK(limiter, now)
    BY <1>0
  <2>. HIDE DEF limiter
  <2>4. limiter \in RateLimiterType
    BY <1>0, <2>2, <2>3, CoveredLimiter
  <2>5. UpToDate(limiter, now + 1) = Out!Fill(UpToDate(limiter, now), UpToDate(limiter, now).rate)
    BY <1>0, <2>3, <2>4, SecondStep
  <2>6. count.net \in Int /\ count.since \in Nat
    BY <2>2 DEF Counts
  <2>7. /\ now - count.since \in Nat /\ (now + 1) - count.since = (now - count.since) + 1
        /\ count.since <= now + 1
    BY <1>0, <2>2, <2>6
  <2>8. Covers(UpToDate(limiter, now + 1), count.net, (now + 1) - count.since)
    BY <2>2, <2>5, <2>6, <2>7, CoversSecond
  <2>. QED  BY <2>1, <2>2, <2>7, <2>8 DEF FlowOK, limiter
<1>6. CASE UNCHANGED flow_vars
  BY <1>6 DEF flow_vars, FlowInv
<1>. QED  BY <1>1, <1>2, <1>3, <1>4, <1>5, <1>6 DEF FlowNext

(* From any moment on, the net amount that goes one way is at most the
   capacity and what the rate allows in that time, for every width, capacity
   and rate and for any interleaving of transfers, configurations of the other
   limiter and time. *)
THEOREM NetFlowAlwaysLimited == FlowSpec => []NetFlowIsLimited
<1>1. FlowInit => FlowInv
  BY DEF FlowInit, FlowInv, FlowOK
<1>2. TypeOK /\ FlowInv => NetFlowIsLimited
  <2>. SUFFICES ASSUME TypeOK, FlowInv, count # None PROVE NetFlowIsLimited
    BY DEF NetFlowIsLimited
  <2>. DEFINE limiter == LimiterOf(count.way)
              b == UpToDate(limiter, now)
  <2>1. /\ now \in Nat /\ limiter \in RateLimiterType \cup {None} /\ LimiterOK(limiter, now)
    BY LimitersTyped DEF LimiterOf
  <2>2. /\ count \in Counts /\ count.since <= now
        /\ Covers(b, count.net, now - count.since)
    BY DEF FlowInv, FlowOK, LimiterOf
  <2>. HIDE DEF limiter
  <2>3. limiter \in RateLimiterType /\ limiter # None
    BY <2>1, <2>2, CoveredLimiter
  <2>4. b.capacity = limiter.capacity /\ b.rate = limiter.refill_per_second
    BY <2>1, <2>3, UpToDateType
  <2>5. /\ b.tokens \in Nat /\ b.capacity \in Nat /\ b.rate \in Nat
        /\ count.net \in Int /\ now - count.since \in Nat
    BY <2>1, <2>2, U64MaxAssumption DEF Covers, Bucket, Counts, U64Values
  <2>. DEFINE earned == b.rate * (now - count.since)
  <2>6. earned \in Nat /\ b.tokens + count.net <= b.capacity + earned
    BY <2>2, <2>5 DEF Covers
  <2>. HIDE DEF b
  <2>7. limiter.refill_per_second * (now - count.since) = earned
    BY <2>4
  <2>. HIDE DEF earned
  <2>8. count.net <= b.capacity + earned
    BY <2>5, <2>6
  <2>. QED  BY <2>3, <2>4, <2>7, <2>8 DEF NetFlowIsLimited, limiter
<1>. QED  BY <1>1, <1>2, FlowInvStep, ObserverIsHidden, LimitersAlwaysOK, PTL DEF FlowSpec
===============================================================================
