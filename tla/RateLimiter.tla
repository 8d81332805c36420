----------------------------- MODULE RateLimiter -----------------------------
(***************************************************************************)
(* The token bucket a peer's transfers go through (RateLimiter in          *)
(* state/peer_config.rs).  A bucket is only brought up to date when it is  *)
(* used: refill adds what has accrued since last_refill_time, and every    *)
(* operation that reads tokens refills first.  "now" is the Clock sysvar's *)
(* unix_timestamp; the runtime never lets it go back.                      *)
(***************************************************************************)
EXTENDS U64

RateLimiterType ==
  [capacity : U64Values, tokens : U64Values, refill_per_second : U64Values,
   last_refill_time : Nat]

(* What an admin submits for a limiter; an absent field is left as it is. *)
RateLimitParams ==
  [capacity : U64Values \cup {None}, refill_per_second : U64Values \cup {None}]

DefaultLimiter ==
  [capacity |-> 0, tokens |-> 0, refill_per_second |-> 0, last_refill_time |-> 0]

(* What the bucket has earned since it was last brought up to date. *)
Accrued(limiter, now) ==
  IF now > limiter.last_refill_time
  THEN SaturatingMul(now - limiter.last_refill_time, limiter.refill_per_second)
  ELSE 0

Refill_Uncapped(limiter, extra_tokens, now) ==
  [limiter EXCEPT
     !.tokens = SaturatingAdd(@, SaturatingAdd(extra_tokens, Accrued(limiter, now))),
     !.last_refill_time = now]

Refill(limiter, extra_tokens, now) ==
  [limiter EXCEPT
     !.tokens = Lesser(limiter.capacity,
                       SaturatingAdd(@, SaturatingAdd(extra_tokens, Accrued(limiter, now)))),
     !.last_refill_time = now]

SetRate_KeepsClock(limiter, refill_per_second, now) ==
  [limiter EXCEPT !.refill_per_second = refill_per_second]

(* What accrued so far accrued at the old rate. *)
SetRate(limiter, refill_per_second, now) ==
  [Refill(limiter, 0, now) EXCEPT !.refill_per_second = refill_per_second]

SetCapacity_KeepsTokens(limiter, capacity, now) ==
  [limiter EXCEPT !.capacity = capacity, !.last_refill_time = now]

(* A new capacity is a full bucket. *)
SetCapacity(limiter, capacity, now) ==
  [limiter EXCEPT !.capacity = capacity, !.tokens = capacity, !.last_refill_time = now]

-------------------------------------------------------------------------------
(* A peer's limiter is optional; these are the uses send and lz_receive
   make of it. *)

CanConsume_OfCapacity(limiter, amount, now) ==
  limiter # None => limiter.capacity >= amount

(* try_consume: enough tokens once the bucket is up to date. *)
CanConsume(limiter, amount, now) ==
  limiter # None => Refill(limiter, 0, now).tokens >= amount

Consume(limiter, amount, now) ==
  IF limiter = None
  THEN None
  ELSE [Refill(limiter, 0, now) EXCEPT !.tokens = @ - amount]

RefillIfSome(limiter, extra_tokens, now) ==
  IF limiter = None THEN None ELSE Refill(limiter, extra_tokens, now)

(* update_rate_limiter: None removes the limiter; otherwise an absent limiter
   starts from the default one, and the capacity is set before the rate. *)
UpdateRateLimiter(limiter, params, now) ==
  IF params = None THEN None ELSE
    LET base   == IF limiter = None THEN DefaultLimiter ELSE limiter
        filled == IF params.capacity = None
                  THEN base ELSE SetCapacity(base, params.capacity, now)
    IN  IF params.refill_per_second = None
        THEN filled ELSE SetRate(filled, params.refill_per_second, now)
===============================================================================
