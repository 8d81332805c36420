------------------------------ MODULE PeerLimits ------------------------------
(***************************************************************************)
(* The two rate limiters of one peer, as send, lz_receive and              *)
(* set_peer_config use them: a transfer consumes the limiter of its own    *)
(* direction and refills the other one, so the limits are on the net flow. *)
(***************************************************************************)
EXTENDS RateLimiter

CONSTANTS
  Amounts,      \* the amounts that are transferred
  LimitParams,  \* the RateLimitParams an admin may submit, None to remove the limiter
  MaxTime       \* bound on the clock

ASSUME AmountsAssumption == Amounts \subseteq U64Values
ASSUME LimitParamsAssumption == LimitParams \subseteq RateLimitParams \cup {None}

(* A bucket that has been configured, as TokenBucket sees it. *)
Bucket == [capacity : U64Values, rate : U64Values, tokens : U64Values]

ASSUME NoneAssumption ==
  None \notin U64Values \cup RateLimiterType \cup RateLimitParams \cup Bucket
ASSUME MaxTimeAssumption == MaxTime \in Nat

VARIABLES
  now,       \* Clock::unix_timestamp
  outbound,  \* PeerConfig.outbound_rate_limiter
  inbound    \* PeerConfig.inbound_rate_limiter

vars == <<now, outbound, inbound>>

Init ==
  /\ now = 0
  /\ outbound = None
  /\ inbound = None

(* send: the limit is checked and consumed, the opposite one refilled. *)
Send(amount) ==
  /\ CanConsume(outbound, amount, now)
  /\ outbound' = Consume(outbound, amount, now)
  /\ inbound' = RefillIfSome(inbound, amount, now)
  /\ now' = now

LzReceive(amount) ==
  /\ CanConsume(inbound, amount, now)
  /\ inbound' = Consume(inbound, amount, now)
  /\ outbound' = RefillIfSome(outbound, amount, now)
  /\ now' = now

SetOutboundRateLimit(params) ==
  /\ outbound' = UpdateRateLimiter(outbound, params, now)
  /\ UNCHANGED <<now, inbound>>

SetInboundRateLimit(params) ==
  /\ inbound' = UpdateRateLimiter(inbound, params, now)
  /\ UNCHANGED <<now, outbound>>

Tick ==
  /\ now < MaxTime
  /\ now' = now + 1
  /\ UNCHANGED <<outbound, inbound>>

Next ==
  \/ \E amount \in Amounts : Send(amount) \/ LzReceive(amount)
  \/ \E params \in LimitParams : SetOutboundRateLimit(params) \/ SetInboundRateLimit(params)
  \/ Tick

Spec == Init /\ [][Next]_vars

-------------------------------------------------------------------------------
LimiterOK(limiter, time) ==
  limiter # None => /\ limiter \in RateLimiterType
                    /\ limiter.tokens <= limiter.capacity
                    /\ limiter.last_refill_time <= time

(* A stored limiter never holds more than its capacity, and was never brought
   up to date in the future. *)
TypeOK ==
  /\ now \in Nat
  /\ LimiterOK(outbound, now)
  /\ LimiterOK(inbound, now)

(* What the limiter would hold if it were used at a time. *)
UpToDate(limiter, time) ==
  IF limiter = None
  THEN None
  ELSE [capacity |-> limiter.capacity,
        rate     |-> limiter.refill_per_second,
        tokens   |-> Refill(limiter, 0, time).tokens]

Out == INSTANCE TokenBucket WITH bucket <- UpToDate(outbound, now)
In  == INSTANCE TokenBucket WITH bucket <- UpToDate(inbound, now)

(* The lazily refilled limiter is the bucket that is refilled every second:
   for any interleaving of transfers, configurations and time, what send may
   still take out is what a capacity filled at its rate, less the sends and
   plus the receipts, allows.  No second is counted twice, none at a rate
   that was not in force, and nothing accrues above the capacity. *)
OutboundIsBucket == Out!Spec

(* The same of the inbound limiter, with receipts consuming and sends
   returning. *)
InboundIsBucket == In!Spec
===============================================================================
