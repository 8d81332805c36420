------------------------------- MODULE NetFlow --------------------------------
(***************************************************************************)
(* What the limits of a peer mean for the tokens that cross: PeerLimits    *)
(* with an observer who, at any time, begins to count the net amount that  *)
(* goes one way, and stops when the admin configures the limiter of that   *)
(* way.  The observer is a history variable; the program does not see it.  *)
(***************************************************************************)
EXTENDS PeerLimits

CONSTANT MaxReturned   \* bound on what the observer counts below zero

ASSUME MaxReturnedAssumption == MaxReturned \in Nat

VARIABLE
  count   \* None, or the way observed, since when, and the net amount

flow_vars == <<now, outbound, inbound, count>>

Ways == {"outbound", "inbound"}
Counts == [way : Ways, since : Nat, net : Int]

ASSUME NoCountAssumption == None \notin Counts

LimiterOf(way) == IF way = "outbound" THEN outbound ELSE inbound

(* An amount that crossed; one that leaves no room below the bound ends the
   count. *)
Counted(way, amount) ==
  IF count = None THEN None ELSE
    LET net == IF count.way = way THEN count.net + amount ELSE count.net - amount
    IN  IF net < -MaxReturned THEN None ELSE [count EXCEPT !.net = net]

CountedUnless(way) == IF count # None /\ count.way = way THEN None ELSE count

-------------------------------------------------------------------------------
FlowInit == Init /\ count = None

Observe(way) ==
  /\ count = None
  /\ LimiterOf(way) # None
  /\ count' = [way |-> way, since |-> now, net |-> 0]
  /\ UNCHANGED vars

SendCounted(amount) == Send(amount) /\ count' = Counted("outbound", amount)

LzReceiveCounted(amount) == LzReceive(amount) /\ count' = Counted("inbound", amount)

SetOutboundRateLimitUncounted(params) ==
  SetOutboundRateLimit(params) /\ count' = CountedUnless("outbound")

SetInboundRateLimitUncounted(params) ==
  SetInboundRateLimit(params) /\ count' = CountedUnless("inbound")

TickCounted == Tick /\ UNCHANGED count

FlowNext ==
  \/ \E way \in Ways : Observe(way)
  \/ \E amount \in Amounts : SendCounted(amount) \/ LzReceiveCounted(amount)
  \/ \E params \in LimitParams :
       SetOutboundRateLimitUncounted(params) \/ SetInboundRateLimitUncounted(params)
  \/ TickCounted

FlowSpec == FlowInit /\ [][FlowNext]_flow_vars

-------------------------------------------------------------------------------
(* From any moment on, and for as long as the limiter of that way is not
   configured anew, no more goes one way, less what comes back, than the
   capacity and what the rate allows in that time: however transfers of both
   ways interleave, and however seldom the limiter is brought up to date. *)
NetFlowIsLimited ==
  count # None =>
    LET limiter == LimiterOf(count.way)
    IN  /\ limiter # None
        /\ count.net <= limiter.capacity + limiter.refill_per_second * (now - count.since)
===============================================================================
