----------------------------- MODULE Bridge_proofs -----------------------------
(***************************************************************************)
(* The OFT program and the bridge that it makes with its remote            *)
(* applications, for every token, fee, rate limit, number of messages and  *)
(* width.                                                                  *)
(*                                                                         *)
(* Of the program: type correctness, that the escrow of an adapter covers  *)
(* what it has locked, and that what is locked, burnt and minted is what   *)
(* the messages carry.  Of the bridge: that every claim of the other       *)
(* chains is backed, and that it implements TokenBridge.                   *)
(*                                                                         *)
(* The invariant adds to the type invariant that only finitely many        *)
(* messages exist, which the nonces need, and that every message has a     *)
(* nonce of its own, so that one more message is one more value.           *)
(***************************************************************************)
EXTENDS Executor, OFTAmounts_proofs, RateLimiter_proofs

MessagesFinite == IsFiniteSet(outbox) /\ IsFiniteSet(inbox)

-------------------------------------------------------------------------------
(* Conversions between decimals. *)
LEMMA DecimalsType ==
  /\ \A amount_ld \in U64Values : Ld2sd(amount_ld) \in U64Values
  /\ \A amount_sd \in Nat : Sd2ld(amount_sd) \in Nat
<1>1. ASSUME NEW amount_ld \in U64Values PROVE Ld2sd(amount_ld) \in U64Values
  <2>. DEFINE q == amount_ld \div Ld2sdRate
  <2>1. q \in Nat /\ q * Ld2sdRate <= amount_ld
    BY DivBounds, Ld2sdRateAssumption, U64MaxAssumption DEF U64Values
  <2>. HIDE DEF q
  <2>2. q <= q * Ld2sdRate
    BY <2>1, Ld2sdRateAssumption
  <2>3. q <= amount_ld
    BY <2>1, <2>2, Ld2sdRateAssumption, U64MaxAssumption DEF U64Values
  <2>4. q \in U64Values
    BY <2>1, <2>3, U64MaxAssumption DEF U64Values
  <2>. QED  BY <2>4 DEF Ld2sd, q
<1>2. ASSUME NEW amount_sd \in Nat PROVE Sd2ld(amount_sd) \in Nat
  BY Ld2sdRateAssumption DEF Sd2ld
<1>. QED  BY <1>1, <1>2

-------------------------------------------------------------------------------
(* Type correctness *)

Inv == TypeOK /\ MessagesFinite

(* The program starts with an empty escrow and no message. *)
LEMMA InitInv == Init => Inv
<1>. SUFFICES ASSUME Init PROVE Inv
  OBVIOUS
<1>1. store \in OFTStore
  BY OneInBasisPointsAssumption, U64MaxAssumption DEF Init, OFTStore, FeeBps, U64Values
<1>2. transfer_fee \in TransferFee
  BY <1>1, InputsAssumption DEF Init, OftType, OFTStore
<1>3. mint_authority \in StoreMints \cup {"other", None}
  BY DEF Init
<1>4. MessagesFinite
  BY FS_EmptySet DEF Init, MessagesFinite
<1>. QED
  BY <1>1, <1>2, <1>3, <1>4, InitialBalanceAssumption DEF Init, Inv, TypeOK

(* The peer account that set_peer_config changes, new or not, is one. *)
LEMMA PeerOrNewType ==
  ASSUME TypeOK, NEW eid \in Eids
  PROVE  PeerOrNew(eid) \in PeerConfig
BY DEF TypeOK, PeerOrNew, PeerConfig

(* A nonce is a count of messages. *)
LEMMA NoncesAreNat ==
  ASSUME MessagesFinite, NEW eid, NEW address
  PROVE  NextOutboundNonce(eid, address) \in Nat /\ NextInboundNonce(eid, address) \in Nat
<1>. DEFINE out == {m \in outbox : m.dst_eid = eid /\ m.receiver = address}
            in  == {m \in inbox : m.src_eid = eid /\ m.sender = address}
<1>1. IsFiniteSet(out) /\ IsFiniteSet(in)
  BY FS_Subset DEF MessagesFinite
<1>2. Cardinality(out) \in Nat /\ Cardinality(in) \in Nat
  BY <1>1, FS_CardinalityType
<1>. QED  BY <1>2 DEF NextOutboundNonce, NextInboundNonce

(* A send changes the accounts it names to well-typed ones, and adds one
   message to the outbox. *)
LEMMA SendInv ==
  ASSUME Inv, NEW k \in Keys, NEW eid \in Eids, NEW amount_ld \in SendAmounts,
         Send(k, eid, amount_ld)
  PROVE  Inv'
<1>. DEFINE r == AmountsFor(eid, amount_ld)
            p == peer[eid]
            m == [dst_eid |-> eid, receiver |-> p.peer_address,
                  nonce |-> NextOutboundNonce(eid, p.peer_address),
                  amount_sd |-> MessageAmount(r)]
<1>0. p \in PeerConfig /\ amount_ld \in U64Values /\ amount_ld \in Nat
  BY InputsAssumption, U64MaxAssumption DEF Inv, TypeOK, Send, U64Values
<1>1. /\ r.sent \in Nat /\ r.received \in Nat /\ r.fee \in Nat
      /\ r.received <= amount_ld
  <2>1. transfer_fee \in TransferFee /\ store.default_fee_bps \in FeeBps
    BY DEF Inv, TypeOK, OFTStore
  <2>2. p.fee_bps \in FeeBps \cup {None}
    BY <1>0 DEF PeerConfig
  <2>3. /\ r.sent \in Nat /\ r.received \in Nat /\ r.fee \in Nat
        /\ r.sent <= amount_ld /\ r.received + r.fee <= r.sent
    BY <1>0, <2>1, <2>2, AmountsOfSend DEF AmountsFor
  <2>. QED  BY <1>0, <2>3
<1>. HIDE DEF r, p
<1>2. peer' \in [Eids -> PeerConfig \cup {None}]
  <2>. DEFINE outbound == Consume(p.outbound_rate_limiter, r.received, now)
              inbound  == RefillIfSome(p.inbound_rate_limiter, r.received, now)
  <2>1. peer' = [peer EXCEPT ![eid].outbound_rate_limiter = outbound,
                             ![eid].inbound_rate_limiter = inbound]
    BY DEF Send, r, p, Inv, TypeOK
  <2>2. /\ p.outbound_rate_limiter \in RateLimiterType \cup {None}
        /\ p.inbound_rate_limiter \in RateLimiterType \cup {None}
        /\ now \in Nat
        /\ CanConsume(p.outbound_rate_limiter, r.received, now)
    BY <1>0 DEF PeerConfig, Send, r, p, Inv, TypeOK
  <2>3. outbound \in RateLimiterType \cup {None} /\ inbound \in RateLimiterType \cup {None}
    BY <1>1, <2>2, ConsumeType, RefillIfSomeType
  <2>. HIDE DEF outbound, inbound
  <2>4. [p EXCEPT !.outbound_rate_limiter = outbound, !.inbound_rate_limiter = inbound] \in PeerConfig
    BY <1>0, <2>3 DEF PeerConfig
  <2>. QED  BY <2>1, <2>4 DEF Inv, TypeOK, p
<1>3. /\ store' \in OFTStore
      /\ wallet' \in [Keys -> Nat]
      /\ escrow' \in Nat
  <2>1. CASE Lock(k, r)
    <3>1. PostFeeAmount(transfer_fee, r.sent) \in Nat
      BY <1>1, AmountsAreNat DEF Inv, TypeOK
    <3>2. store.tvl_ld + r.received \in U64Values
      BY <1>1, <2>1, U64MaxAssumption DEF Lock, LockedTvl, Inv, TypeOK, OFTStore, U64Values
    <3>3. store' \in OFTStore
      BY <2>1, <3>2 DEF Lock, LockedTvl, Inv, TypeOK, OFTStore
    <3>4. wallet' \in [Keys -> Nat]
      BY <1>1, <2>1 DEF Lock, Inv, TypeOK
    <3>. QED  BY <2>1, <3>1, <3>3, <3>4 DEF Lock, Inv, TypeOK
  <2>2. CASE BurnAndKeepFee(k, r)
    <3>1. PostFeeAmount(transfer_fee, r.fee) \in Nat
      BY <1>1, AmountsAreNat DEF Inv, TypeOK
    <3>2. wallet' \in [Keys -> Nat]
      BY <1>1, <2>2 DEF BurnAndKeepFee, Inv, TypeOK
    <3>. QED  BY <2>2, <3>1, <3>2 DEF BurnAndKeepFee, Inv, TypeOK
  <2>. QED  BY <2>1, <2>2 DEF Send, r
<1>4. m \in OutboundMessage
  <2>1. p.peer_address \in Addresses
    BY DEF Send, p
  <2>2. NextOutboundNonce(eid, p.peer_address) \in Nat
    BY NoncesAreNat DEF Inv
  <2>3. r.received \in U64Values
    BY <1>0, <1>1, U64MaxAssumption DEF U64Values
  <2>4. MessageAmount(r) \in U64Values
    BY <2>3, DecimalsType DEF MessageAmount
  <2>. QED  BY <2>1, <2>2, <2>4 DEF OutboundMessage
<1>5. outbox' = outbox \cup {m}
  BY DEF Send, r, p
<1>6. IsFiniteSet(outbox')
  BY <1>5, FS_AddElement DEF Inv, MessagesFinite
<1>7. UNCHANGED <<mint_authority, transfer_fee, now, inbox, cleared, composed>>
  BY DEF Send
<1>8. outbox' \subseteq OutboundMessage
  BY <1>4, <1>5 DEF Inv, TypeOK
<1>9. TypeOK'
  BY <1>2, <1>3, <1>7, <1>8 DEF Inv, TypeOK
<1>10. MessagesFinite'
  BY <1>6, <1>7 DEF Inv, MessagesFinite
<1>. QED  BY <1>9, <1>10 DEF Inv

(* Executing a message leaves well-typed accounts: what is taken from tvl_ld,
   the escrow and the limiter is there. *)
LEMMA LzReceiveInv ==
  ASSUME Inv, NEW m \in inbox, NEW authority, LzReceive(m, authority)
  PROVE  Inv'
<1>. DEFINE amount_ld == Sd2ld(m.amount_sd)
            p == peer[m.src_eid]
<1>0. /\ m \in InboundMessage
      /\ m.src_eid \in Eids /\ m.to \in Keys /\ m.nonce \in Nat /\ m.amount_sd \in U64Values
  BY DEF Inv, TypeOK, InboundMessage
<1>1. amount_ld \in Nat /\ amount_ld <= U64Max
  BY <1>0, DecimalsType, U64MaxAssumption DEF LzReceive, U64Values
<1>. HIDE DEF amount_ld
<1>2. p \in PeerConfig
  BY <1>0 DEF LzReceive, FromPeer, Inv, TypeOK
<1>. HIDE DEF p
<1>3. peer' \in [Eids -> PeerConfig \cup {None}]
  <2>. DEFINE inbound  == Consume(p.inbound_rate_limiter, amount_ld, now)
              outbound == RefillIfSome(p.outbound_rate_limiter, amount_ld, now)
  <2>1. peer' = [peer EXCEPT ![m.src_eid].inbound_rate_limiter = inbound,
                             ![m.src_eid].outbound_rate_limiter = outbound]
    BY <1>0 DEF LzReceive, p, amount_ld, Inv, TypeOK
  <2>2. /\ p.inbound_rate_limiter \in RateLimiterType \cup {None}
        /\ p.outbound_rate_limiter \in RateLimiterType \cup {None}
        /\ now \in Nat
        /\ CanConsume(p.inbound_rate_limiter, amount_ld, now)
    BY <1>2 DEF PeerConfig, LzReceive, p, amount_ld, Inv, TypeOK
  <2>3. inbound \in RateLimiterType \cup {None} /\ outbound \in RateLimiterType \cup {None}
    BY <1>1, <2>2, ConsumeType, RefillIfSomeType
  <2>. HIDE DEF outbound, inbound
  <2>4. [p EXCEPT !.inbound_rate_limiter = inbound, !.outbound_rate_limiter = outbound] \in PeerConfig
    BY <1>2, <2>3 DEF PeerConfig
  <2>. QED  BY <1>0, <2>1, <2>4 DEF Inv, TypeOK, p
<1>4. PostFeeAmount(transfer_fee, amount_ld) \in Nat /\ PostFeeAmount(transfer_fee, amount_ld) <= amount_ld
  BY <1>1, AmountsAreNat DEF Inv, TypeOK
<1>5. /\ store' \in OFTStore
      /\ wallet' \in [Keys -> Nat]
      /\ escrow' \in Nat
  <2>1. CASE Unlock(m, amount_ld)
    <3>1. store.tvl_ld - amount_ld \in U64Values
      BY <1>1, <2>1, U64MaxAssumption DEF Unlock, Inv, TypeOK, OFTStore, U64Values
    <3>2. store' \in OFTStore
      BY <2>1, <3>1 DEF Unlock, Inv, TypeOK, OFTStore
    <3>3. wallet' \in [Keys -> Nat]
      BY <1>0, <1>4, <2>1 DEF Unlock, Inv, TypeOK
    <3>. QED  BY <1>1, <2>1, <3>2, <3>3 DEF Unlock, Inv, TypeOK
  <2>2. CASE Mint(m, amount_ld, authority)
    BY <1>0, <1>1, <2>2 DEF Mint, Inv, TypeOK
  <2>. QED  BY <2>1, <2>2 DEF LzReceive, amount_ld
<1>6. composed' \subseteq ComposeMessage
  <2>. DEFINE c == [src_eid |-> m.src_eid, nonce |-> m.nonce, to |-> m.to,
                    amount_ld |-> ComposedAmount(amount_ld)]
  <2>1. composed' \subseteq composed \cup {c}
    BY DEF LzReceive, SendCompose, amount_ld
  <2>2. ComposedAmount(amount_ld) \in U64Values
    BY <1>1, <1>4, U64MaxAssumption DEF ComposedAmount, U64Values
  <2>3. c \in ComposeMessage
    BY <1>0, <2>2 DEF ComposeMessage
  <2>. QED  BY <2>1, <2>3 DEF Inv, TypeOK
<1>7. cleared' \subseteq inbox
  BY DEF LzReceive, Clear, Inv, TypeOK
<1>8. UNCHANGED <<mint_authority, transfer_fee, now, outbox, inbox>>
  BY DEF LzReceive
<1>9. TypeOK'
  BY <1>3, <1>5, <1>6, <1>7, <1>8 DEF Inv, TypeOK
<1>10. MessagesFinite'
  BY <1>8 DEF Inv, MessagesFinite
<1>. QED  BY <1>9, <1>10 DEF Inv

(* The admin's configuration of a peer keeps its account well-typed, creating
   it if need be. *)
LEMMA PeerConfigInv ==
  ASSUME Inv, PeerConfigNext
  PROVE  Inv'
<1>1. ASSUME NEW eid \in Eids, NEW config \in PeerConfig,
             peer' = [peer EXCEPT ![eid] = config],
             UNCHANGED <<store, token_vars, now, endpoint_vars>>
      PROVE  Inv'
  <2>1. peer' \in [Eids -> PeerConfig \cup {None}]
    BY <1>1 DEF Inv, TypeOK
  <2>. QED
    BY <1>1, <2>1 DEF Inv, TypeOK, MessagesFinite, token_vars, endpoint_vars
<1>2. PICK eid \in Eids :
        \/ \E address \in Addresses : SetPeerAddress(eid, address)
        \/ \E fee_bps \in FeeChoices \cup {None} : SetPeerFee(eid, fee_bps)
        \/ \E params \in LimitParams : SetOutboundRateLimit(eid, params)
        \/ \E params \in LimitParams : SetInboundRateLimit(eid, params)
  BY DEF PeerConfigNext
<1>. DEFINE p == PeerOrNew(eid)
<1>3. p \in PeerConfig
  BY PeerOrNewType DEF Inv
<1>. HIDE DEF p
<1>4. ASSUME NEW address \in Addresses, SetPeerAddress(eid, address) PROVE Inv'
  <2>1. [p EXCEPT !.peer_address = address] \in PeerConfig
    BY <1>3 DEF PeerConfig
  <2>. QED  BY <1>1, <1>4, <2>1 DEF SetPeerAddress, p
<1>5. ASSUME NEW fee_bps \in FeeChoices \cup {None}, SetPeerFee(eid, fee_bps) PROVE Inv'
  <2>1. [p EXCEPT !.fee_bps = fee_bps] \in PeerConfig
    BY <1>3, InputsAssumption DEF PeerConfig
  <2>. QED  BY <1>1, <1>5, <2>1 DEF SetPeerFee, p
<1>6. ASSUME NEW params \in LimitParams, NEW limiter \in RateLimiterType \cup {None}
      PROVE  UpdateRateLimiter(limiter, params, now) \in RateLimiterType \cup {None}
  BY InputsAssumption, UpdateRateLimiterType DEF Inv, TypeOK
<1>7. ASSUME NEW params \in LimitParams, SetOutboundRateLimit(eid, params) PROVE Inv'
  <2>1. UpdateRateLimiter(p.outbound_rate_limiter, params, now) \in RateLimiterType \cup {None}
    BY <1>3, <1>6 DEF PeerConfig
  <2>2. [p EXCEPT !.outbound_rate_limiter = UpdateRateLimiter(p.outbound_rate_limiter, params, now)]
          \in PeerConfig
    BY <1>3, <2>1 DEF PeerConfig
  <2>. QED  BY <1>1, <1>7, <2>2 DEF SetOutboundRateLimit, p
<1>8. ASSUME NEW params \in LimitParams, SetInboundRateLimit(eid, params) PROVE Inv'
  <2>1. UpdateRateLimiter(p.inbound_rate_limiter, params, now) \in RateLimiterType \cup {None}
    BY <1>3, <1>6 DEF PeerConfig
  <2>2. [p EXCEPT !.inbound_rate_limiter = UpdateRateLimiter(p.inbound_rate_limiter, params, now)]
          \in PeerConfig
    BY <1>3, <2>1 DEF PeerConfig
  <2>. QED  BY <1>1, <1>8, <2>2 DEF SetInboundRateLimit, p
<1>. QED  BY <1>2, <1>4, <1>5, <1>7, <1>8

(* A fee withdrawal takes no more than the escrow holds. *)
LEMMA WithdrawInv ==
  ASSUME Inv, NEW k \in Keys, NEW fee_ld \in Withdrawals, WithdrawFee(k, fee_ld)
  PROVE  Inv'
<1>1. /\ fee_ld \in Nat /\ store.tvl_ld \in Nat /\ escrow \in Nat
      /\ transfer_fee \in TransferFee /\ wallet \in [Keys -> Nat]
  BY InputsAssumption, U64MaxAssumption DEF Inv, TypeOK, OFTStore, U64Values
<1>2. PostFeeAmount(transfer_fee, fee_ld) \in Nat
  BY <1>1, AmountsAreNat
<1>3. escrow' \in Nat
  BY <1>1 DEF WithdrawFee, Withdrawable
<1>4. wallet' \in [Keys -> Nat]
  BY <1>1, <1>2 DEF WithdrawFee
<1>. QED
  BY <1>3, <1>4 DEF WithdrawFee, Inv, TypeOK, MessagesFinite, endpoint_vars

(* The steps of the admin's store configuration, of the token's authorities,
   of the clock and of the endpoint's verifiers. *)
LEMMA EnvironmentInv ==
  ASSUME Inv, StoreConfigNext \/ TokenNext \/ Tick \/ VerifyNext
  PROVE  Inv'
<1>. USE DEF Inv, MessagesFinite
<1>1. CASE StoreConfigNext
  <2>1. ASSUME NEW fee_bps \in FeeChoices, SetDefaultFee(fee_bps) PROVE Inv'
    <3>1. store' \in OFTStore
      BY <2>1, InputsAssumption DEF SetDefaultFee, TypeOK, OFTStore
    <3>. QED  BY <2>1, <3>1 DEF SetDefaultFee, TypeOK, token_vars, endpoint_vars
  <2>2. ASSUME NEW paused \in BOOLEAN, SetPaused(paused) PROVE Inv'
    <3>1. store' \in OFTStore
      BY <2>2 DEF SetPaused, TypeOK, OFTStore
    <3>. QED  BY <2>2, <3>1 DEF SetPaused, TypeOK, token_vars, endpoint_vars
  <2>. QED  BY <1>1, <2>1, <2>2 DEF StoreConfigNext
<1>2. CASE TokenNext
  <2>1. ASSUME NEW fee \in TransferFees[OftType], NewEpochFee(fee) PROVE Inv'
    BY <2>1, InputsAssumption DEF NewEpochFee, OftType, TypeOK, OFTStore, endpoint_vars
  <2>2. ASSUME NEW authority \in MintAuthorities, SetMintAuthority(authority) PROVE Inv'
    BY <2>2, InputsAssumption DEF SetMintAuthority, TypeOK, endpoint_vars
  <2>. QED  BY <1>2, <2>1, <2>2 DEF TokenNext
<1>3. CASE Tick
  BY <1>3 DEF Tick, TypeOK, token_vars, endpoint_vars
<1>4. CASE VerifyNext
  <2>1. PICK eid \in Eids, address \in Addresses, k \in Keys,
             amount_sd \in VerifiedAmounts, compose \in ComposeChoices :
               EndpointVerify(eid, address, k, amount_sd, compose)
    BY <1>4 DEF VerifyNext
  <2>. DEFINE m == [src_eid |-> eid, sender |-> address,
                    nonce |-> NextInboundNonce(eid, address), to |-> k,
                    amount_sd |-> amount_sd, compose |-> compose]
  <2>2. m \in InboundMessage
    BY NoncesAreNat, InputsAssumption DEF InboundMessage
  <2>3. inbox' = inbox \cup {m}
    BY <2>1 DEF EndpointVerify
  <2>. HIDE DEF m
  <2>4. IsFiniteSet(inbox')
    BY <2>3, FS_AddElement
  <2>. QED
    BY <2>1, <2>2, <2>3, <2>4 DEF EndpointVerify, TypeOK, token_vars
<1>. QED  BY <1>1, <1>2, <1>3, <1>4

(* Every step keeps the invariant: one case for each group of handlers. *)
LEMMA NextInv == Inv /\ [Next]_vars => Inv'
<1>. SUFFICES ASSUME Inv, [Next]_vars PROVE Inv'
  OBVIOUS
<1>1. CASE SendNext
  BY <1>1, SendInv DEF SendNext
<1>2. CASE LzReceiveNext
  BY <1>2, LzReceiveInv DEF LzReceiveNext
<1>3. CASE PeerConfigNext
  BY <1>3, PeerConfigInv
<1>4. CASE WithdrawNext
  BY <1>4, WithdrawInv DEF WithdrawNext
<1>5. CASE StoreConfigNext \/ TokenNext \/ Tick \/ VerifyNext
  BY <1>5, EnvironmentInv
<1>6. CASE UNCHANGED vars
  BY <1>6 DEF Inv, TypeOK, MessagesFinite, vars, token_vars, endpoint_vars
<1>. QED  BY <1>1, <1>2, <1>3, <1>4, <1>5, <1>6 DEF Next, LocalNext

(* So the invariant holds of every behaviour. *)
LEMMA InvHolds == Spec => []Inv
BY InitInv, NextInv, PTL DEF Spec

(* Every account of the program keeps its type: no amount leaves the unsigned
   range, for any inputs, decimals, fees, limits and numbers of messages. *)
THEOREM TypeCorrect == Spec => []TypeOK
<1>1. Inv => TypeOK
  BY DEF Inv
<1>. QED  BY <1>1, InvHolds, PTL

-------------------------------------------------------------------------------
(* The escrow covers the value locked. *)

(* A send adds at least as much to the escrow as to tvl_ld, the transfer fee
   notwithstanding, because what it debits inverts that fee. *)
LEMMA LockCovered ==
  ASSUME Inv, EscrowCoversTvl, OftType = "Adapter",
         NEW k \in Keys, NEW eid \in Eids, NEW amount_ld \in SendAmounts,
         Send(k, eid, amount_ld)
  PROVE  escrow' >= store'.tvl_ld
<1>. DEFINE r == AmountsFor(eid, amount_ld)
<1>1. /\ r.sent \in Nat /\ r.received \in Nat /\ r.fee \in Nat
      /\ PostFeeAmount(transfer_fee, r.sent) = r.received + r.fee
  <2>1. transfer_fee \in TransferFee /\ store.default_fee_bps \in FeeBps
    BY DEF Inv, TypeOK, OFTStore
  <2>2. peer[eid].fee_bps \in FeeBps \cup {None} /\ amount_ld \in Nat
    BY InputsAssumption, U64MaxAssumption DEF Inv, TypeOK, Send, PeerConfig, U64Values
  <2>. QED  BY <2>1, <2>2, AmountsOfSend DEF AmountsFor
<1>. HIDE DEF r
<1>2. Lock(k, r)
  BY DEF Send, BurnAndKeepFee, r
<1>3. store'.tvl_ld = store.tvl_ld + r.received /\ escrow' = escrow + (r.received + r.fee)
  BY <1>1, <1>2 DEF Lock, LockedTvl, Inv, TypeOK, OFTStore
<1>4. store.tvl_ld \in Nat /\ escrow \in Nat /\ escrow >= store.tvl_ld
  BY U64MaxAssumption DEF EscrowCoversTvl, Inv, TypeOK, OFTStore, U64Values
<1>. QED  BY <1>1, <1>3, <1>4

(* The type of an OFT is what init_oft made it. *)
LEMMA OftTypeFixed == Inv /\ [Next]_vars => OftType' = OftType
<1>. SUFFICES ASSUME Inv, [Next]_vars PROVE store'.oft_type = store.oft_type
  BY DEF OftType
<1>. USE DEF Inv, TypeOK, OFTStore
<1>1. CASE SendNext
  BY <1>1 DEF SendNext, Send, Lock, BurnAndKeepFee
<1>2. CASE LzReceiveNext
  BY <1>2 DEF LzReceiveNext, LzReceive, Unlock, Mint
<1>3. CASE StoreConfigNext
  BY <1>3 DEF StoreConfigNext, SetDefaultFee, SetPaused
<1>4. CASE WithdrawNext \/ PeerConfigNext \/ TokenNext \/ Tick \/ VerifyNext \/ UNCHANGED vars
  BY <1>4 DEF WithdrawNext, WithdrawFee, PeerConfigNext, SetPeerAddress, SetPeerFee,
     SetOutboundRateLimit, SetInboundRateLimit, TokenNext, NewEpochFee, SetMintAuthority, Tick,
     VerifyNext, EndpointVerify, vars
<1>. QED  BY <1>1, <1>2, <1>3, <1>4 DEF Next, LocalNext

(* No step takes more from the escrow than from tvl_ld. *)
LEMMA NextCovered == Inv /\ EscrowCoversTvl /\ [Next]_vars => EscrowCoversTvl'
<1>. SUFFICES ASSUME Inv, EscrowCoversTvl, [Next]_vars, OftType = "Adapter"
              PROVE  escrow' >= store'.tvl_ld
  BY OftTypeFixed DEF EscrowCoversTvl
<1>0. store.tvl_ld \in Nat /\ escrow \in Nat /\ escrow >= store.tvl_ld
  BY U64MaxAssumption DEF EscrowCoversTvl, Inv, TypeOK, OFTStore, U64Values
<1>1. CASE SendNext
  BY <1>1, LockCovered DEF SendNext
<1>2. ASSUME NEW m \in inbox, NEW authority, LzReceive(m, authority)
      PROVE  escrow' >= store'.tvl_ld
  <2>. DEFINE amount_ld == Sd2ld(m.amount_sd)
  <2>1. amount_ld \in Nat
    BY DecimalsType, U64MaxAssumption DEF Inv, TypeOK, InboundMessage, U64Values
  <2>. HIDE DEF amount_ld
  <2>2. Unlock(m, amount_ld)
    BY <1>2 DEF LzReceive, Mint, amount_ld
  <2>3. store'.tvl_ld = store.tvl_ld - amount_ld /\ escrow' = escrow - amount_ld
    BY <2>2 DEF Unlock, Inv, TypeOK, OFTStore
  <2>. QED  BY <1>0, <2>1, <2>3
<1>3. ASSUME NEW k \in Keys, NEW fee_ld \in Withdrawals, WithdrawFee(k, fee_ld)
      PROVE  escrow' >= store'.tvl_ld
  <2>1. fee_ld \in Nat
    BY InputsAssumption, U64MaxAssumption DEF U64Values
  <2>. QED  BY <1>0, <1>3, <2>1 DEF WithdrawFee, Withdrawable
<1>4. CASE StoreConfigNext
  BY <1>0, <1>4 DEF StoreConfigNext, SetDefaultFee, SetPaused, token_vars, Inv, TypeOK, OFTStore
<1>5. CASE PeerConfigNext \/ TokenNext \/ Tick \/ VerifyNext \/ UNCHANGED vars
  BY <1>0, <1>5 DEF PeerConfigNext, SetPeerAddress, SetPeerFee, SetOutboundRateLimit,
     SetInboundRateLimit, TokenNext, NewEpochFee, SetMintAuthority, Tick, VerifyNext,
     EndpointVerify, vars, token_vars
<1>. QED
  BY <1>1, <1>2, <1>3, <1>4, <1>5 DEF Next, LocalNext, LzReceiveNext, WithdrawNext

(* However sends, receipts, fee withdrawals and changes of either fee are
   ordered, the escrow of an adapter holds what tvl_ld counts. *)
THEOREM EscrowAlwaysCoversTvl == Spec => []EscrowCoversTvl
<1>1. Init => EscrowCoversTvl
  BY DEF Init, EscrowCoversTvl
<1>. QED  BY <1>1, InvHolds, NextCovered, PTL DEF Spec

-------------------------------------------------------------------------------
(* Steps *)

(* Steps that are neither a send nor a receipt leave the messages alone, and
   what is locked. *)
LEMMA OtherSteps ==
  ASSUME Inv,
         \/ StoreConfigNext \/ PeerConfigNext \/ WithdrawNext \/ TokenNext
         \/ Tick \/ VerifyNext \/ UNCHANGED vars
  PROVE  UNCHANGED <<outbox, cleared, composed>> /\ store'.tvl_ld = store.tvl_ld
<1>. USE DEF endpoint_vars
<1>1. CASE StoreConfigNext
  BY <1>1 DEF StoreConfigNext, SetDefaultFee, SetPaused, Inv, TypeOK, OFTStore
<1>2. CASE PeerConfigNext
  BY <1>2 DEF PeerConfigNext, SetPeerAddress, SetPeerFee, SetOutboundRateLimit, SetInboundRateLimit
<1>3. CASE WithdrawNext \/ TokenNext \/ Tick \/ VerifyNext \/ UNCHANGED vars
  BY <1>3 DEF WithdrawNext, WithdrawFee, TokenNext, NewEpochFee, SetMintAuthority, Tick,
     VerifyNext, EndpointVerify, vars
<1>. QED  BY <1>1, <1>2, <1>3

(* While the store is paused nothing is sent, executed or composed and nothing
   is locked or unlocked, from whatever state the pause found the bridge in. *)
THEOREM PauseAlwaysStopsBridge == Spec => PauseStopsBridge
<1>1. Inv /\ [Next]_vars =>
        [store.paused => /\ UNCHANGED <<outbox, cleared, composed>>
                         /\ store'.tvl_ld = store.tvl_ld]_vars
  <2>. SUFFICES ASSUME Inv, [Next]_vars, store.paused
                PROVE  UNCHANGED <<outbox, cleared, composed>> /\ store'.tvl_ld = store.tvl_ld
    OBVIOUS
  <2>1. ~SendNext /\ ~LzReceiveNext
    BY DEF SendNext, Send, LzReceiveNext, LzReceive, NotPaused
  <2>. QED  BY <2>1, OtherSteps DEF Next, LocalNext
<1>. QED  BY <1>1, InvHolds, PTL DEF Spec, PauseStopsBridge

(* The amount that a composer is told is the amount its wallet was credited in
   the same transaction, for either type, every transfer fee and message. *)
THEOREM ComposeAlwaysReportsCredit == Spec => ComposeReportsCredit
<1>1. Inv /\ [Next]_vars =>
        [\A c \in composed' \ composed : wallet'[c.to] = wallet[c.to] + c.amount_ld]_vars
  <2>. SUFFICES ASSUME Inv, [Next]_vars, NEW c \in composed' \ composed
                PROVE  wallet'[c.to] = wallet[c.to] + c.amount_ld
    OBVIOUS
  <2>0. PICK m \in inbox : \E authority : LzReceive(m, authority)
    <3>1. ~SendNext
      BY DEF SendNext, Send
    <3>. QED  BY <3>1, OtherSteps DEF Next, LocalNext, LzReceiveNext
  <2>1. PICK authority : LzReceive(m, authority)
    BY <2>0
  <2>. DEFINE amount_ld == Sd2ld(m.amount_sd)
  <2>2. c.to = m.to /\ c.amount_ld = ComposedAmount(amount_ld)
    BY <2>1 DEF LzReceive, SendCompose
  <2>3. Unlock(m, amount_ld) \/ Mint(m, amount_ld, authority)
    BY <2>1 DEF LzReceive
  <2>. HIDE DEF amount_ld
  <2>4. m.to \in Keys
    BY DEF Inv, TypeOK, InboundMessage
  <2>. QED  BY <2>2, <2>3, <2>4 DEF Unlock, Mint, ComposedAmount, Inv, TypeOK
<1>. QED  BY <1>1, InvHolds, PTL DEF Spec, ComposeReportsCredit

-------------------------------------------------------------------------------
(* Values *)

(* The value of messages. *)
LEMMA MessageValueIsTotal ==
  ASSUME NEW S, IsFiniteSet(S)
  PROVE  MessageValue(S) = Total([m \in S |-> m.amount_sd], S)
<1>. DEFINE f == [m \in S |-> m.amount_sd]
            P(it) == it = [s \in SUBSET S |-> IF s = {} THEN 0
                             ELSE Pick(s).amount_sd + it[s \ {Pick(s)}]]
<1>1. ASSUME NEW it PROVE P(it) <=> SumsOver(it, S, f)
  <2>1. \A s \in SUBSET S : s # {} => f[Pick(s)] = Pick(s).amount_sd
    BY PickIn
  <2>2. [s \in SUBSET S |-> IF s = {} THEN 0 ELSE Pick(s).amount_sd + it[s \ {Pick(s)}]]
          = [s \in SUBSET S |-> IF s = {} THEN 0 ELSE f[Pick(s)] + it[s \ {Pick(s)}]]
    BY <2>1
  <2>. QED  BY <2>2 DEF SumsOver
<1>2. PICK sum : SumsOver(sum, S, f) /\ Total(f, S) = sum[S]
  BY TotalIsSum
<1>. DEFINE it == CHOOSE g : P(g)
<1>3. P(it)
  <2>1. P(sum)
    BY <1>1, <1>2
  <2>. HIDE DEF P
  <2>. QED  BY <2>1
<1>4. MessageValue(S) = it[S]
  BY DEF MessageValue, MapThenSumSet, MapThenFoldSet, Pick
<1>5. SumsOver(it, S, f)
  <2>. HIDE DEF P, it
  <2>. QED  BY <1>1, <1>3
<1>6. it[S] = sum[S]
  <2>. HIDE DEF P, it, f
  <2>. QED  BY <1>2, <1>5, SumUnique
<1>. QED  BY <1>2, <1>4, <1>6

(* No message, no value; one more message adds its own. *)
LEMMA MessageValueEmpty == MessageValue({}) = 0
BY MessageValueIsTotal, TotalEmpty, FS_EmptySet

LEMMA MessageValueFirst ==
  ASSUME NEW S, IsFiniteSet(S), \A m \in S : m.amount_sd \in Nat
  PROVE  /\ MessageValue(S) \in Nat
         /\ \A m \in S : MessageValue(S) = m.amount_sd + MessageValue(S \ {m})
<1>. DEFINE f == [m \in S |-> m.amount_sd]
<1>1. \A m \in S : f[m] = m.amount_sd /\ f[m] \in Nat
  OBVIOUS
<1>2. MessageValue(S) = Total(f, S)
  BY MessageValueIsTotal
<1>3. ASSUME NEW m \in S PROVE MessageValue(S \ {m}) = Total(f, S \ {m})
  <2>. DEFINE g == [n \in S \ {m} |-> n.amount_sd]
  <2>1. IsFiniteSet(S \ {m})
    BY FS_RemoveElement
  <2>2. MessageValue(S \ {m}) = Total(g, S \ {m})
    BY <2>1, MessageValueIsTotal
  <2>3. \A n \in S \ {m} : g[n] = f[n]
    OBVIOUS
  <2>. HIDE DEF f, g
  <2>4. Total(g, S \ {m}) = Total(f, S \ {m})
    BY <2>1, <2>3, TotalSame
  <2>. QED  BY <2>2, <2>4
<1>. HIDE DEF f
<1>. QED  BY <1>1, <1>2, <1>3, TotalFirst

LEMMA MessageValueAdd ==
  ASSUME NEW S, IsFiniteSet(S), \A m \in S : m.amount_sd \in Nat,
         NEW m, m \notin S, m.amount_sd \in Nat
  PROVE  MessageValue(S \cup {m}) = MessageValue(S) + m.amount_sd
<1>1. IsFiniteSet(S \cup {m}) /\ (S \cup {m}) \ {m} = S
  BY FS_AddElement
<1>2. MessageValue(S \cup {m}) = m.amount_sd + MessageValue(S)
  BY <1>1, MessageValueFirst
<1>3. MessageValue(S) \in Nat
  BY MessageValueFirst
<1>. QED  BY <1>2, <1>3

(* The supply as a sum of a function. *)
LEMMA SupplyIsTotal ==
  /\ Supply = escrow + Total(wallet, Keys)
  /\ Supply' = escrow' + Total(wallet', Keys)
BY DEF Supply, Total, MapThenSumSet, MapThenFoldSet

(* The accounts of the users, when one is debited or credited. *)
LEMMA WalletTotal ==
  ASSUME Inv, NEW k \in Keys, NEW balance \in Nat, wallet' = [wallet EXCEPT ![k] = balance]
  PROVE  /\ Total(wallet, Keys) \in Nat
         /\ Total(wallet', Keys) = Total(wallet, Keys) - wallet[k] + balance
<1>1. wallet \in [Keys -> Nat] /\ \A key \in Keys : wallet[key] \in Nat
  BY DEF Inv, TypeOK
<1>2. PICK w : w = wallet
  OBVIOUS
<1>3. PICK v : v = wallet'
  OBVIOUS
<1>4. /\ \A key \in Keys : w[key] \in Nat /\ v[key] \in Nat
      /\ \A key \in Keys \ {k} : v[key] = w[key]
      /\ v[k] = balance
  BY <1>1, <1>2, <1>3
<1>5. DifferAt(w, v, Keys, k)
  BY <1>4, KeysAssumption DEF DifferAt
<1>6. Total(w, Keys) \in Nat /\ Total(v, Keys) = Total(w, Keys) - w[k] + v[k]
  BY <1>5, TotalDiffer
<1>. QED  BY <1>2, <1>3, <1>4, <1>6

(* A native OFT of a token without a transfer fee burns and mints exactly; one
   with a fee would also lose what the token withholds. *)
NativeWithoutTransferFee ==
  "Native" \in OftTypes => \A fee \in TransferFees["Native"] : fee.bps = 0

Exact == OftType = "Native" => transfer_fee.bps = 0

(* No two messages of a path have the same nonce, for none exceeds their
   number. *)
PathOut(m) == {n \in outbox : n.dst_eid = m.dst_eid /\ n.receiver = m.receiver}

OutboundNoncesOK == \A m \in outbox : m.nonce <= Cardinality(PathOut(m))

(* What a send does to the messages and to what is locked or burnt. *)
LEMMA SendEffect ==
  ASSUME Inv, OutboundNoncesOK, NEW k \in Keys, NEW eid \in Eids, NEW amount_ld \in SendAmounts,
         Send(k, eid, amount_ld)
  PROVE  \E m \in OutboundMessage :
           /\ m \notin outbox
           /\ m.nonce = 1 + Cardinality(PathOut(m))
           /\ outbox' = outbox \cup {m}
           /\ UNCHANGED <<inbox, cleared, transfer_fee>>
           /\ OftType = "Adapter" => store'.tvl_ld = store.tvl_ld + Sd2ld(m.amount_sd)
           /\ OftType = "Native" /\ Exact =>
                /\ store'.tvl_ld = store.tvl_ld
                /\ Supply' = Supply - Sd2ld(m.amount_sd)
<1>. DEFINE r == AmountsFor(eid, amount_ld)
            p == peer[eid]
            m == [dst_eid |-> eid, receiver |-> p.peer_address,
                  nonce |-> NextOutboundNonce(eid, p.peer_address),
                  amount_sd |-> MessageAmount(r)]
<1>1. /\ r.sent \in Nat /\ r.received \in Nat /\ r.fee \in Nat
      /\ OftType # "Adapter" => r.sent = r.received + r.fee
      /\ Sd2ld(Ld2sd(r.received)) = r.received
  <2>1. transfer_fee \in TransferFee /\ store.default_fee_bps \in FeeBps
    BY DEF Inv, TypeOK, OFTStore
  <2>2. p.fee_bps \in FeeBps \cup {None} /\ amount_ld \in Nat
    BY InputsAssumption, U64MaxAssumption DEF Inv, TypeOK, Send, PeerConfig, U64Values
  <2>. QED  BY <2>1, <2>2, AmountsOfSend DEF AmountsFor
<1>. HIDE DEF r, p
<1>2. /\ outbox' = outbox \cup {m}
      /\ UNCHANGED <<inbox, cleared, transfer_fee>>
  BY DEF Send, r, p
<1>3. Inv'
  BY SendInv
<1>4. m \in OutboundMessage
  BY <1>2, <1>3 DEF Inv, TypeOK
<1>9. m.nonce = 1 + Cardinality(PathOut(m))
  BY DEF NextOutboundNonce, PathOut
<1>5. m \notin outbox
  <2>. SUFFICES ASSUME m \in outbox PROVE FALSE
    OBVIOUS
  <2>1. m.nonce <= Cardinality(PathOut(m))
    BY DEF OutboundNoncesOK
  <2>2. m.nonce = 1 + Cardinality(PathOut(m))
    BY <1>9
  <2>3. Cardinality(PathOut(m)) \in Nat
    BY FS_Subset, FS_CardinalityType DEF PathOut, Inv, MessagesFinite
  <2>. QED  BY <2>1, <2>2, <2>3
<1>6. Sd2ld(m.amount_sd) = r.received
  BY <1>1 DEF MessageAmount
<1>. HIDE DEF m
<1>7. ASSUME OftType = "Adapter"
      PROVE  store'.tvl_ld = store.tvl_ld + Sd2ld(m.amount_sd)
  BY <1>6, <1>7 DEF Send, r, Lock, LockedTvl, BurnAndKeepFee, Inv, TypeOK, OFTStore
<1>8. ASSUME OftType = "Native", transfer_fee.bps = 0
      PROVE  store' = store /\ Supply' = Supply - Sd2ld(m.amount_sd)
  <2>1. BurnAndKeepFee(k, r)
    BY <1>8 DEF Send, r, Lock
  <2>2. PostFeeAmount(transfer_fee, r.fee) = r.fee
    BY <1>1, <1>8 DEF PostFeeAmount, WithheldFee
  <2>3. wallet[k] \in Nat /\ wallet[k] >= r.sent /\ escrow \in Nat
    BY <2>1 DEF BurnAndKeepFee, Inv, TypeOK
  <2>4. /\ wallet' = [wallet EXCEPT ![k] = wallet[k] - r.sent]
        /\ escrow' = escrow + r.fee
        /\ store' = store
    BY <2>1, <2>2 DEF BurnAndKeepFee
  <2>5. wallet[k] - r.sent \in Nat
    BY <1>1, <2>3
  <2>6. /\ Total(wallet, Keys) \in Nat
        /\ Total(wallet', Keys) = Total(wallet, Keys) - wallet[k] + (wallet[k] - r.sent)
    BY <2>4, <2>5, WalletTotal
  <2>7. r.sent = r.received + r.fee
    BY <1>1, <1>8
  <2>8. Supply' = Supply - r.received
    BY <1>1, <2>3, <2>4, <2>6, <2>7, SupplyIsTotal
  <2>. QED  BY <1>6, <2>4, <2>8
<1>. QED  BY <1>2, <1>4, <1>5, <1>7, <1>8, <1>9 DEF Exact

(* What a receipt does. *)
LEMMA ReceiveEffect ==
  ASSUME Inv, NEW m \in inbox, NEW authority, LzReceive(m, authority)
  PROVE  /\ m \notin cleared
         /\ cleared' = cleared \cup {m}
         /\ UNCHANGED <<outbox, inbox, transfer_fee>>
         /\ OftType = "Adapter" => store'.tvl_ld = store.tvl_ld - Sd2ld(m.amount_sd)
         /\ OftType = "Native" =>
              /\ store'.tvl_ld = store.tvl_ld
              /\ Supply' = Supply + Sd2ld(m.amount_sd)
<1>. DEFINE amount_ld == Sd2ld(m.amount_sd)
<1>1. amount_ld \in Nat /\ m.to \in Keys
  BY DecimalsType, U64MaxAssumption DEF Inv, TypeOK, InboundMessage, U64Values
<1>2. Unlock(m, amount_ld) \/ Mint(m, amount_ld, authority)
  BY DEF LzReceive
<1>3. /\ m \notin cleared /\ cleared' = cleared \cup {m}
      /\ UNCHANGED <<outbox, inbox, transfer_fee>>
  BY DEF LzReceive, Clear
<1>. HIDE DEF amount_ld
<1>4. ASSUME OftType = "Adapter" PROVE store'.tvl_ld = store.tvl_ld - amount_ld
  BY <1>2, <1>4 DEF Unlock, Mint, Inv, TypeOK, OFTStore
<1>5. ASSUME OftType = "Native" PROVE store' = store /\ Supply' = Supply + amount_ld
  <2>1. Mint(m, amount_ld, authority)
    BY <1>2, <1>5 DEF Unlock
  <2>2. /\ wallet' = [wallet EXCEPT ![m.to] = wallet[m.to] + amount_ld]
        /\ escrow' = escrow /\ store' = store
    BY <2>1 DEF Mint
  <2>3. wallet[m.to] \in Nat /\ wallet[m.to] + amount_ld \in Nat /\ escrow \in Nat
    BY <1>1 DEF Inv, TypeOK
  <2>4. /\ Total(wallet, Keys) \in Nat
        /\ Total(wallet', Keys) = Total(wallet, Keys) - wallet[m.to] + (wallet[m.to] + amount_ld)
    BY <1>1, <2>2, <2>3, WalletTotal
  <2>. QED  BY <1>1, <2>2, <2>3, <2>4, SupplyIsTotal
<1>. QED  BY <1>3, <1>4, <1>5 DEF amount_ld

(* The other steps leave what is locked, and the supply but for what a
   transfer of fees withholds. *)
LEMMA OtherEffect ==
  ASSUME Inv,
         \/ StoreConfigNext \/ PeerConfigNext \/ WithdrawNext \/ TokenNext
         \/ Tick \/ VerifyNext \/ UNCHANGED vars
  PROVE  /\ UNCHANGED <<outbox, cleared>>
         /\ store'.tvl_ld = store.tvl_ld
         /\ OftType = "Native" /\ Exact => Supply' = Supply
<1>1. UNCHANGED <<outbox, cleared>> /\ store'.tvl_ld = store.tvl_ld
  BY OtherSteps
<1>2. CASE WithdrawNext
  <2>. SUFFICES ASSUME OftType = "Native", Exact PROVE Supply' = Supply
    BY <1>1
  <2>1. PICK k \in Keys, fee_ld \in Withdrawals : WithdrawFee(k, fee_ld)
    BY <1>2 DEF WithdrawNext
  <2>2. fee_ld \in Nat /\ transfer_fee.bps = 0 /\ escrow \in Nat /\ wallet[k] \in Nat
    BY InputsAssumption, U64MaxAssumption DEF Exact, Inv, TypeOK, U64Values
  <2>3. PostFeeAmount(transfer_fee, fee_ld) = fee_ld
    BY <2>2 DEF PostFeeAmount, WithheldFee
  <2>4. wallet' = [wallet EXCEPT ![k] = wallet[k] + fee_ld] /\ escrow' = escrow - fee_ld
    BY <2>1, <2>3 DEF WithdrawFee
  <2>5. wallet[k] + fee_ld \in Nat
    BY <2>2
  <2>6. /\ Total(wallet, Keys) \in Nat
        /\ Total(wallet', Keys) = Total(wallet, Keys) - wallet[k] + (wallet[k] + fee_ld)
    BY <2>4, <2>5, WalletTotal
  <2>. QED  BY <2>2, <2>4, <2>6, SupplyIsTotal
<1>3. CASE ~WithdrawNext
  <2>1. UNCHANGED <<wallet, escrow>>
    BY <1>3 DEF StoreConfigNext, SetDefaultFee, SetPaused, PeerConfigNext, SetPeerAddress,
      SetPeerFee, SetOutboundRateLimit, SetInboundRateLimit, TokenNext, NewEpochFee,
      SetMintAuthority, Tick, VerifyNext, EndpointVerify, vars, token_vars
  <2>. QED  BY <1>1, <2>1, SupplyIsTotal
<1>. QED  BY <1>2, <1>3

(* What is within the number of some messages is within that of more. *)
LEMMA NonceKept ==
  ASSUME NEW A, NEW B, A \subseteq B, IsFiniteSet(B), NEW n \in Nat, n <= Cardinality(A)
  PROVE  n <= Cardinality(B)
<1>1. /\ Cardinality(A) \in Nat /\ Cardinality(B) \in Nat
      /\ Cardinality(A) <= Cardinality(B)
  BY FS_Subset, FS_CardinalityType
<1>. QED  BY <1>1

(* The number of the messages of a path only grows, so the nonces stay within
   it. *)
LEMMA NextOutboundNonces ==
  Inv /\ OutboundNoncesOK /\ [Next]_vars => OutboundNoncesOK'
<1>. SUFFICES ASSUME Inv, OutboundNoncesOK, [Next]_vars PROVE OutboundNoncesOK'
  OBVIOUS
<1>1. ASSUME outbox \subseteq outbox', IsFiniteSet(outbox'), NEW n \in outbox
      PROVE  n.nonce <= Cardinality(PathOut(n)')
  <2>1. PathOut(n) \subseteq PathOut(n)' /\ IsFiniteSet(PathOut(n)')
    BY <1>1, FS_Subset DEF PathOut
  <2>2. n.nonce \in Nat /\ n.nonce <= Cardinality(PathOut(n))
    BY DEF OutboundNoncesOK, Inv, TypeOK, OutboundMessage
  <2>. QED  BY <2>1, <2>2, NonceKept
<1>2. IsFiniteSet(outbox) /\ IsFiniteSet(outbox')
  BY NextInv DEF Inv, MessagesFinite
<1>3. CASE SendNext
  <2>1. PICK m : /\ m \notin outbox
                 /\ m.nonce = 1 + Cardinality(PathOut(m))
                 /\ outbox' = outbox \cup {m}
    BY <1>3, SendEffect DEF SendNext
  <2>2. m.nonce <= Cardinality(PathOut(m)')
    <3>1. PathOut(m)' = PathOut(m) \cup {m} /\ m \notin PathOut(m) /\ IsFiniteSet(PathOut(m))
      BY <1>2, <2>1, FS_Subset DEF PathOut
    <3>2. Cardinality(PathOut(m)') = Cardinality(PathOut(m)) + 1 /\ Cardinality(PathOut(m)) \in Nat
      BY <3>1, FS_AddElement, FS_CardinalityType
    <3>. QED  BY <2>1, <3>2
  <2>. QED  BY <1>1, <1>2, <2>1, <2>2 DEF OutboundNoncesOK
<1>4. CASE ~SendNext
  <2>1. outbox' = outbox
    BY <1>4, ReceiveEffect, OtherEffect DEF LzReceiveNext, Next, LocalNext
  <2>. QED  BY <2>1 DEF OutboundNoncesOK, PathOut
<1>. QED  BY <1>3, <1>4

(* What the properties call the amounts sent and executed. *)
LEMMA SentAndCleared ==
  /\ SentSd = MessageValue(outbox) /\ SentSd' = MessageValue(outbox')
  /\ ClearedSd = MessageValue(cleared) /\ ClearedSd' = MessageValue(cleared')
BY DEF SentSd, ClearedSd, MessageValue, MapThenSumSet, MapThenFoldSet

(* The values sent and executed, and what one more message adds to them. *)
LEMMA ValuesType ==
  ASSUME Inv
  PROVE  /\ MessageValue(outbox) \in Nat /\ MessageValue(cleared) \in Nat
         /\ \A m \in OutboundMessage : m \notin outbox =>
              /\ m.amount_sd \in Nat
              /\ MessageValue(outbox \cup {m}) = MessageValue(outbox) + m.amount_sd
         /\ \A m \in inbox : m \notin cleared =>
              /\ m.amount_sd \in Nat
              /\ MessageValue(cleared \cup {m}) = MessageValue(cleared) + m.amount_sd
<1>1. /\ \A m \in OutboundMessage : m.amount_sd \in Nat
      /\ \A m \in inbox : m.amount_sd \in Nat
      /\ outbox \subseteq OutboundMessage /\ cleared \subseteq inbox
  BY U64MaxAssumption DEF Inv, TypeOK, OutboundMessage, InboundMessage, U64Values
<1>2. IsFiniteSet(outbox) /\ IsFiniteSet(cleared)
  BY <1>1, FS_Subset DEF Inv, MessagesFinite
<1>3. /\ \A m \in outbox : m.amount_sd \in Nat
      /\ \A m \in cleared : m.amount_sd \in Nat
  BY <1>1
<1>4. MessageValue(outbox) \in Nat /\ MessageValue(cleared) \in Nat
  BY <1>2, <1>3, MessageValueFirst
<1>5. ASSUME NEW m \in OutboundMessage, m \notin outbox
      PROVE  MessageValue(outbox \cup {m}) = MessageValue(outbox) + m.amount_sd
  <2>1. m.amount_sd \in Nat
    BY <1>1
  <2>. QED  BY <1>2, <1>3, <1>5, <2>1, MessageValueAdd
<1>6. ASSUME NEW m \in inbox, m \notin cleared
      PROVE  MessageValue(cleared \cup {m}) = MessageValue(cleared) + m.amount_sd
  <2>1. m.amount_sd \in Nat
    BY <1>1
  <2>. QED  BY <1>2, <1>3, <1>6, <2>1, MessageValueAdd
<1>. QED  BY <1>1, <1>4, <1>5, <1>6

(* The value of an amount is proportional to it. *)
LEMMA DecimalsLinear ==
  /\ \A a \in Int : Sd2ld(a) \in Int
  /\ \A a, b \in Int : Sd2ld(a + b) = Sd2ld(a) + Sd2ld(b)
  /\ \A a, b \in Int : Sd2ld(a - b) = Sd2ld(a) - Sd2ld(b)
  /\ Sd2ld(0) = 0
BY Ld2sdRateAssumption DEF Sd2ld

-------------------------------------------------------------------------------
(* What is locked, and what exists, is what the messages carry. *)

ValueInv == Inv /\ OutboundNoncesOK

(* It holds of every behaviour of the program. *)
LEMMA ValueInvHolds == Spec => []ValueInv
<1>1. Init => OutboundNoncesOK
  BY DEF Init, OutboundNoncesOK
<1>. QED  BY <1>1, InvHolds, NextOutboundNonces, PTL DEF Spec, ValueInv

(* A send locks what its message carries, a receipt unlocks it. *)
LEMMA NextTvl == ValueInv /\ TvlIsMessageValue /\ [Next]_vars => TvlIsMessageValue'
<1>. SUFFICES ASSUME ValueInv, TvlIsMessageValue, [Next]_vars
              PROVE  TvlIsMessageValue'
  OBVIOUS
<1>1. Inv /\ OutboundNoncesOK /\ [Next]_vars
  BY DEF ValueInv
<1>2. OftType' = OftType
  BY <1>1, OftTypeFixed
<1>3. OftType \in {"Adapter", "Native"}
  BY <1>1, OftTypesAssumption DEF Inv, TypeOK, OFTStore, OftType
<1>4. PICK o \in Nat, c \in Nat : o = MessageValue(outbox) /\ c = MessageValue(cleared)
  BY <1>1, ValuesType
<1>5. SentSd = o /\ ClearedSd = c
  BY <1>4, SentAndCleared
<1>6. ASSUME OftType = "Native" PROVE store'.tvl_ld = store.tvl_ld
  <2>1. CASE SendNext
    BY <1>6, <2>1 DEF SendNext, Send, Lock, BurnAndKeepFee
  <2>2. CASE LzReceiveNext
    BY <1>6, <2>2 DEF LzReceiveNext, LzReceive, Unlock, Mint
  <2>. QED  BY <1>1, <2>1, <2>2, OtherSteps DEF Next, LocalNext
<1>7. ASSUME OftType = "Adapter" PROVE store'.tvl_ld = Sd2ld(SentSd' - ClearedSd')
  <2>0. store.tvl_ld = Sd2ld(o - c)
    BY <1>5, <1>7 DEF TvlIsMessageValue
  <2>1. CASE SendNext
    <3>1. PICK m \in OutboundMessage :
            /\ m \notin outbox /\ outbox' = outbox \cup {m} /\ cleared' = cleared
            /\ store'.tvl_ld = store.tvl_ld + Sd2ld(m.amount_sd)
      BY <1>1, <1>7, <2>1, SendEffect DEF SendNext
    <3>2. PICK a \in Nat : a = m.amount_sd /\ MessageValue(outbox') = o + a
      BY <1>1, <1>4, <3>1, ValuesType
    <3>3. SentSd' = o + a /\ ClearedSd' = c
      BY <1>4, <3>1, <3>2, SentAndCleared
    <3>4. o - c \in Int /\ (o + a) - c = (o - c) + a
      BY <3>2
    <3>5. Sd2ld((o - c) + a) = Sd2ld(o - c) + Sd2ld(a)
      BY Ld2sdRateAssumption DEF Sd2ld
    <3>. QED  BY <2>0, <3>1, <3>2, <3>3, <3>4, <3>5
  <2>2. CASE LzReceiveNext
    <3>1. PICK m \in inbox :
            /\ m \notin cleared /\ cleared' = cleared \cup {m} /\ outbox' = outbox
            /\ store'.tvl_ld = store.tvl_ld - Sd2ld(m.amount_sd)
      BY <1>1, <1>7, <2>2, ReceiveEffect DEF LzReceiveNext
    <3>2. PICK a \in Nat : a = m.amount_sd /\ MessageValue(cleared') = c + a
      BY <1>1, <1>4, <3>1, ValuesType
    <3>3. SentSd' = o /\ ClearedSd' = c + a
      BY <1>4, <3>1, <3>2, SentAndCleared
    <3>4. o - c \in Int /\ o - (c + a) = (o - c) - a
      BY <3>2
    <3>5. Sd2ld((o - c) - a) = Sd2ld(o - c) - Sd2ld(a)
      BY Ld2sdRateAssumption DEF Sd2ld
    <3>. QED  BY <2>0, <3>1, <3>2, <3>3, <3>4, <3>5
  <2>3. CASE ~SendNext /\ ~LzReceiveNext
    <3>1. UNCHANGED <<outbox, cleared>> /\ store'.tvl_ld = store.tvl_ld
      BY <1>1, <2>3, OtherSteps DEF Next, LocalNext
    <3>2. SentSd' = o /\ ClearedSd' = c
      BY <1>4, <3>1, SentAndCleared
    <3>. QED  BY <2>0, <3>1, <3>2
  <2>. QED  BY <2>1, <2>2, <2>3
<1>. QED  BY <1>2, <1>3, <1>6, <1>7 DEF TvlIsMessageValue

(* What an adapter counts as locked is all it sent less all it executed,
   whatever the fees, the dust and the order; a native OFT counts nothing. *)
THEOREM TvlAlwaysMessageValue == Spec => []TvlIsMessageValue
<1>1. Init => TvlIsMessageValue
  <2>. SUFFICES ASSUME Init PROVE TvlIsMessageValue
    OBVIOUS
  <2>1. SentSd = 0 /\ ClearedSd = 0
    BY MessageValueEmpty, SentAndCleared DEF Init
  <2>2. Sd2ld(SentSd - ClearedSd) = 0
    BY <2>1, DecimalsLinear
  <2>. QED  BY <2>2 DEF Init, TvlIsMessageValue
<1>. QED  BY <1>1, ValueInvHolds, NextTvl, PTL DEF Spec

(* No epoch brings a native OFT's token a transfer fee. *)
LEMMA NextExact ==
  ASSUME NativeWithoutTransferFee
  PROVE  /\ Init => Exact
         /\ Inv /\ Exact /\ [Next]_vars => Exact'
<1>1. ASSUME Init PROVE Exact
  BY <1>1, InitInv DEF Init, Exact, NativeWithoutTransferFee, Inv, TypeOK, OFTStore, OftType
<1>2. ASSUME Inv, Exact, [Next]_vars PROVE Exact'
  <2>1. OftType' = OftType
    BY <1>2, OftTypeFixed
  <2>2. CASE transfer_fee' = transfer_fee
    BY <1>2, <2>1, <2>2 DEF Exact
  <2>3. CASE transfer_fee' # transfer_fee
    <3>1. TokenNext
      BY <1>2, <2>3 DEF Next, LocalNext, SendNext, Send, LzReceiveNext, LzReceive,
        StoreConfigNext, SetDefaultFee, SetPaused, PeerConfigNext, SetPeerAddress, SetPeerFee,
        SetOutboundRateLimit, SetInboundRateLimit, WithdrawNext, WithdrawFee, Tick, VerifyNext,
        EndpointVerify, vars, token_vars
    <3>2. transfer_fee' \in TransferFees[OftType]
      BY <2>3, <3>1 DEF TokenNext, NewEpochFee, SetMintAuthority
    <3>3. OftType \in OftTypes
      BY <1>2 DEF Inv, TypeOK, OFTStore, OftType
    <3>. QED  BY <2>1, <3>2, <3>3 DEF Exact, NativeWithoutTransferFee
  <2>. QED  BY <2>2, <2>3
<1>. QED  BY <1>1, <1>2

(* A send burns what its message carries, a receipt mints it. *)
LEMMA NextSupply ==
  ValueInv /\ Exact /\ NativeSupplyIsMessageValue /\ [Next]_vars => NativeSupplyIsMessageValue'
<1>. SUFFICES ASSUME ValueInv, Exact, NativeSupplyIsMessageValue, [Next]_vars, OftType = "Native"
              PROVE  Supply' = Cardinality(Keys) * InitialBalance - Sd2ld(SentSd') + Sd2ld(ClearedSd')
  BY OftTypeFixed DEF ValueInv, NativeSupplyIsMessageValue
<1>1. Inv /\ OutboundNoncesOK /\ [Next]_vars
  BY DEF ValueInv
<1>2. PICK start \in Nat : start = Cardinality(Keys) * InitialBalance
  BY KeysAssumption, InitialBalanceAssumption, FS_CardinalityType
<1>4. PICK o \in Nat, c \in Nat : o = MessageValue(outbox) /\ c = MessageValue(cleared)
  BY <1>1, ValuesType
<1>5. Supply = start - Sd2ld(o) + Sd2ld(c)
  BY <1>2, <1>4, SentAndCleared DEF NativeSupplyIsMessageValue
<1>6. Sd2ld(o) \in Int /\ Sd2ld(c) \in Int
  BY Ld2sdRateAssumption DEF Sd2ld
<1>7. Supply' = start - Sd2ld(SentSd') + Sd2ld(ClearedSd')
  <2>1. CASE SendNext
    <3>1. PICK m \in OutboundMessage :
            /\ m \notin outbox /\ outbox' = outbox \cup {m} /\ cleared' = cleared
            /\ Supply' = Supply - Sd2ld(m.amount_sd)
      BY <1>1, <2>1, SendEffect DEF SendNext
    <3>2. PICK a \in Nat : a = m.amount_sd /\ MessageValue(outbox') = o + a
      BY <1>1, <1>4, <3>1, ValuesType
    <3>3. SentSd' = o + a /\ ClearedSd' = c
      BY <1>4, <3>1, <3>2, SentAndCleared
    <3>4. Sd2ld(o + a) = Sd2ld(o) + Sd2ld(a) /\ Sd2ld(a) \in Int
      BY Ld2sdRateAssumption DEF Sd2ld
    <3>. QED  BY <1>5, <1>6, <3>1, <3>2, <3>3, <3>4
  <2>2. CASE LzReceiveNext
    <3>1. PICK m \in inbox :
            /\ m \notin cleared /\ cleared' = cleared \cup {m} /\ outbox' = outbox
            /\ Supply' = Supply + Sd2ld(m.amount_sd)
      BY <1>1, <2>2, ReceiveEffect DEF LzReceiveNext
    <3>2. PICK a \in Nat : a = m.amount_sd /\ MessageValue(cleared') = c + a
      BY <1>1, <1>4, <3>1, ValuesType
    <3>3. SentSd' = o /\ ClearedSd' = c + a
      BY <1>4, <3>1, <3>2, SentAndCleared
    <3>4. Sd2ld(c + a) = Sd2ld(c) + Sd2ld(a) /\ Sd2ld(a) \in Int
      BY Ld2sdRateAssumption DEF Sd2ld
    <3>. QED  BY <1>5, <1>6, <3>1, <3>2, <3>3, <3>4
  <2>3. CASE ~SendNext /\ ~LzReceiveNext
    <3>1. UNCHANGED <<outbox, cleared>> /\ Supply' = Supply
      BY <1>1, <2>3, OtherEffect DEF Next, LocalNext
    <3>2. SentSd' = o /\ ClearedSd' = c
      BY <1>4, <3>1, SentAndCleared
    <3>. QED  BY <1>5, <3>1, <3>2
  <2>. QED  BY <2>1, <2>2, <2>3
<1>. QED  BY <1>2, <1>7

(* At first nothing is sent and the supply is the initial one. *)
LEMMA InitSupply == Init => NativeSupplyIsMessageValue
<1>. SUFFICES ASSUME Init PROVE NativeSupplyIsMessageValue
  OBVIOUS
<1>1. SentSd = 0 /\ ClearedSd = 0 /\ Sd2ld(0) = 0
  BY MessageValueEmpty, SentAndCleared, DecimalsLinear DEF Init
<1>2. wallet = [k \in Keys |-> InitialBalance] /\ escrow = 0
  BY DEF Init
<1>3. Total([k \in Keys |-> InitialBalance], Keys) = Cardinality(Keys) * InitialBalance
  BY KeysAssumption, InitialBalanceAssumption, TotalConstant
<1>4. Cardinality(Keys) * InitialBalance \in Nat
  BY KeysAssumption, InitialBalanceAssumption, FS_CardinalityType
<1>5. Supply = Cardinality(Keys) * InitialBalance
  BY <1>2, <1>3, <1>4, SupplyIsTotal
<1>. QED  BY <1>1, <1>4, <1>5 DEF NativeSupplyIsMessageValue

(* A native OFT whose token charges no transfer fee has burnt what it sent and
   minted what it executed, and nothing else: its fees only change hands. *)
THEOREM NativeSupplyAlwaysMessageValue ==
  ASSUME NativeWithoutTransferFee
  PROVE  Spec => []NativeSupplyIsMessageValue
<1>1. Init => NativeSupplyIsMessageValue
  BY InitSupply
<1>2. (Init => Exact) /\ (Inv /\ Exact /\ [Next]_vars => Exact')
  BY NextExact
<1>. QED  BY <1>1, <1>2, InvHolds, ValueInvHolds, NextSupply, PTL DEF Spec

-------------------------------------------------------------------------------
(* The bridge: the messages of the remote applications *)

PathBack(m) == {n \in returning : n.src_eid = m.src_eid /\ n.sender = m.sender}

ReturningNoncesOK == \A m \in returning : m.nonce <= Cardinality(PathBack(m))

BridgeInv ==
  /\ ValueInv
  /\ RemoteTypeOK
  /\ IsFiniteSet(returning)
  /\ ReturningNoncesOK

(* A remote application adds one message to those that return, under a nonce
   that none of its path has. *)
LEMMA RemoteSendEffect ==
  ASSUME BridgeInv, NEW eid \in Eids, NEW address \in Addresses, NEW k \in Keys,
         NEW amount_sd \in RemoteAmounts, NEW compose \in ComposeChoices,
         RemoteSend(eid, address, k, amount_sd, compose)
  PROVE  \E m \in InboundMessage :
           /\ m \notin returning
           /\ m.nonce = 1 + Cardinality(PathBack(m))
           /\ m.amount_sd = amount_sd
           /\ returning' = returning \cup {m}
<1>. DEFINE m == [src_eid |-> eid, sender |-> address,
                  nonce |-> 1 + Cardinality({n \in returning :
                                               n.src_eid = eid /\ n.sender = address}),
                  to |-> k, amount_sd |-> amount_sd, compose |-> compose]
<1>1. returning' = returning \cup {m}
  BY DEF RemoteSend
<1>2. m.nonce = 1 + Cardinality(PathBack(m))
  BY DEF PathBack
<1>3. Cardinality(PathBack(m)) \in Nat
  BY FS_Subset, FS_CardinalityType DEF PathBack, BridgeInv
<1>4. m.nonce \in Nat
  BY <1>2, <1>3
<1>5. m \in InboundMessage
  BY <1>4, RemoteAmountsAssumption, InputsAssumption DEF InboundMessage
<1>6. m.amount_sd = amount_sd
  OBVIOUS
<1>. HIDE DEF m
<1>7. m \notin returning
  BY <1>2, <1>3 DEF ReturningNoncesOK, BridgeInv
<1>. QED  BY <1>1, <1>2, <1>5, <1>6, <1>7

(* The endpoint verifies the message that was sent. *)
LEMMA VerifyEffect ==
  ASSUME BridgeInv, NEW m \in returning, Verify(m)
  PROVE  /\ m \in InboundMessage
         /\ inbox' = inbox \cup {m}
         /\ UNCHANGED <<store, peer, token_vars, now, outbox, cleared, composed, remote_vars>>
<1>1. m \in InboundMessage
  BY DEF BridgeInv, RemoteTypeOK
<1>2. m = [src_eid |-> m.src_eid, sender |-> m.sender, nonce |-> m.nonce,
           to |-> m.to, amount_sd |-> m.amount_sd, compose |-> m.compose]
  BY <1>1 DEF InboundMessage
<1>. QED  BY <1>1, <1>2 DEF Verify, EndpointVerify

(* A step of the bridge is one of the program, or of the remote side. *)
LEMMA BridgeSteps ==
  ASSUME [BridgeNext]_bridge_vars
  PROVE  \/ [Next]_vars /\ UNCHANGED remote_vars
         \/ UNCHANGED vars /\ (RemoteReceiveNext \/ RemoteSendNext)
         \/ VerifyReturning
<1>1. RemoteReceiveNext \/ RemoteSendNext => UNCHANGED vars
  BY DEF RemoteReceiveNext, RemoteReceive, RemoteSendNext, RemoteSend
<1>. QED  BY <1>1 DEF BridgeNext, bridge_vars, Next

(* The bridge starts without messages and without remote tokens. *)
LEMMA BridgeInitInv == BridgeInit => BridgeInv
<1>. SUFFICES ASSUME BridgeInit PROVE BridgeInv
  OBVIOUS
<1>1. Inv /\ outbox = {} /\ inbox = {} /\ delivered = {} /\ returning = {}
  BY InitInv DEF BridgeInit, Init
<1>2. remote \in [Eids -> [Addresses -> Nat]]
  BY DEF BridgeInit
<1>. QED
  BY <1>1, <1>2, FS_EmptySet DEF BridgeInv, ValueInv, OutboundNoncesOK, RemoteTypeOK,
     ReturningNoncesOK, Inv

(* The invariant of the program, with messages verified in the order of their
   paths. *)
LEMMA NextValueInv == BridgeInv /\ [BridgeNext]_bridge_vars => ValueInv'
<1>. SUFFICES ASSUME BridgeInv, [BridgeNext]_bridge_vars PROVE ValueInv'
  OBVIOUS
<1>1. Inv /\ OutboundNoncesOK
  BY DEF BridgeInv, ValueInv
<1>2. CASE [Next]_vars
  BY <1>1, <1>2, NextInv, NextOutboundNonces DEF ValueInv
<1>3. CASE UNCHANGED vars
  BY <1>1, <1>3, NextInv, NextOutboundNonces DEF ValueInv
<1>4. CASE VerifyReturning
  <2>1. PICK m \in returning : Verify(m)
    BY <1>4 DEF VerifyReturning
  <2>2. /\ m \in InboundMessage /\ inbox' = inbox \cup {m}
        /\ UNCHANGED <<store, peer, token_vars, now, outbox, cleared, composed>>
    BY <2>1, VerifyEffect
  <2>3. TypeOK'
    BY <1>1, <2>2 DEF Inv, TypeOK, token_vars
  <2>4. MessagesFinite'
    BY <1>1, <2>2, FS_AddElement DEF Inv, MessagesFinite
  <2>5. OutboundNoncesOK'
    BY <1>1, <2>2 DEF OutboundNoncesOK, PathOut
  <2>. QED  BY <2>3, <2>4, <2>5 DEF ValueInv, Inv
<1>. QED  BY <1>2, <1>3, <1>4, BridgeSteps

(* The messages that return stay finitely many, each with a nonce of its own. *)
LEMMA NextReturning ==
  BridgeInv /\ [BridgeNext]_bridge_vars =>
    /\ returning' \subseteq InboundMessage
    /\ IsFiniteSet(returning')
    /\ ReturningNoncesOK'
<1>. SUFFICES ASSUME BridgeInv, [BridgeNext]_bridge_vars
              PROVE  /\ returning' \subseteq InboundMessage
                     /\ IsFiniteSet(returning')
                     /\ ReturningNoncesOK'
  OBVIOUS
<1>1. CASE UNCHANGED returning
  BY <1>1 DEF BridgeInv, RemoteTypeOK, ReturningNoncesOK, PathBack
<1>2. CASE RemoteSendNext
  <2>1. PICK m \in InboundMessage :
          /\ m \notin returning
          /\ m.nonce = 1 + Cardinality(PathBack(m))
          /\ returning' = returning \cup {m}
    BY <1>2, RemoteSendEffect DEF RemoteSendNext
  <2>2. IsFiniteSet(returning) /\ IsFiniteSet(returning')
    BY <2>1, FS_AddElement DEF BridgeInv
  <2>3. m.nonce <= Cardinality(PathBack(m)')
    <3>1. PathBack(m)' = PathBack(m) \cup {m} /\ m \notin PathBack(m) /\ IsFiniteSet(PathBack(m))
      BY <2>1, <2>2, FS_Subset DEF PathBack
    <3>2. /\ Cardinality(PathBack(m)') = Cardinality(PathBack(m)) + 1
          /\ Cardinality(PathBack(m)) \in Nat
      BY <3>1, FS_AddElement, FS_CardinalityType
    <3>. QED  BY <2>1, <3>2
  <2>4. ASSUME NEW n \in returning PROVE n.nonce <= Cardinality(PathBack(n)')
    <3>1. PathBack(n) \subseteq PathBack(n)' /\ IsFiniteSet(PathBack(n)')
      BY <2>1, <2>2, FS_Subset DEF PathBack
    <3>2. n.nonce \in Nat /\ n.nonce <= Cardinality(PathBack(n))
      BY DEF BridgeInv, ReturningNoncesOK, RemoteTypeOK, InboundMessage
    <3>. QED  BY <3>1, <3>2, NonceKept
  <2>5. ReturningNoncesOK'
    BY <2>1, <2>3, <2>4 DEF ReturningNoncesOK
  <2>6. returning' \subseteq InboundMessage
    BY <2>1 DEF BridgeInv, RemoteTypeOK
  <2>. QED  BY <2>2, <2>5, <2>6
<1>3. UNCHANGED returning \/ RemoteSendNext
  BY DEF BridgeNext, bridge_vars, remote_vars, RemoteReceiveNext, RemoteReceive,
     VerifyReturning, Verify
<1>. QED  BY <1>1, <1>2, <1>3

(* The remote applications never burn more than they hold, execute only what
   was sent, and nothing is verified that they did not send. *)
LEMMA NextRemote ==
  BridgeInv /\ [BridgeNext]_bridge_vars =>
    /\ remote' \in [Eids -> [Addresses -> Nat]]
    /\ delivered' \subseteq outbox'
    /\ inbox' \subseteq returning'
<1>. SUFFICES ASSUME BridgeInv, [BridgeNext]_bridge_vars
              PROVE  /\ remote' \in [Eids -> [Addresses -> Nat]]
                     /\ delivered' \subseteq outbox'
                     /\ inbox' \subseteq returning'
  OBVIOUS
<1>1. /\ remote \in [Eids -> [Addresses -> Nat]]
      /\ delivered \subseteq outbox
      /\ inbox \subseteq returning
      /\ outbox \subseteq OutboundMessage
  BY DEF BridgeInv, RemoteTypeOK, TypeOK
<1>2. CASE RemoteReceiveNext
  <2>1. PICK m \in outbox : RemoteReceive(m)
    BY <1>2 DEF RemoteReceiveNext
  <2>2. m.dst_eid \in Eids /\ m.receiver \in Addresses /\ m.amount_sd \in Nat
    BY <1>1, U64MaxAssumption DEF OutboundMessage, U64Values
  <2>3. remote[m.dst_eid][m.receiver] + m.amount_sd \in Nat
    BY <1>1, <2>2
  <2>. QED  BY <1>1, <2>1, <2>2, <2>3 DEF RemoteReceive, vars, endpoint_vars
<1>3. CASE RemoteSendNext
  <2>1. PICK eid \in Eids, address \in Addresses, k \in Keys,
             amount_sd \in RemoteAmounts, compose \in ComposeChoices :
               RemoteSend(eid, address, k, amount_sd, compose)
    BY <1>3 DEF RemoteSendNext
  <2>2. amount_sd \in Nat /\ remote[eid][address] >= amount_sd
    BY <2>1, RemoteAmountsAssumption, U64MaxAssumption DEF RemoteSend, U64Values
  <2>3. remote[eid][address] - amount_sd \in Nat
    BY <1>1, <2>2
  <2>. QED  BY <1>1, <2>1, <2>3 DEF RemoteSend, vars, endpoint_vars
<1>4. CASE VerifyReturning
  <2>1. PICK m \in returning : Verify(m)
    BY <1>4 DEF VerifyReturning
  <2>. QED  BY <1>1, <2>1, VerifyEffect DEF remote_vars
<1>5. CASE (LocalNext \/ UNCHANGED vars) /\ UNCHANGED remote_vars
  <2>1. outbox \subseteq outbox' /\ inbox' = inbox
    BY <1>5 DEF LocalNext, SendNext, Send, LzReceiveNext, LzReceive, StoreConfigNext,
      SetDefaultFee, SetPaused, PeerConfigNext, SetPeerAddress, SetPeerFee,
      SetOutboundRateLimit, SetInboundRateLimit, WithdrawNext, WithdrawFee, TokenNext,
      NewEpochFee, SetMintAuthority, Tick, vars, endpoint_vars
  <2>. QED  BY <1>1, <1>5, <2>1 DEF remote_vars
<1>. QED  BY <1>2, <1>3, <1>4, <1>5 DEF BridgeNext, bridge_vars

(* So every step keeps the invariant, and it holds of every behaviour. *)
LEMMA NextBridgeInv == BridgeInv /\ [BridgeNext]_bridge_vars => BridgeInv'
<1>. SUFFICES ASSUME BridgeInv, [BridgeNext]_bridge_vars PROVE BridgeInv'
  OBVIOUS
<1>1. ValueInv' /\ TypeOK'
  BY NextValueInv DEF ValueInv, Inv
<1>. QED  BY <1>1, NextReturning, NextRemote DEF BridgeInv, RemoteTypeOK

LEMMA BridgeInvHolds == BridgeSpec => []BridgeInv
BY BridgeInitInv, NextBridgeInv, PTL DEF BridgeSpec

(* The remote side keeps its types for any amounts, applications and channel:
   no remote balance is negative, nothing is executed there that was not sent
   or verified here that was not sent there. *)
THEOREM RemoteAlwaysTyped == BridgeSpec => []RemoteTypeOK
<1>1. BridgeInv => RemoteTypeOK
  BY DEF BridgeInv
<1>. QED  BY <1>1, BridgeInvHolds, PTL

-------------------------------------------------------------------------------
(* The value of the remote applications *)

ValueOf(balances) ==
  MapThenSumSet(LAMBDA eid : MapThenSumSet(LAMBDA a : balances[eid][a], Addresses), Eids)

(* The remote value, as an operator of the balances. *)
LEMMA RemoteValueOf == RemoteValue = ValueOf(remote) /\ RemoteValue' = ValueOf(remote')
BY DEF RemoteValue, ValueOf, MapThenSumSet, MapThenFoldSet

(* The sum of the sums. *)
LEMMA ValueOfIsTotal ==
  ASSUME NEW balances
  PROVE  ValueOf(balances) = Total([eid \in Eids |-> Total(balances[eid], Addresses)], Eids)
<1>. DEFINE Row(eid) == MapThenSumSet(LAMBDA a : balances[eid][a], Addresses)
            f == [eid \in Eids |-> Row(eid)]
            P(it) == it = [s \in SUBSET Eids |-> IF s = {} THEN 0
                             ELSE Row(Pick(s)) + it[s \ {Pick(s)}]]
<1>0. \A eid : Row(eid) = Total(balances[eid], Addresses)
  BY DEF Total, MapThenSumSet, MapThenFoldSet
<1>. HIDE DEF Row
<1>1. ASSUME NEW it PROVE P(it) <=> SumsOver(it, Eids, f)
  <2>1. \A s \in SUBSET Eids : s # {} => f[Pick(s)] = Row(Pick(s))
    BY PickIn
  <2>2. [s \in SUBSET Eids |-> IF s = {} THEN 0 ELSE Row(Pick(s)) + it[s \ {Pick(s)}]]
          = [s \in SUBSET Eids |-> IF s = {} THEN 0 ELSE f[Pick(s)] + it[s \ {Pick(s)}]]
    BY <2>1
  <2>. QED  BY <2>2 DEF SumsOver
<1>2. PICK sum : SumsOver(sum, Eids, f) /\ Total(f, Eids) = sum[Eids]
  BY TotalIsSum, PlacesAssumption
<1>. DEFINE it == CHOOSE g : P(g)
<1>3. P(it)
  <2>1. P(sum)
    BY <1>1, <1>2
  <2>. HIDE DEF P
  <2>. QED  BY <2>1
<1>4. ValueOf(balances) = it[Eids]
  BY DEF ValueOf, MapThenSumSet, MapThenFoldSet, Pick, Row
<1>5. SumsOver(it, Eids, f)
  <2>. HIDE DEF P, it
  <2>. QED  BY <1>1, <1>3
<1>6. it[Eids] = sum[Eids]
  <2>. HIDE DEF P, it, f
  <2>. QED  BY <1>2, <1>5, SumUnique, PlacesAssumption
<1>7. f = [eid \in Eids |-> Total(balances[eid], Addresses)]
  BY <1>0
<1>8. ValueOf(balances) = Total(f, Eids)
  <2>. HIDE DEF P, it, f
  <2>. QED  BY <1>2, <1>4, <1>6
<1>. QED  BY <1>7, <1>8

(* Balances that differ at one application. *)
LEMMA ValueOfChange ==
  ASSUME NEW before \in [Eids -> [Addresses -> Nat]], NEW after \in [Eids -> [Addresses -> Nat]],
         NEW eid \in Eids, NEW address \in Addresses,
         \A e \in Eids \ {eid} : after[e] = before[e],
         \A a \in Addresses \ {address} : after[eid][a] = before[eid][a]
  PROVE  /\ ValueOf(before) \in Nat
         /\ ValueOf(after) = ValueOf(before) - before[eid][address] + after[eid][address]
<1>. DEFINE f == [e \in Eids |-> Total(before[e], Addresses)]
            g == [e \in Eids |-> Total(after[e], Addresses)]
<1>1. \A e \in Eids : f[e] \in Nat /\ g[e] \in Nat
  <2>1. \A e \in Eids : \A a \in Addresses : before[e][a] \in Nat /\ after[e][a] \in Nat
    OBVIOUS
  <2>2. \A e \in Eids : Total(before[e], Addresses) \in Nat /\ Total(after[e], Addresses) \in Nat
    BY <2>1, PlacesAssumption, TotalFirst
  <2>. QED  BY <2>2
<1>2. \A e \in Eids \ {eid} : g[e] = f[e]
  OBVIOUS
<1>3. g[eid] = f[eid] - before[eid][address] + after[eid][address]
  <2>1. PICK b, c : b = before[eid] /\ c = after[eid]
    OBVIOUS
  <2>2. \A a \in Addresses : b[a] \in Nat /\ c[a] \in Nat
    BY <2>1
  <2>3. \A a \in Addresses \ {address} : c[a] = b[a]
    BY <2>1
  <2>4. DifferAt(b, c, Addresses, address)
    BY <2>2, <2>3, PlacesAssumption DEF DifferAt
  <2>5. Total(c, Addresses) = Total(b, Addresses) - b[address] + c[address]
    BY <2>4, TotalDiffer
  <2>. QED  BY <2>1, <2>5
<1>4. ValueOf(before) = Total(f, Eids) /\ ValueOf(after) = Total(g, Eids)
  BY ValueOfIsTotal
<1>. HIDE DEF f, g
<1>5. Total(f, Eids) \in Nat
  BY <1>1, PlacesAssumption, TotalFirst
<1>6. Total(g, Eids) = Total(f, Eids) - f[eid] + g[eid]
  <2>1. DifferAt(f, g, Eids, eid)
    BY <1>1, <1>2, PlacesAssumption DEF DifferAt
  <2>. QED  BY <2>1, TotalDiffer
<1>7. before[eid][address] \in Nat /\ after[eid][address] \in Nat
  OBVIOUS
<1>. QED  BY <1>1, <1>3, <1>4, <1>5, <1>6, <1>7

(* No balances. *)
LEMMA ValueOfNothing == ValueOf([eid \in Eids |-> [address \in Addresses |-> 0]]) = 0
<1>. DEFINE z == [address \in Addresses |-> 0]
            f == [eid \in Eids |-> z]
<1>0. /\ IsFiniteSet(Eids) /\ Cardinality(Eids) \in Nat
      /\ IsFiniteSet(Addresses) /\ Cardinality(Addresses) \in Nat
  BY PlacesAssumption, FS_CardinalityType
<1>1. Total(z, Addresses) = 0
  <2>1. Total([address \in Addresses |-> 0], Addresses) = Cardinality(Addresses) * 0
    BY <1>0, TotalConstant
  <2>. QED  BY <1>0, <2>1
<1>2. Total([eid \in Eids |-> 0], Eids) = 0
  <2>1. Total([eid \in Eids |-> 0], Eids) = Cardinality(Eids) * 0
    BY <1>0, TotalConstant
  <2>. QED  BY <1>0, <2>1
<1>3. [eid \in Eids |-> Total(f[eid], Addresses)] = [eid \in Eids |-> 0]
  BY <1>1
<1>4. ValueOf(f) = Total([eid \in Eids |-> Total(f[eid], Addresses)], Eids)
  BY ValueOfIsTotal
<1>. QED  BY <1>2, <1>3, <1>4

(* The remote value is a number. *)
LEMMA RemoteValueType == BridgeInv => RemoteValue \in Nat
<1>. SUFFICES ASSUME BridgeInv PROVE RemoteValue \in Nat
  OBVIOUS
<1>1. remote \in [Eids -> [Addresses -> Nat]]
  BY DEF BridgeInv, RemoteTypeOK
<1>. DEFINE f == [eid \in Eids |-> Total(remote[eid], Addresses)]
<1>2. \A eid \in Eids : \A a \in Addresses : remote[eid][a] \in Nat
  BY <1>1
<1>3. \A eid \in Eids : Total(remote[eid], Addresses) \in Nat
  BY <1>2, PlacesAssumption, TotalFirst
<1>4. \A eid \in Eids : f[eid] \in Nat
  BY <1>3
<1>5. RemoteValue = Total(f, Eids)
  BY RemoteValueOf, ValueOfIsTotal
<1>. HIDE DEF f
<1>. QED  BY <1>4, <1>5, PlacesAssumption, TotalFirst

-------------------------------------------------------------------------------
(* What each step of the bridge does to the transfers and to the value of the
   two sides *)

outgoing == outbox \ delivered
incoming == returning \ cleared

(* The transfers are finitely many, and have a value each. *)
LEMMA TransfersType ==
  ASSUME BridgeInv
  PROVE  /\ IsFiniteSet(outgoing) /\ IsFiniteSet(incoming)
         /\ \A m \in outgoing \cup incoming : m.amount_sd \in Nat
         /\ \A m \in OutboundMessage \cup InboundMessage : m.amount_sd \in Nat
<1>1. IsFiniteSet(outbox) /\ IsFiniteSet(returning)
  BY DEF BridgeInv, ValueInv, Inv, MessagesFinite
<1>2. IsFiniteSet(outgoing) /\ IsFiniteSet(incoming)
  BY <1>1, FS_Subset DEF outgoing, incoming
<1>3. \A m \in OutboundMessage \cup InboundMessage : m.amount_sd \in Nat
  BY U64MaxAssumption DEF OutboundMessage, InboundMessage, U64Values
<1>4. outgoing \subseteq OutboundMessage /\ incoming \subseteq InboundMessage
  BY DEF BridgeInv, RemoteTypeOK, TypeOK, outgoing, incoming
<1>. QED  BY <1>2, <1>3, <1>4

(* A remote application executes a message: its value arrives there. *)
LEMMA RemoteReceiveFlow ==
  ASSUME BridgeInv, NEW m \in outbox, RemoteReceive(m)
  PROVE  /\ m \in outgoing
         /\ outgoing' = outgoing \ {m}
         /\ incoming' = incoming
         /\ RemoteValue' = RemoteValue + m.amount_sd
         /\ UNCHANGED vars
<1>1. /\ m \in outgoing /\ outgoing' = outgoing \ {m} /\ incoming' = incoming /\ UNCHANGED vars
  BY DEF RemoteReceive, outgoing, incoming, vars, endpoint_vars
<1>2. /\ m.dst_eid \in Eids /\ m.receiver \in Addresses /\ m.amount_sd \in Nat
      /\ remote \in [Eids -> [Addresses -> Nat]]
      /\ remote' \in [Eids -> [Addresses -> Nat]]
  <2>1. [BridgeNext]_bridge_vars
    BY DEF BridgeNext, RemoteReceiveNext
  <2>. QED  BY <2>1, NextRemote, U64MaxAssumption
            DEF BridgeInv, RemoteTypeOK, TypeOK, OutboundMessage, U64Values
<1>3. PICK before \in [Eids -> [Addresses -> Nat]], after \in [Eids -> [Addresses -> Nat]] :
        before = remote /\ after = remote'
  BY <1>2
<1>4. PICK eid \in Eids, address \in Addresses : eid = m.dst_eid /\ address = m.receiver
  BY <1>2
<1>5. /\ \A e \in Eids \ {eid} : after[e] = before[e]
      /\ \A a \in Addresses \ {address} : after[eid][a] = before[eid][a]
      /\ after[eid][address] = before[eid][address] + m.amount_sd
  BY <1>3, <1>4 DEF RemoteReceive
<1>6. /\ ValueOf(before) \in Nat
      /\ ValueOf(after) = ValueOf(before) - before[eid][address] + after[eid][address]
  BY <1>5, ValueOfChange
<1>7. before[eid][address] \in Nat
  OBVIOUS
<1>8. ValueOf(after) = ValueOf(before) + m.amount_sd
  BY <1>2, <1>5, <1>6, <1>7
<1>. QED  BY <1>1, <1>3, <1>8, RemoteValueOf

(* A remote application sends: the value leaves it with the message. *)
LEMMA RemoteSendFlow ==
  ASSUME BridgeInv, RemoteSendNext
  PROVE  \E m \in InboundMessage :
           /\ m \notin incoming
           /\ incoming' = incoming \cup {m}
           /\ outgoing' = outgoing
           /\ RemoteValue' + m.amount_sd = RemoteValue
           /\ RemoteValue' \in Nat
           /\ UNCHANGED vars
<1>1. PICK eid \in Eids, address \in Addresses, k \in Keys,
           amount_sd \in RemoteAmounts, compose \in ComposeChoices :
             RemoteSend(eid, address, k, amount_sd, compose)
  BY DEF RemoteSendNext
<1>2. PICK m \in InboundMessage :
        m \notin returning /\ m.amount_sd = amount_sd /\ returning' = returning \cup {m}
  BY <1>1, RemoteSendEffect
<1>3. m \notin cleared
  BY <1>2 DEF BridgeInv, RemoteTypeOK, TypeOK
<1>4. UNCHANGED <<vars, delivered>> /\ cleared' = cleared /\ outbox' = outbox
  BY <1>1 DEF RemoteSend, vars, endpoint_vars
<1>5. m \notin incoming /\ incoming' = incoming \cup {m} /\ outgoing' = outgoing
  BY <1>2, <1>3, <1>4 DEF incoming, outgoing
<1>6. BridgeInv' /\ remote \in [Eids -> [Addresses -> Nat]]
                /\ remote' \in [Eids -> [Addresses -> Nat]]
  <2>1. [BridgeNext]_bridge_vars
    BY DEF BridgeNext
  <2>2. BridgeInv'
    BY <2>1, NextBridgeInv
  <2>. QED  BY <2>2 DEF BridgeInv, RemoteTypeOK
<1>7. PICK before \in [Eids -> [Addresses -> Nat]], after \in [Eids -> [Addresses -> Nat]] :
        before = remote /\ after = remote'
  BY <1>6
<1>8. /\ \A e \in Eids \ {eid} : after[e] = before[e]
      /\ \A a \in Addresses \ {address} : after[eid][a] = before[eid][a]
      /\ after[eid][address] = before[eid][address] - amount_sd
  BY <1>1, <1>7 DEF RemoteSend
<1>9. /\ ValueOf(before) \in Nat
      /\ ValueOf(after) = ValueOf(before) - before[eid][address] + after[eid][address]
  BY <1>8, ValueOfChange
<1>10. before[eid][address] \in Nat /\ after[eid][address] \in Nat /\ amount_sd \in Nat
  <2>1. amount_sd \in Nat
    BY RemoteAmountsAssumption, U64MaxAssumption DEF U64Values
  <2>. QED  BY <2>1
<1>11. ValueOf(after) + amount_sd = ValueOf(before)
  BY <1>8, <1>9, <1>10
<1>12. ValueOf(after) \in Nat
  <2>1. /\ \A e \in Eids \ {eid} : before[e] = after[e]
        /\ \A a \in Addresses \ {address} : before[eid][a] = after[eid][a]
    BY <1>8
  <2>. QED  BY <2>1, ValueOfChange
<1>. QED  BY <1>2, <1>4, <1>5, <1>7, <1>11, <1>12, RemoteValueOf

(* The value on this chain, in local units. *)
HomeLd ==
  IF OftType = "Adapter" THEN Cardinality(Keys) * InitialBalance - store.tvl_ld ELSE Supply

(* It is a number, and TokenBridge's home is it in shared units. *)
LEMMA HomeLdType ==
  /\ Inv => HomeLd \in Int
  /\ HomeValue = Ld2sd(HomeLd) /\ HomeValue' = Ld2sd(HomeLd')
<1>1. ASSUME Inv PROVE HomeLd \in Int
  <2>1. \A k \in Keys : wallet[k] \in Nat
    BY <1>1 DEF Inv, TypeOK
  <2>2. Total(wallet, Keys) \in Nat
    BY <2>1, KeysAssumption, TotalFirst
  <2>3. Supply \in Int
    BY <1>1, <2>2, SupplyIsTotal DEF Inv, TypeOK
  <2>4. store.tvl_ld \in Int
    BY <1>1, U64MaxAssumption DEF Inv, TypeOK, OFTStore, U64Values
  <2>5. Cardinality(Keys) * InitialBalance \in Int
    BY KeysAssumption, InitialBalanceAssumption, FS_CardinalityType
  <2>. QED  BY <2>3, <2>4, <2>5 DEF HomeLd
<1>. QED  BY <1>1 DEF HomeValue, HomeLd, Supply, OftType

(* Whole shared units more or fewer change the value by as many. *)
LEMMA WholeUnits ==
  ASSUME NEW x \in Int, NEW a \in Nat
  PROVE  /\ Ld2sd(x + Sd2ld(a)) = Ld2sd(x) + a
         /\ Ld2sd(x - Sd2ld(a)) + a = Ld2sd(x)
<1>1. ASSUME NEW n \in Nat \ {0}, NEW y \in Int, NEW b \in Nat
      PROVE  (y + b * n) \div n = y \div n + b
  OBVIOUS
<1>. QED  BY <1>1, Ld2sdRateAssumption DEF Ld2sd, Sd2ld

(* A send: the value leaves home with the message, fees and dust stay. *)
LEMMA SendFlow ==
  ASSUME BridgeInv, SendNext, UNCHANGED remote_vars
  PROVE  \E m \in OutboundMessage :
           /\ m \notin outgoing /\ m \notin outbox
           /\ outbox' = outbox \cup {m} /\ cleared' = cleared
           /\ outgoing' = outgoing \cup {m}
           /\ incoming' = incoming
           /\ Exact => HomeValue' + m.amount_sd = HomeValue
<1>1. Inv /\ OutboundNoncesOK
  BY DEF BridgeInv, ValueInv
<1>2. PICK m \in OutboundMessage :
        /\ m \notin outbox
        /\ outbox' = outbox \cup {m}
        /\ UNCHANGED <<inbox, cleared, transfer_fee>>
        /\ OftType = "Adapter" => store'.tvl_ld = store.tvl_ld + Sd2ld(m.amount_sd)
        /\ OftType = "Native" /\ Exact => Supply' = Supply - Sd2ld(m.amount_sd)
  BY <1>1, SendEffect DEF SendNext
<1>3. m \notin delivered
  BY <1>2 DEF BridgeInv, RemoteTypeOK
<1>4. m \notin outgoing /\ outgoing' = outgoing \cup {m} /\ incoming' = incoming
  BY <1>2, <1>3 DEF outgoing, incoming, remote_vars
<1>5. ASSUME Exact PROVE HomeValue' + m.amount_sd = HomeValue
  <2>1. [Next]_vars
    BY DEF Next, LocalNext
  <2>2. OftType' = OftType /\ OftType \in {"Native", "Adapter"}
    BY <1>1, <2>1, OftTypeFixed, OftTypesAssumption DEF Inv, TypeOK, OFTStore, OftType
  <2>3. PICK a \in Nat : a = m.amount_sd
    BY TransfersType
  <2>4. PICK x \in Int : x = HomeLd
    BY <1>1, HomeLdType
  <2>5. HomeLd' = x - Sd2ld(a)
    <3>1. CASE OftType = "Adapter"
      <4>1. /\ Cardinality(Keys) * InitialBalance \in Int
            /\ store.tvl_ld \in Int /\ Sd2ld(a) \in Int
        <5>1. Cardinality(Keys) * InitialBalance \in Int
          BY KeysAssumption, InitialBalanceAssumption, FS_CardinalityType
        <5>2. store.tvl_ld \in Int
          BY <1>1, U64MaxAssumption DEF Inv, TypeOK, OFTStore, U64Values
        <5>3. Sd2ld(a) \in Int
          BY Ld2sdRateAssumption DEF Sd2ld
        <5>. QED  BY <5>1, <5>2, <5>3
      <4>2. /\ HomeLd' = Cardinality(Keys) * InitialBalance - store'.tvl_ld
            /\ HomeLd = Cardinality(Keys) * InitialBalance - store.tvl_ld
            /\ store'.tvl_ld = store.tvl_ld + Sd2ld(a)
        BY <1>2, <2>2, <2>3, <3>1 DEF HomeLd
      <4>. QED  BY <2>4, <4>1, <4>2
    <3>2. CASE OftType = "Native"
      BY <1>2, <1>5, <2>2, <2>3, <2>4, <3>2 DEF HomeLd
    <3>. QED  BY <2>2, <3>1, <3>2
  <2>6. Ld2sd(x - Sd2ld(a)) + a = Ld2sd(x)
    BY WholeUnits
  <2>. QED  BY <2>3, <2>4, <2>5, <2>6, HomeLdType
<1>. QED  BY <1>2, <1>4, <1>5

(* A receipt: the message is one that was returning, and its value arrives. *)
LEMMA ReceiveFlow ==
  ASSUME BridgeInv, LzReceiveNext, UNCHANGED remote_vars
  PROVE  \E m \in incoming :
           /\ m \in inbox /\ m \notin cleared
           /\ cleared' = cleared \cup {m} /\ outbox' = outbox
           /\ incoming' = incoming \ {m}
           /\ outgoing' = outgoing
           /\ HomeValue' = HomeValue + m.amount_sd
<1>1. Inv
  BY DEF BridgeInv, ValueInv
<1>2. PICK m \in inbox :
        /\ m \notin cleared
        /\ cleared' = cleared \cup {m}
        /\ UNCHANGED <<outbox, inbox, transfer_fee>>
        /\ OftType = "Adapter" => store'.tvl_ld = store.tvl_ld - Sd2ld(m.amount_sd)
        /\ OftType = "Native" => Supply' = Supply + Sd2ld(m.amount_sd)
  BY <1>1, ReceiveEffect DEF LzReceiveNext
<1>3. m \in returning
  BY DEF BridgeInv, RemoteTypeOK
<1>4. m \in incoming /\ incoming' = incoming \ {m} /\ outgoing' = outgoing
  BY <1>2, <1>3 DEF outgoing, incoming, remote_vars
<1>5. HomeValue' = HomeValue + m.amount_sd
  <2>1. [Next]_vars
    BY DEF Next, LocalNext
  <2>2. OftType' = OftType /\ OftType \in {"Native", "Adapter"}
    BY <1>1, <2>1, OftTypeFixed, OftTypesAssumption DEF Inv, TypeOK, OFTStore, OftType
  <2>3. PICK a \in Nat : a = m.amount_sd
    BY <1>4, TransfersType
  <2>4. PICK x \in Int : x = HomeLd
    BY <1>1, HomeLdType
  <2>5. HomeLd' = x + Sd2ld(a)
    <3>1. CASE OftType = "Adapter"
      <4>1. /\ Cardinality(Keys) * InitialBalance \in Int
            /\ store.tvl_ld \in Int /\ Sd2ld(a) \in Int
        <5>1. Cardinality(Keys) * InitialBalance \in Int
          BY KeysAssumption, InitialBalanceAssumption, FS_CardinalityType
        <5>2. store.tvl_ld \in Int
          BY <1>1, U64MaxAssumption DEF Inv, TypeOK, OFTStore, U64Values
        <5>3. Sd2ld(a) \in Int
          BY Ld2sdRateAssumption DEF Sd2ld
        <5>. QED  BY <5>1, <5>2, <5>3
      <4>2. /\ HomeLd' = Cardinality(Keys) * InitialBalance - store'.tvl_ld
            /\ HomeLd = Cardinality(Keys) * InitialBalance - store.tvl_ld
            /\ store'.tvl_ld = store.tvl_ld - Sd2ld(a)
        BY <1>2, <2>2, <2>3, <3>1 DEF HomeLd
      <4>. QED  BY <2>4, <4>1, <4>2
    <3>2. CASE OftType = "Native"
      BY <1>2, <2>2, <2>3, <2>4, <3>2 DEF HomeLd
    <3>. QED  BY <2>2, <3>1, <3>2
  <2>6. Ld2sd(x + Sd2ld(a)) = Ld2sd(x) + a
    BY WholeUnits
  <2>. QED  BY <2>3, <2>4, <2>5, <2>6, HomeLdType
<1>. QED  BY <1>2, <1>4, <1>5

(* Every other step, the verification of a message included, moves nothing
   between the sides. *)
LEMMA OtherFlow ==
  ASSUME BridgeInv, [BridgeNext]_bridge_vars,
         ~SendNext, ~LzReceiveNext, ~RemoteReceiveNext, ~RemoteSendNext
  PROVE  /\ UNCHANGED <<outbox, cleared, delivered, returning, remote>>
         /\ Exact => HomeValue' = HomeValue
<1>1. Inv
  BY DEF BridgeInv, ValueInv
<1>2. CASE VerifyReturning
  <2>1. UNCHANGED <<store, token_vars, outbox, cleared, remote_vars>>
    BY <1>2, VerifyEffect DEF VerifyReturning
  <2>2. Supply' = Supply
    BY <2>1, SupplyIsTotal DEF token_vars
  <2>3. HomeLd' = HomeLd
    BY <2>1, <2>2 DEF HomeLd, OftType
  <2>. QED  BY <2>1, <2>3, HomeLdType DEF remote_vars
<1>3. CASE [Next]_vars /\ UNCHANGED remote_vars
  <2>1. /\ UNCHANGED <<outbox, cleared>>
        /\ store'.tvl_ld = store.tvl_ld
        /\ OftType = "Native" /\ Exact => Supply' = Supply
    BY <1>1, <1>3, OtherEffect DEF Next, LocalNext
  <2>2. OftType' = OftType /\ OftType \in {"Native", "Adapter"}
    BY <1>1, <1>3, OftTypeFixed, OftTypesAssumption DEF Inv, TypeOK, OFTStore, OftType
  <2>3. ASSUME Exact PROVE HomeLd' = HomeLd
    BY <2>1, <2>2, <2>3 DEF HomeLd
  <2>. QED  BY <1>3, <2>1, <2>3, HomeLdType DEF remote_vars
<1>. QED  BY <1>2, <1>3, BridgeSteps

(* The remote side does not change in a step of the program. *)
LEMMA LocalStepsAlone ==
  ASSUME BridgeInv, [BridgeNext]_bridge_vars
  PROVE  \/ SendNext /\ UNCHANGED remote_vars
         \/ LzReceiveNext /\ UNCHANGED remote_vars
         \/ RemoteReceiveNext
         \/ RemoteSendNext
         \/ ~SendNext /\ ~LzReceiveNext /\ ~RemoteReceiveNext /\ ~RemoteSendNext
<1>1. Inv /\ OutboundNoncesOK
  BY DEF BridgeInv, ValueInv
<1>2. CASE VerifyReturning
  <2>1. outbox' = outbox /\ cleared' = cleared
    BY <1>2, VerifyEffect DEF VerifyReturning
  <2>2. SendNext => outbox' # outbox
    BY <1>1, SendEffect DEF SendNext
  <2>3. LzReceiveNext => cleared' # cleared
    BY <1>1, ReceiveEffect DEF LzReceiveNext
  <2>. QED  BY <2>1, <2>2, <2>3
<1>. QED  BY <1>2 DEF BridgeNext, bridge_vars

(* The remote side does not touch what is at home. *)
LEMMA HomeUnchanged == UNCHANGED vars => HomeValue' = HomeValue
<1>. SUFFICES ASSUME UNCHANGED vars PROVE HomeValue' = HomeValue
  OBVIOUS
<1>1. wallet' = wallet /\ escrow' = escrow /\ store' = store
  BY DEF vars, token_vars
<1>2. Supply' = Supply
  BY <1>1, SupplyIsTotal
<1>3. HomeLd' = HomeLd
  BY <1>1, <1>2 DEF HomeLd, OftType
<1>. QED  BY <1>3, HomeLdType

-------------------------------------------------------------------------------
(* Every claim is backed. *)

(* What the other chains hold and what is in transit is what was sent less
   what was executed. *)
Conservation ==
  RemoteValue + MessageValue(outgoing) + MessageValue(incoming)
    = MessageValue(outbox) - MessageValue(cleared)

(* The values in transit, and what one transfer more or less makes of them. *)
LEMMA TransferValues ==
  ASSUME BridgeInv
  PROVE  /\ MessageValue(outgoing) \in Nat /\ MessageValue(incoming) \in Nat
         /\ \A m \in outgoing :
              MessageValue(outgoing) = m.amount_sd + MessageValue(outgoing \ {m})
              /\ MessageValue(outgoing \ {m}) \in Nat
         /\ \A m \in incoming :
              MessageValue(incoming) = m.amount_sd + MessageValue(incoming \ {m})
              /\ MessageValue(incoming \ {m}) \in Nat
         /\ \A m \in OutboundMessage : m \notin outgoing =>
              MessageValue(outgoing \cup {m}) = MessageValue(outgoing) + m.amount_sd
         /\ \A m \in InboundMessage : m \notin incoming =>
              MessageValue(incoming \cup {m}) = MessageValue(incoming) + m.amount_sd
<1>1. /\ IsFiniteSet(outgoing) /\ \A m \in outgoing : m.amount_sd \in Nat
      /\ IsFiniteSet(incoming) /\ \A m \in incoming : m.amount_sd \in Nat
      /\ \A m \in OutboundMessage : m.amount_sd \in Nat
      /\ \A m \in InboundMessage : m.amount_sd \in Nat
  BY TransfersType
<1>2. /\ MessageValue(outgoing) \in Nat /\ MessageValue(incoming) \in Nat
      /\ \A m \in outgoing : MessageValue(outgoing) = m.amount_sd + MessageValue(outgoing \ {m})
      /\ \A m \in incoming : MessageValue(incoming) = m.amount_sd + MessageValue(incoming \ {m})
  BY <1>1, MessageValueFirst
<1>3. \A m \in outgoing : MessageValue(outgoing \ {m}) \in Nat
  <2>. TAKE m \in outgoing
  <2>1. IsFiniteSet(outgoing \ {m}) /\ \A n \in outgoing \ {m} : n.amount_sd \in Nat
    BY <1>1, FS_RemoveElement
  <2>. QED  BY <2>1, MessageValueFirst
<1>4. \A m \in incoming : MessageValue(incoming \ {m}) \in Nat
  <2>. TAKE m \in incoming
  <2>1. IsFiniteSet(incoming \ {m}) /\ \A n \in incoming \ {m} : n.amount_sd \in Nat
    BY <1>1, FS_RemoveElement
  <2>. QED  BY <2>1, MessageValueFirst
<1>5. ASSUME NEW m \in OutboundMessage, m \notin outgoing
      PROVE  MessageValue(outgoing \cup {m}) = MessageValue(outgoing) + m.amount_sd
  <2>1. m.amount_sd \in Nat
    BY <1>1
  <2>. QED  BY <1>1, <1>5, <2>1, MessageValueAdd
<1>6. ASSUME NEW m \in InboundMessage, m \notin incoming
      PROVE  MessageValue(incoming \cup {m}) = MessageValue(incoming) + m.amount_sd
  <2>1. m.amount_sd \in Nat
    BY <1>1
  <2>. QED  BY <1>1, <1>6, <2>1, MessageValueAdd
<1>. QED  BY <1>2, <1>3, <1>4, <1>5, <1>6

(* Each step moves a value from one term to another. *)
LEMMA NextConservation == BridgeInv /\ Conservation /\ [BridgeNext]_bridge_vars => Conservation'
<1>. SUFFICES ASSUME BridgeInv, Conservation, [BridgeNext]_bridge_vars PROVE Conservation'
  OBVIOUS
<1>0. /\ Inv
      /\ MessageValue(outbox) \in Nat /\ MessageValue(cleared) \in Nat
      /\ MessageValue(outgoing) \in Nat /\ MessageValue(incoming) \in Nat
      /\ RemoteValue \in Nat
  BY ValuesType, TransferValues, RemoteValueType DEF BridgeInv, ValueInv
<1>1. Conservation' <=>
        RemoteValue' + MessageValue(outgoing') + MessageValue(incoming')
          = MessageValue(outbox') - MessageValue(cleared')
  BY DEF Conservation, MessageValue, MapThenSumSet, MapThenFoldSet
<1>2. RemoteValue + MessageValue(outgoing) + MessageValue(incoming)
        = MessageValue(outbox) - MessageValue(cleared)
  BY DEF Conservation
<1>3. CASE SendNext /\ UNCHANGED remote_vars
  <2>1. PICK m \in OutboundMessage :
          /\ m \notin outgoing /\ m \notin outbox
          /\ outbox' = outbox \cup {m} /\ cleared' = cleared
          /\ outgoing' = outgoing \cup {m} /\ incoming' = incoming
    BY <1>3, SendFlow
  <2>2. PICK a \in Nat : a = m.amount_sd
    BY TransfersType
  <2>3. MessageValue(outbox') = MessageValue(outbox) + a
    BY <1>0, <2>1, <2>2, ValuesType
  <2>4. MessageValue(outgoing') = MessageValue(outgoing) + a
    BY <2>1, <2>2, TransferValues
  <2>5. RemoteValue' = RemoteValue
    BY <1>3, RemoteValueOf DEF remote_vars
  <2>. QED  BY <1>0, <1>1, <1>2, <2>1, <2>3, <2>4, <2>5
<1>4. CASE LzReceiveNext /\ UNCHANGED remote_vars
  <2>1. PICK m \in incoming :
          /\ m \in inbox /\ m \notin cleared
          /\ cleared' = cleared \cup {m} /\ outbox' = outbox
          /\ incoming' = incoming \ {m} /\ outgoing' = outgoing
    BY <1>4, ReceiveFlow
  <2>2. PICK a \in Nat : a = m.amount_sd
    BY TransfersType
  <2>3. MessageValue(cleared') = MessageValue(cleared) + a
    BY <1>0, <2>1, <2>2, ValuesType
  <2>4. MessageValue(incoming) = a + MessageValue(incoming') /\ MessageValue(incoming') \in Nat
    BY <2>1, <2>2, TransferValues
  <2>5. RemoteValue' = RemoteValue
    BY <1>4, RemoteValueOf DEF remote_vars
  <2>6. MessageValue(outgoing') = MessageValue(outgoing) /\ MessageValue(outbox') = MessageValue(outbox)
    BY <2>1
  <2>. QED  BY <1>0, <1>1, <1>2, <2>3, <2>4, <2>5, <2>6
<1>5. CASE RemoteReceiveNext
  <2>1. PICK m \in outbox : RemoteReceive(m)
    BY <1>5 DEF RemoteReceiveNext
  <2>2. /\ m \in outgoing /\ outgoing' = outgoing \ {m} /\ incoming' = incoming
        /\ RemoteValue' = RemoteValue + m.amount_sd
        /\ outbox' = outbox /\ cleared' = cleared
    BY <2>1, RemoteReceiveFlow DEF vars, endpoint_vars
  <2>3. PICK a \in Nat : a = m.amount_sd
    BY <2>2, TransfersType
  <2>4. MessageValue(outgoing) = a + MessageValue(outgoing') /\ MessageValue(outgoing') \in Nat
    BY <2>2, <2>3, TransferValues
  <2>. QED  BY <1>0, <1>1, <1>2, <2>2, <2>3, <2>4
<1>6. CASE RemoteSendNext
  <2>1. PICK m \in InboundMessage :
          /\ m \notin incoming /\ incoming' = incoming \cup {m} /\ outgoing' = outgoing
          /\ RemoteValue' + m.amount_sd = RemoteValue
          /\ RemoteValue' \in Nat
          /\ outbox' = outbox /\ cleared' = cleared
    BY <1>6, RemoteSendFlow DEF vars, endpoint_vars
  <2>2. PICK a \in Nat : a = m.amount_sd
    BY TransfersType
  <2>3. MessageValue(incoming') = MessageValue(incoming) + a
    BY <2>1, <2>2, TransferValues
  <2>. QED  BY <1>0, <1>1, <1>2, <2>1, <2>2, <2>3
<1>7. CASE ~SendNext /\ ~LzReceiveNext /\ ~RemoteReceiveNext /\ ~RemoteSendNext
  <2>1. UNCHANGED <<outbox, cleared, delivered, returning, remote>>
    BY <1>7, OtherFlow
  <2>2. outgoing' = outgoing /\ incoming' = incoming /\ RemoteValue' = RemoteValue
    BY <2>1, RemoteValueOf DEF outgoing, incoming
  <2>. QED  BY <1>1, <1>2, <2>1, <2>2
<1>. QED  BY <1>3, <1>4, <1>5, <1>6, <1>7, LocalStepsAlone

BackedInv == BridgeInv /\ Conservation /\ TvlIsMessageValue /\ EscrowCoversTvl

(* The two sides start even. *)
LEMMA InitBacked == BridgeInit => BackedInv
<1>. SUFFICES ASSUME BridgeInit PROVE BackedInv
  OBVIOUS
<1>1. Init /\ outbox = {} /\ cleared = {} /\ delivered = {} /\ returning = {}
  BY DEF BridgeInit, Init
<1>2. RemoteValue = 0
  BY ValueOfNothing, RemoteValueOf DEF BridgeInit
<1>3. outgoing = {} /\ incoming = {}
  BY <1>1 DEF outgoing, incoming
<1>4. Conservation
  BY <1>1, <1>2, <1>3, MessageValueEmpty DEF Conservation
<1>5. SentSd = 0 /\ ClearedSd = 0
  BY <1>1, MessageValueEmpty, SentAndCleared
<1>6. Sd2ld(SentSd - ClearedSd) = 0
  BY <1>5, DecimalsLinear
<1>7. TvlIsMessageValue /\ EscrowCoversTvl
  BY <1>1, <1>6 DEF Init, TvlIsMessageValue, EscrowCoversTvl
<1>. QED  BY <1>4, <1>7, BridgeInitInv DEF BackedInv

(* Every step keeps what backs the claims. *)
LEMMA NextBacked == BackedInv /\ [BridgeNext]_bridge_vars => BackedInv'
<1>. SUFFICES ASSUME BackedInv, [BridgeNext]_bridge_vars PROVE BackedInv'
  OBVIOUS
<1>1. /\ BridgeInv /\ Conservation /\ TvlIsMessageValue /\ EscrowCoversTvl
      /\ ValueInv /\ Inv
  BY DEF BackedInv, BridgeInv, ValueInv
<1>2. BridgeInv' /\ Conservation'
  BY <1>1, NextBridgeInv, NextConservation
<1>3. TvlIsMessageValue' /\ EscrowCoversTvl'
  <2>1. CASE [Next]_vars
    BY <1>1, <2>1, NextTvl, NextCovered
  <2>2. CASE UNCHANGED vars
    BY <1>1, <2>2, NextTvl, NextCovered
  <2>3. CASE VerifyReturning
    <3>1. UNCHANGED <<store, token_vars, outbox, cleared>>
      BY <1>1, <2>3, VerifyEffect DEF VerifyReturning
    <3>2. UNCHANGED <<SentSd, ClearedSd>> /\ OftType' = OftType /\ escrow' = escrow
      BY <3>1, SentAndCleared DEF OftType, token_vars
    <3>. QED  BY <1>1, <3>1, <3>2 DEF TvlIsMessageValue, EscrowCoversTvl
  <2>. QED  BY <2>1, <2>2, <2>3, BridgeSteps
<1>. QED  BY <1>2, <1>3 DEF BackedInv

(* The claims are the messages sent less those executed. *)
LEMMA ClaimsAreMessages == BackedInv => Claims = SentSd - ClearedSd
<1>. SUFFICES ASSUME BackedInv PROVE Claims = SentSd - ClearedSd
  OBVIOUS
<1>1. Claims = RemoteValue + MessageValue(outgoing) + MessageValue(incoming)
  BY DEF Claims, outgoing, incoming
<1>. QED  BY <1>1, SentAndCleared DEF BackedInv, Conservation

(* Every token held by the remote applications of an adapter, former peers
   included, and every one in transit is in its escrow, for any number of
   chains, messages and users and any order of delivery, fees and fee
   withdrawals. *)
THEOREM EveryClaimAlwaysBacked == BridgeSpec => []EveryClaimIsBacked
<1>1. BackedInv => EveryClaimIsBacked
  <2>. SUFFICES ASSUME BackedInv, OftType = "Adapter" PROVE escrow >= Sd2ld(Claims)
    BY DEF EveryClaimIsBacked
  <2>1. store.tvl_ld = Sd2ld(Claims)
    BY ClaimsAreMessages DEF BackedInv, TvlIsMessageValue
  <2>. QED  BY <2>1 DEF BackedInv, EscrowCoversTvl
<1>. QED  BY <1>1, InitBacked, NextBacked, PTL DEF BridgeSpec

-------------------------------------------------------------------------------
(* Every claim is payable. *)

(* The token of a native OFT charges no transfer fee, also while the remote
   side is at work. *)
LEMMA BridgeExact ==
  ASSUME NativeWithoutTransferFee
  PROVE  /\ BridgeInit => Exact
         /\ BridgeInv /\ Exact /\ [BridgeNext]_bridge_vars => Exact'
<1>1. BridgeInit => Exact
  BY NextExact DEF BridgeInit
<1>2. ASSUME BridgeInv, Exact, [BridgeNext]_bridge_vars PROVE Exact'
  <2>1. Inv
    BY <1>2 DEF BridgeInv, ValueInv
  <2>2. CASE [Next]_vars
    BY <1>2, <2>1, <2>2, NextExact
  <2>3. CASE UNCHANGED vars
    BY <1>2, <2>3 DEF vars, token_vars, Exact, OftType
  <2>4. CASE VerifyReturning
    BY <1>2, <2>4, VerifyEffect DEF VerifyReturning, token_vars, Exact, OftType
  <2>. QED  BY <1>2, <2>2, <2>3, <2>4, BridgeSteps
<1>. QED  BY <1>1, <1>2

(* A native OFT starts with its supply, and remote steps leave it. *)
LEMMA BridgeSupply ==
  /\ BridgeInit => NativeSupplyIsMessageValue
  /\ BridgeInv /\ Exact /\ NativeSupplyIsMessageValue /\ [BridgeNext]_bridge_vars
       => NativeSupplyIsMessageValue'
<1>1. BridgeInit => NativeSupplyIsMessageValue
  BY InitSupply DEF BridgeInit
<1>2. ASSUME BridgeInv, Exact, NativeSupplyIsMessageValue, [BridgeNext]_bridge_vars
      PROVE  NativeSupplyIsMessageValue'
  <2>1. ValueInv
    BY <1>2 DEF BridgeInv
  <2>2. CASE [Next]_vars
    BY <1>2, <2>1, <2>2, NextSupply
  <2>3. CASE UNCHANGED vars
    BY <1>2, <2>1, <2>3, NextSupply
  <2>4. CASE VerifyReturning
    <3>1. UNCHANGED <<store, token_vars, outbox, cleared>>
      BY <1>2, <2>4, VerifyEffect DEF VerifyReturning
    <3>2. UNCHANGED <<SentSd, ClearedSd>> /\ OftType' = OftType
      BY <3>1, SentAndCleared DEF OftType
    <3>3. Supply' = Supply
      BY <3>1, SupplyIsTotal DEF token_vars
    <3>. QED  BY <1>2, <3>2, <3>3 DEF NativeSupplyIsMessageValue
  <2>. QED  BY <1>2, <2>2, <2>3, <2>4, BridgeSteps
<1>. QED  BY <1>1, <1>2

PayableInv == BackedInv /\ Exact /\ NativeSupplyIsMessageValue

(* What is left of the initial supply and what may come back fit the width
   together, for the initial supply did. *)
LEMMA PayableInvPays == PayableInv => EveryClaimIsPayable
<1>. SUFFICES ASSUME PayableInv PROVE EveryClaimIsPayable
  OBVIOUS
<1>1. Claims = SentSd - ClearedSd
  BY ClaimsAreMessages DEF PayableInv
<1>2. CASE OftType = "Adapter"
  <2>1. store.tvl_ld = Sd2ld(Claims)
    BY <1>1, <1>2 DEF PayableInv, BackedInv, TvlIsMessageValue
  <2>2. store.tvl_ld \in Nat
    BY U64MaxAssumption
    DEF PayableInv, BackedInv, BridgeInv, ValueInv, Inv, TypeOK, OFTStore, U64Values
  <2>. QED  BY <1>2, <2>1, <2>2 DEF EveryClaimIsPayable
<1>3. CASE OftType # "Adapter"
  <2>1. OftType = "Native"
    BY <1>3, OftTypesAssumption
    DEF PayableInv, BackedInv, BridgeInv, ValueInv, Inv, TypeOK, OFTStore, OftType
  <2>2. PICK start \in Nat : start = Cardinality(Keys) * InitialBalance /\ start <= U64Max
    BY KeysAssumption, InitialBalanceAssumption, FS_CardinalityType
  <2>3. PICK o \in Nat, c \in Nat : o = SentSd /\ c = ClearedSd
    BY ValuesType, SentAndCleared DEF PayableInv, BackedInv, BridgeInv, ValueInv
  <2>4. Supply = start - Sd2ld(o) + Sd2ld(c)
    BY <2>1, <2>2, <2>3 DEF PayableInv, NativeSupplyIsMessageValue
  <2>5. /\ Sd2ld(o - c) = Sd2ld(o) - Sd2ld(c)
        /\ Sd2ld(o) \in Int /\ Sd2ld(c) \in Int
    BY Ld2sdRateAssumption DEF Sd2ld
  <2>6. Supply + Sd2ld(Claims) = start
    BY <1>1, <2>3, <2>4, <2>5
  <2>. QED  BY <1>3, <2>2, <2>6 DEF EveryClaimIsPayable
<1>. QED  BY <1>2, <1>3

(* Whatever the other chains hold can come home, all of it and in any order:
   no check of lz_receive on tvl_ld, on the supply or on the width of an
   amount ever strands a message of an honest peer.  The token of a native
   OFT must charge no transfer fee. *)
THEOREM EveryClaimAlwaysPayable ==
  ASSUME NativeWithoutTransferFee
  PROVE  BridgeSpec => []EveryClaimIsPayable
<1>1. BridgeInit => PayableInv
  BY InitBacked, BridgeExact, BridgeSupply DEF PayableInv
<1>2. PayableInv /\ [BridgeNext]_bridge_vars => PayableInv'
  BY NextBacked, BridgeExact, BridgeSupply DEF PayableInv, BackedInv
<1>. QED  BY <1>1, <1>2, PayableInvPays, PTL DEF BridgeSpec

-------------------------------------------------------------------------------
(* The bridge implements TokenBridge. *)

(* Each step is one of TokenBridge, or moves no value. *)
LEMMA NextPromise ==
  BridgeInv /\ Exact /\ [BridgeNext]_bridge_vars => [Promise!Next]_(Promise!vars)
<1>. SUFFICES ASSUME BridgeInv, Exact, [BridgeNext]_bridge_vars
              PROVE  [Promise!Next]_(Promise!vars)
  OBVIOUS
<1>0. Inv /\ RemoteValue \in Nat
  BY RemoteValueType DEF BridgeInv, ValueInv
<1>1. CASE SendNext /\ UNCHANGED remote_vars
  <2>1. PICK m \in OutboundMessage :
          /\ m \notin outgoing /\ outgoing' = outgoing \cup {m} /\ incoming' = incoming
          /\ HomeValue' + m.amount_sd = HomeValue
    BY <1>1, SendFlow
  <2>2. RemoteValue' = RemoteValue
    BY <1>1, RemoteValueOf DEF remote_vars
  <2>3. Promise!DepartHome
    BY <2>1, <2>2 DEF Promise!DepartHome, outgoing, incoming
  <2>. QED  BY <2>3 DEF Promise!Next
<1>2. CASE LzReceiveNext /\ UNCHANGED remote_vars
  <2>1. PICK m \in incoming :
          /\ incoming' = incoming \ {m} /\ outgoing' = outgoing
          /\ HomeValue' = HomeValue + m.amount_sd
    BY <1>2, ReceiveFlow
  <2>2. RemoteValue' = RemoteValue
    BY <1>2, RemoteValueOf DEF remote_vars
  <2>3. Promise!ArriveHome
    BY <2>1, <2>2 DEF Promise!ArriveHome, outgoing, incoming
  <2>. QED  BY <2>3 DEF Promise!Next
<1>3. CASE RemoteReceiveNext
  <2>1. PICK m \in outbox : RemoteReceive(m)
    BY <1>3 DEF RemoteReceiveNext
  <2>2. /\ m \in outgoing /\ outgoing' = outgoing \ {m} /\ incoming' = incoming
        /\ RemoteValue' = RemoteValue + m.amount_sd
        /\ UNCHANGED vars
    BY <2>1, RemoteReceiveFlow
  <2>3. HomeValue' = HomeValue
    BY <2>2, HomeUnchanged
  <2>4. Promise!ArriveAway
    BY <2>2, <2>3 DEF Promise!ArriveAway, outgoing, incoming
  <2>. QED  BY <2>4 DEF Promise!Next
<1>4. CASE RemoteSendNext
  <2>1. PICK m \in InboundMessage :
          /\ m \notin incoming /\ incoming' = incoming \cup {m} /\ outgoing' = outgoing
          /\ RemoteValue' + m.amount_sd = RemoteValue
          /\ UNCHANGED vars
    BY <1>4, RemoteSendFlow
  <2>2. HomeValue' = HomeValue
    BY <2>1, HomeUnchanged
  <2>3. Promise!DepartAway
    BY <2>1, <2>2 DEF Promise!DepartAway, outgoing, incoming
  <2>. QED  BY <2>3 DEF Promise!Next
<1>5. CASE ~SendNext /\ ~LzReceiveNext /\ ~RemoteReceiveNext /\ ~RemoteSendNext
  <2>1. /\ UNCHANGED <<outbox, cleared, delivered, returning, remote>>
        /\ HomeValue' = HomeValue
    BY <1>5, OtherFlow
  <2>2. RemoteValue' = RemoteValue
    BY <2>1, RemoteValueOf
  <2>3. UNCHANGED Promise!vars
    BY <2>1, <2>2 DEF Promise!vars
  <2>. QED  BY <2>3
<1>. QED  BY <1>1, <1>2, <1>3, <1>4, <1>5, LocalStepsAlone

(* Under any number of users, chains, applications and messages, a transfer
   leaves one side with its value and arrives once on the other, and no fee,
   dust, change of peers, retry or admin step moves value between them.  The
   token of a native OFT must charge no transfer fee. *)
THEOREM BridgeImplementsTokenBridge ==
  ASSUME NativeWithoutTransferFee
  PROVE  BridgeSpec => ImplementsTokenBridge
<1>1. BridgeInit => Promise!Init
  <2>. SUFFICES ASSUME BridgeInit PROVE Promise!Init
    OBVIOUS
  <2>1. Init /\ outbox \ delivered = {} /\ returning \ cleared = {}
    BY DEF BridgeInit, Init
  <2>2. RemoteValue = 0
    BY ValueOfNothing, RemoteValueOf DEF BridgeInit
  <2>3. Cardinality(Keys) * InitialBalance \in Nat
    BY KeysAssumption, InitialBalanceAssumption, FS_CardinalityType
  <2>4. HomeLd = Cardinality(Keys) * InitialBalance
    <3>1. wallet = [k \in Keys |-> InitialBalance] /\ escrow = 0 /\ store.tvl_ld = 0
      BY <2>1 DEF Init
    <3>2. Total([k \in Keys |-> InitialBalance], Keys) = Cardinality(Keys) * InitialBalance
      BY KeysAssumption, InitialBalanceAssumption, TotalConstant
    <3>. QED  BY <2>3, <3>1, <3>2, SupplyIsTotal DEF HomeLd
  <2>5. HomeValue \in Nat
    <3>1. \A x \in Nat : Ld2sd(x) \in Nat
      BY DivBounds, Ld2sdRateAssumption DEF Ld2sd
    <3>. QED  BY <2>3, <2>4, <3>1, HomeLdType
  <2>. QED  BY <2>1, <2>2, <2>5 DEF Promise!Init
<1>2. BridgeInit => Exact
  BY BridgeExact
<1>3. BridgeInv /\ Exact /\ [BridgeNext]_bridge_vars => Exact'
  BY BridgeExact
<1>. QED
  BY <1>1, <1>2, <1>3, NextPromise, BridgeInvHolds, PTL
  DEF BridgeSpec, ImplementsTokenBridge, Promise!Spec
-------------------------------------------------------------------------------
(* The executor *)

(* A step of the executor, or of anyone while it waits, is one of the bridge:
   an execution passes an authority that lz_receive has compared with that of
   the mint, however old the list it comes from, and a listing changes nothing
   of the bridge. *)
LEMMA ExecutorStep ==
  [ExecutorNext \/ (OthersNext /\ UNCHANGED listed)]_executor_vars => [BridgeNext]_bridge_vars
<1>. SUFFICES ASSUME [ExecutorNext \/ (OthersNext /\ UNCHANGED listed)]_executor_vars
              PROVE  [BridgeNext]_bridge_vars
  OBVIOUS
<1>1. ASSUME NEW m, NEW authority, LzReceive(m, authority), UNCHANGED remote_vars
      PROVE  BridgeNext
  <2>1. m \in inbox /\ authority \in {mint_authority, None}
    BY <1>1 DEF LzReceive, Clear
  <2>2. LzReceiveNext
    BY <1>1, <2>1 DEF LzReceiveNext
  <2>. QED  BY <1>1, <2>2 DEF LocalNext, BridgeNext
<1>2. CASE ExecutorNext
  <2>1. PICK address \in Addresses : ListFrom(address) \/ ExecuteFrom(address)
    BY <1>2 DEF ExecutorNext
  <2>2. CASE ListFrom(address)
    BY <2>2 DEF ListFrom, LzReceiveTypes
  <2>3. CASE ExecuteFrom(address)
    <3>1. PICK m \in DOMAIN listed : Execute(m)
      BY <2>3 DEF ExecuteFrom
    <3>. QED  BY <1>1, <3>1 DEF Execute
  <2>. QED  BY <2>1, <2>2, <2>3
<1>3. CASE OthersNext
  <2>1. ASSUME NEW m \in inbox, ClearPayload(m), UNCHANGED remote_vars PROVE BridgeNext
    BY <1>1, <2>1 DEF ClearPayload
  <2>. QED  BY <1>3, <2>1 DEF OthersNext, BridgeNext, LocalNext
<1>4. CASE UNCHANGED executor_vars
  BY <1>4 DEF executor_vars
<1>. QED  BY <1>2, <1>3, <1>4

(* The executor only adds a choice of moments: with it the bridge is still the
   bridge of BridgeSpec. *)
THEOREM ExecutorImplementsBridge == ExecutorSpec => BridgeSpec
<1>1. ExecutorInit => BridgeInit
  BY DEF ExecutorInit
<1>. QED  BY <1>1, ExecutorStep, PTL DEF ExecutorSpec, BridgeSpec

(* So the accounts listed beforehand, stale or not, the retries and the
   messages that anyone clears by hand leave every claim backed and payable,
   and every transfer arrives once with its value. *)
THEOREM ExecutorKeepsPromise ==
  ASSUME NativeWithoutTransferFee
  PROVE  ExecutorSpec => []EveryClaimIsBacked /\ []EveryClaimIsPayable /\ ImplementsTokenBridge
BY ExecutorImplementsBridge, EveryClaimAlwaysBacked, EveryClaimAlwaysPayable,
   BridgeImplementsTokenBridge, PTL
===============================================================================
