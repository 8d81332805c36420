--------------------------------- MODULE OFT ---------------------------------
(***************************************************************************)
(* The OFT202 program on Solana: send, lz_receive, withdraw_fee and the    *)
(* configuration that bears on value (set_oft_config, set_pause,           *)
(* set_peer_config), with the two programs it calls.  A native OFT burns   *)
(* and mints its token; an adapter locks tokens in its escrow and counts   *)
(* them in tvl_ld.                                                         *)
(*                                                                         *)
(* Every instruction is one transaction: it succeeds as a whole or changes *)
(* nothing, so each action is a whole handler and what makes the handler   *)
(* fail is in its guard.  The interleaving is that of the transactions of  *)
(* users, of the executor that delivers messages, of the admin and of the  *)
(* token's own authorities.                                                *)
(***************************************************************************)
EXTENDS OFTAmounts, RateLimiter, FiniteSets, FiniteSetsExt

CONSTANTS
  OftTypes,         \* the types of OFT: "Native", "Adapter" or both
  Keys,             \* the wallets that send and receive
  Eids,             \* the remote endpoint ids
  Addresses,        \* the remote applications the admin has opened a path to
  ZeroAddress,      \* the peer_address of an account just created
  InitialBalance    \* what every wallet holds at first

(* The inputs that are tried, and the bounds. *)
CONSTANTS
  SendAmounts,      \* the amounts users send, in local decimals
  VerifiedAmounts,  \* the amounts of verified messages, in shared decimals
  ComposeChoices,   \* whether a message carries a compose message
  FeeChoices,       \* the OFT fees an admin may set
  Withdrawals,      \* the fee amounts an admin may withdraw
  LimitParams,      \* the RateLimitParams an admin may submit
  TransferFees,     \* the transfer fees the token of each type of OFT may have
  MintAuthorities,  \* what the token's mint authority may be changed to
  MaxOutbound,      \* bound on the messages sent
  MaxInbound,       \* bound on the messages verified
  MaxTime           \* bound on the clock

(* The oft store, as itself or as one signer of a 1-of-n multisig, can mint;
   "other" is an authority that it is no part of, None a renounced one. *)
StoreMints == {"oft_store", "multisig"}

ASSUME OftTypesAssumption == OftTypes \subseteq {"Native", "Adapter"}
ASSUME KeysAssumption == IsFiniteSet(Keys)
(* The supply of a token is a u64. *)
ASSUME InitialBalanceAssumption ==
  InitialBalance \in Nat /\ Cardinality(Keys) * InitialBalance <= U64Max
ASSUME InputsAssumption ==
  /\ SendAmounts \subseteq U64Values
  /\ VerifiedAmounts \subseteq U64Values
  /\ ComposeChoices \subseteq BOOLEAN
  /\ FeeChoices \subseteq FeeBps
  /\ Withdrawals \subseteq U64Values
  /\ \A oft_type \in OftTypes : TransferFees[oft_type] \subseteq TransferFee
  /\ LimitParams \subseteq RateLimitParams \cup {None}
  /\ MintAuthorities \subseteq StoreMints \cup {"other", None}
ASSUME BoundsAssumption == MaxOutbound \in Nat /\ MaxInbound \in Nat /\ MaxTime \in Nat

VARIABLES
  store,           \* the fields of OFTStore that bear on value
  peer,            \* the PeerConfig of each remote endpoint, None before it is created
  wallet,          \* the token accounts of the users
  escrow,          \* the balance of the escrow token account
  mint_authority,  \* who may mint the token
  transfer_fee,    \* the token's transfer fee in this epoch
  now,             \* Clock::unix_timestamp
  outbox,          \* the messages handed to the endpoint
  inbox,           \* the messages the endpoint has verified for this program
  cleared,         \* those of them that were cleared, that is, executed
  composed         \* the compose messages queued at the endpoint

token_vars    == <<wallet, escrow, mint_authority, transfer_fee>>
endpoint_vars == <<outbox, inbox, cleared, composed>>
vars == <<store, peer, token_vars, now, endpoint_vars>>

-------------------------------------------------------------------------------
(* Accounts and messages *)

OFTStore ==
  [oft_type : OftTypes, paused : BOOLEAN, default_fee_bps : FeeBps, tvl_ld : U64Values]

OftType == store.oft_type

PeerConfig ==
  [peer_address          : Addresses \cup {ZeroAddress},
   fee_bps               : FeeBps \cup {None},
   outbound_rate_limiter : RateLimiterType \cup {None},
   inbound_rate_limiter  : RateLimiterType \cup {None}]

OutboundMessage ==
  [dst_eid : Eids, receiver : Addresses, nonce : Nat, amount_sd : U64Values]

InboundMessage ==
  [src_eid : Eids, sender : Addresses, nonce : Nat,
   to : Keys, amount_sd : U64Values, compose : BOOLEAN]

ComposeMessage == [src_eid : Eids, nonce : Nat, to : Keys, amount_ld : U64Values]

(* A peer account is created, all zeros, by the first configuration of it. *)
PeerOrNew(eid) ==
  IF peer[eid] # None
  THEN peer[eid]
  ELSE [peer_address |-> ZeroAddress, fee_bps |-> None,
        outbound_rate_limiter |-> None, inbound_rate_limiter |-> None]

(* All tokens in existence, but for the fees a transfer withheld in the
   accounts it credited. *)
Supply == escrow + MapThenSumSet(LAMBDA k : wallet[k], Keys)

Init ==
  /\ \E oft_type \in OftTypes :
       store = [oft_type |-> oft_type, paused |-> FALSE, default_fee_bps |-> 0, tvl_ld |-> 0]
  /\ peer = [eid \in Eids |-> None]
  /\ wallet = [k \in Keys |-> InitialBalance]
  /\ escrow = 0
  /\ mint_authority \in IF OftType = "Native" THEN StoreMints ELSE {None}
  /\ transfer_fee \in TransferFees[OftType]
  /\ now = 0
  /\ outbox = {}
  /\ inbox = {}
  /\ cleared = {}
  /\ composed = {}

-------------------------------------------------------------------------------
(* send *)

NotPaused_Unchecked == TRUE

NotPaused == ~store.paused

AmountsFor(eid, amount_ld) ==
  ComputeFeeAndAdjustAmount(OftType, transfer_fee, amount_ld,
                            store.default_fee_bps, peer[eid].fee_bps)

(* An adapter counts what the message carries and takes the whole amount into
   escrow, where it arrives less the transfer fee. *)
LockedTvl_CountsFee(r) == r.received + r.fee

LockedTvl(r) == r.received

Lock(k, r) ==
  /\ OftType = "Adapter"
  /\ store.tvl_ld + LockedTvl(r) <= U64Max
  /\ store' = [store EXCEPT !.tvl_ld = @ + LockedTvl(r)]
  /\ wallet[k] >= r.sent
  /\ wallet' = [wallet EXCEPT ![k] = @ - r.sent]
  /\ escrow' = escrow + PostFeeAmount(transfer_fee, r.sent)

(* A native OFT burns the amount less its fee, and moves the fee to escrow. *)
BurnAndKeepFee(k, r) ==
  /\ OftType = "Native"
  /\ wallet[k] >= r.sent
  /\ wallet' = [wallet EXCEPT ![k] = @ - r.sent]
  /\ escrow' = escrow + PostFeeAmount(transfer_fee, r.fee)
  /\ UNCHANGED store

MessageAmount_OfAmountSent(r) == Ld2sd(r.sent)

MessageAmount(r) == Ld2sd(r.received)

(* The next nonce of the path to a remote application. *)
NextOutboundNonce(eid, address) ==
  1 + Cardinality({m \in outbox : m.dst_eid = eid /\ m.receiver = address})

(* The slippage bound is left to OFTQuote: without one, send does all that it
   may do with one.  The endpoint refuses a receiver whose path was not
   opened, so never sends to the address of an unset peer. *)
Send(k, eid, amount_ld) ==
  /\ Cardinality(outbox) < MaxOutbound
  /\ NotPaused
  /\ peer[eid] # None
  /\ LET r == AmountsFor(eid, amount_ld)
         p == peer[eid]
     IN
     /\ r.sent <= U64Max
     /\ CanConsume(p.outbound_rate_limiter, r.received, now)
     /\ peer' = [peer EXCEPT
          ![eid].outbound_rate_limiter = Consume(@, r.received, now),
          ![eid].inbound_rate_limiter  = RefillIfSome(@, r.received, now)]
     /\ Lock(k, r) \/ BurnAndKeepFee(k, r)
     /\ p.peer_address \in Addresses
     /\ outbox' = outbox \cup {[dst_eid   |-> eid,
                                receiver  |-> p.peer_address,
                                nonce     |-> NextOutboundNonce(eid, p.peer_address),
                                amount_sd |-> MessageAmount(r)]}
  /\ UNCHANGED <<mint_authority, transfer_fee, now, inbox, cleared, composed>>

-------------------------------------------------------------------------------
(* lz_receive *)

Clear_Forgets(m) == UNCHANGED cleared

(* The endpoint's clear: a verified message is executed once. *)
Clear(m) ==
  /\ m \in inbox \ cleared
  /\ cleared' = cleared \cup {m}

Unlock_KeepsTvl(m, amount_ld) ==
  /\ OftType = "Adapter"
  /\ escrow >= amount_ld
  /\ escrow' = escrow - amount_ld
  /\ wallet' = [wallet EXCEPT ![m.to] = @ + PostFeeAmount(transfer_fee, amount_ld)]
  /\ UNCHANGED store

(* An adapter: the checked subtraction from tvl_ld, then the transfer. *)
Unlock(m, amount_ld) ==
  /\ OftType = "Adapter"
  /\ store.tvl_ld >= amount_ld
  /\ store' = [store EXCEPT !.tvl_ld = @ - amount_ld]
  /\ escrow >= amount_ld
  /\ escrow' = escrow - amount_ld
  /\ wallet' = [wallet EXCEPT ![m.to] = @ + PostFeeAmount(transfer_fee, amount_ld)]

(* A native OFT: the mint authority must be given, and the store must be one
   of its signers; the token program refuses to overflow the supply. *)
Mint(m, amount_ld, authority) ==
  /\ OftType = "Native"
  /\ authority # None
  /\ authority \in StoreMints
  /\ Supply + amount_ld <= U64Max
  /\ wallet' = [wallet EXCEPT ![m.to] = @ + amount_ld]
  /\ UNCHANGED <<store, escrow>>

ComposedAmount_BeforeFee(amount_ld) == amount_ld

(* What a compose message reports: the amount the destination was credited. *)
ComposedAmount(amount_ld) ==
  IF OftType = "Adapter" THEN PostFeeAmount(transfer_fee, amount_ld) ELSE amount_ld

SendCompose(m, amount_ld) ==
  composed' = IF m.compose
              THEN composed \cup {[src_eid   |-> m.src_eid,
                                   nonce     |-> m.nonce,
                                   to        |-> m.to,
                                   amount_ld |-> ComposedAmount(amount_ld)]}
              ELSE composed

(* The peer account of the source must name the message's sender. *)
FromPeer(m) ==
  /\ peer[m.src_eid] # None
  /\ peer[m.src_eid].peer_address = m.sender

(* The optional mint authority account that the executor passes must be the
   mint's authority of now.  A message that cannot be executed stays
   verified, and may be tried again. *)
LzReceive(m, authority) ==
  /\ NotPaused
  /\ FromPeer(m)
  /\ authority # None => authority = mint_authority
  /\ Clear(m)
  /\ LET amount_ld == Sd2ld(m.amount_sd)
         p == peer[m.src_eid]
     IN
     /\ amount_ld <= U64Max
     /\ CanConsume(p.inbound_rate_limiter, amount_ld, now)
     /\ peer' = [peer EXCEPT
          ![m.src_eid].inbound_rate_limiter  = Consume(@, amount_ld, now),
          ![m.src_eid].outbound_rate_limiter = RefillIfSome(@, amount_ld, now)]
     /\ Unlock(m, amount_ld) \/ Mint(m, amount_ld, authority)
     /\ SendCompose(m, amount_ld)
  /\ UNCHANGED <<mint_authority, transfer_fee, now, outbox, inbox>>

-------------------------------------------------------------------------------
(* The admin *)

Withdrawable_AllOfEscrow == escrow

(* What withdraw_fee may take: the checked subtraction escrow - tvl_ld. *)
Withdrawable == escrow - store.tvl_ld

WithdrawFee(k, fee_ld) ==
  /\ fee_ld <= Withdrawable
  /\ escrow' = escrow - fee_ld
  /\ wallet' = [wallet EXCEPT ![k] = @ + PostFeeAmount(transfer_fee, fee_ld)]
  /\ UNCHANGED <<store, peer, mint_authority, transfer_fee, now, endpoint_vars>>

SetDefaultFee(fee_bps) ==
  /\ store' = [store EXCEPT !.default_fee_bps = fee_bps]
  /\ UNCHANGED <<peer, token_vars, now, endpoint_vars>>

(* Paused by set_oft_config, or by set_pause for the pauser and unpauser. *)
SetPaused(paused) ==
  /\ store' = [store EXCEPT !.paused = paused]
  /\ UNCHANGED <<peer, token_vars, now, endpoint_vars>>

SetPeerAddress(eid, address) ==
  /\ peer' = [peer EXCEPT ![eid] = [PeerOrNew(eid) EXCEPT !.peer_address = address]]
  /\ UNCHANGED <<store, token_vars, now, endpoint_vars>>

SetPeerFee(eid, fee_bps) ==
  /\ peer' = [peer EXCEPT ![eid] = [PeerOrNew(eid) EXCEPT !.fee_bps = fee_bps]]
  /\ UNCHANGED <<store, token_vars, now, endpoint_vars>>

SetOutboundRateLimit(eid, params) ==
  /\ peer' = [peer EXCEPT ![eid] =
       [PeerOrNew(eid) EXCEPT !.outbound_rate_limiter = UpdateRateLimiter(@, params, now)]]
  /\ UNCHANGED <<store, token_vars, now, endpoint_vars>>

SetInboundRateLimit(eid, params) ==
  /\ peer' = [peer EXCEPT ![eid] =
       [PeerOrNew(eid) EXCEPT !.inbound_rate_limiter = UpdateRateLimiter(@, params, now)]]
  /\ UNCHANGED <<store, token_vars, now, endpoint_vars>>

-------------------------------------------------------------------------------
(* The environment (external) *)

(* The endpoint verifies the next message of a path.  Nothing is assumed of
   the remote application: it may claim any amount. *)
NextInboundNonce(eid, address) ==
  1 + Cardinality({m \in inbox : m.src_eid = eid /\ m.sender = address})

EndpointVerify(eid, address, k, amount_sd, compose) ==
  /\ Cardinality(inbox) < MaxInbound
  /\ inbox' = inbox \cup {[src_eid   |-> eid,
                           sender    |-> address,
                           nonce     |-> NextInboundNonce(eid, address),
                           to        |-> k,
                           amount_sd |-> amount_sd,
                           compose   |-> compose]}
  /\ UNCHANGED <<store, peer, token_vars, now, outbox, cleared, composed>>

(* An epoch begins with the transfer fee its authority has scheduled. *)
NewEpochFee(fee) ==
  /\ transfer_fee' = fee
  /\ UNCHANGED <<store, peer, wallet, escrow, mint_authority, now, endpoint_vars>>

(* A signer of the multisig, or whoever holds the authority, may pass it on;
   the store itself never does. *)
SetMintAuthority(authority) ==
  /\ mint_authority \in {"multisig", "other"}
  /\ mint_authority' = authority
  /\ UNCHANGED <<store, peer, wallet, escrow, transfer_fee, now, endpoint_vars>>

Tick ==
  /\ now < MaxTime
  /\ now' = now + 1
  /\ UNCHANGED <<store, peer, token_vars, endpoint_vars>>

-------------------------------------------------------------------------------
SendNext == \E k \in Keys, eid \in Eids, amount_ld \in SendAmounts : Send(k, eid, amount_ld)

LzReceiveNext == \E m \in inbox, authority \in {mint_authority, None} : LzReceive(m, authority)

StoreConfigNext ==
  \/ \E fee_bps \in FeeChoices : SetDefaultFee(fee_bps)
  \/ \E paused \in BOOLEAN : SetPaused(paused)

PeerConfigNext ==
  \E eid \in Eids :
    \/ \E address \in Addresses : SetPeerAddress(eid, address)
    \/ \E fee_bps \in FeeChoices \cup {None} : SetPeerFee(eid, fee_bps)
    \/ \E params \in LimitParams : SetOutboundRateLimit(eid, params)
    \/ \E params \in LimitParams : SetInboundRateLimit(eid, params)

WithdrawNext == \E k \in Keys, fee_ld \in Withdrawals : WithdrawFee(k, fee_ld)

TokenNext ==
  \/ \E fee \in TransferFees[OftType] : NewEpochFee(fee)
  \/ \E authority \in MintAuthorities : SetMintAuthority(authority)

VerifyNext ==
  \E eid \in Eids, address \in Addresses, k \in Keys,
     amount_sd \in VerifiedAmounts, compose \in ComposeChoices :
       EndpointVerify(eid, address, k, amount_sd, compose)

(* Every step but those of the remote side. *)
LocalNext ==
  \/ SendNext
  \/ LzReceiveNext
  \/ StoreConfigNext
  \/ PeerConfigNext
  \/ WithdrawNext
  \/ TokenNext
  \/ Tick

Next == LocalNext \/ VerifyNext

Spec == Init /\ [][Next]_vars

-------------------------------------------------------------------------------
TypeOK ==
  /\ store \in OFTStore
  /\ peer \in [Eids -> PeerConfig \cup {None}]
  /\ wallet \in [Keys -> Nat]
  /\ escrow \in Nat
  /\ mint_authority \in StoreMints \cup {"other", None}
  /\ transfer_fee \in TransferFee
  /\ now \in Nat
  /\ outbox \subseteq OutboundMessage
  /\ inbox \subseteq InboundMessage
  /\ cleared \subseteq inbox
  /\ composed \subseteq ComposeMessage

SentSd    == MapThenSumSet(LAMBDA m : m.amount_sd, outbox)
ClearedSd == MapThenSumSet(LAMBDA m : m.amount_sd, cleared)

(* The escrow always holds the value locked: no order of sends, receipts,
   transfer fee changes and fee withdrawals lets withdraw_fee, or a transfer
   fee, eat into what the other chains may redeem. *)
EscrowCoversTvl == OftType = "Adapter" => escrow >= store.tvl_ld

(* tvl_ld is the value of the messages: all that was sent less all that was
   executed, without dust and without the OFT fee; a native OFT has none
   ("if oft_type is Native, it is always 0", state/oft.rs). *)
TvlIsMessageValue ==
  store.tvl_ld = IF OftType = "Adapter" THEN Sd2ld(SentSd - ClearedSd) ELSE 0

(* What a native OFT burnt is what its messages carry, and what it minted is
   what the executed messages carried: each message is paid out at most once,
   fees change hands and are not burnt. *)
NativeSupplyIsMessageValue ==
  OftType = "Native" =>
    Supply = Cardinality(Keys) * InitialBalance - Sd2ld(SentSd) + Sd2ld(ClearedSd)

(* Composers act on the amount they are told: it is the amount that the same
   transaction credited, also when the token withholds a transfer fee. *)
ComposeReportsCredit ==
  [][\A c \in composed' \ composed : wallet'[c.to] = wallet[c.to] + c.amount_ld]_vars

(* A pause stops value in both directions, wherever it comes from; only the
   fees already earned may leave the escrow. *)
PauseStopsBridge ==
  [][store.paused => /\ UNCHANGED <<outbox, cleared, composed>>
                     /\ store'.tvl_ld = store.tvl_ld]_vars
===============================================================================
