-------------------------------- MODULE Bridge --------------------------------
(***************************************************************************)
(* The OFT program connected to remote applications that keep the other    *)
(* end of the bargain: they mint what a message carries and burn what they *)
(* send.  LayerZero delays messages as it likes, verifies them in the      *)
(* order of their path and executes verified ones in any order, each once. *)
(*                                                                         *)
(* A remote endpoint may host several applications over time (Addresses):  *)
(* the admin may make another one the peer while messages of the former    *)
(* one are on their way, and back.                                         *)
(***************************************************************************)
EXTENDS OFT

CONSTANT RemoteAmounts   \* the amounts remote holders send, in shared units

ASSUME RemoteAmountsAssumption == RemoteAmounts \subseteq U64Values

ASSUME PlacesAssumption == IsFiniteSet(Eids) /\ IsFiniteSet(Addresses)

VARIABLES
  remote,     \* the tokens of each remote application, in shared units
  delivered,  \* the messages of the outbox that their receivers executed
  returning   \* the messages the remote applications sent

remote_vars == <<remote, delivered, returning>>
bridge_vars == <<vars, remote_vars>>

BridgeInit ==
  /\ Init
  /\ remote = [eid \in Eids |-> [address \in Addresses |-> 0]]
  /\ delivered = {}
  /\ returning = {}

-------------------------------------------------------------------------------
(* The remote applications and the channel (external) *)

RemoteReceive(m) ==
  /\ m \in outbox \ delivered
  /\ delivered' = delivered \cup {m}
  /\ remote' = [remote EXCEPT ![m.dst_eid][m.receiver] = @ + m.amount_sd]
  /\ UNCHANGED <<vars, returning>>

RemoteSend(eid, address, k, amount_sd, compose) ==
  /\ Cardinality(returning) < MaxInbound
  /\ remote[eid][address] >= amount_sd
  /\ remote' = [remote EXCEPT ![eid][address] = @ - amount_sd]
  /\ returning' = returning \cup
       {[src_eid   |-> eid,
         sender    |-> address,
         nonce     |-> 1 + Cardinality({m \in returning :
                              m.src_eid = eid /\ m.sender = address}),
         to        |-> k,
         amount_sd |-> amount_sd,
         compose   |-> compose]}
  /\ UNCHANGED <<vars, delivered>>

Verify(m) ==
  /\ m \in returning \ inbox
  /\ m.nonce = NextInboundNonce(m.src_eid, m.sender)
  /\ EndpointVerify(m.src_eid, m.sender, m.to, m.amount_sd, m.compose)
  /\ UNCHANGED remote_vars

RemoteReceiveNext == \E m \in outbox : RemoteReceive(m)

VerifyReturning == \E m \in returning : Verify(m)

RemoteSendNext ==
  \E eid \in Eids, address \in Addresses, k \in Keys,
     amount_sd \in RemoteAmounts, compose \in ComposeChoices :
       RemoteSend(eid, address, k, amount_sd, compose)

BridgeNext ==
  \/ LocalNext /\ UNCHANGED remote_vars
  \/ RemoteReceiveNext
  \/ RemoteSendNext
  \/ VerifyReturning

BridgeSpec == BridgeInit /\ [][BridgeNext]_bridge_vars

-------------------------------------------------------------------------------
RemoteTypeOK ==
  /\ TypeOK
  /\ remote \in [Eids -> [Addresses -> Nat]]
  /\ delivered \subseteq outbox
  /\ returning \subseteq InboundMessage
  /\ inbox \subseteq returning

MessageValue(messages) == MapThenSumSet(LAMBDA m : m.amount_sd, messages)

RemoteValue ==
  MapThenSumSet(LAMBDA eid : MapThenSumSet(LAMBDA a : remote[eid][a], Addresses), Eids)

(* What the other chains hold, or is on its way to them or back. *)
Claims == RemoteValue + MessageValue(outbox \ delivered) + MessageValue(returning \ cleared)

(* Every token on another chain, and every one in transit, can be redeemed:
   an adapter's escrow holds it, whatever fees the admin withdrew, whatever
   the token withheld, and whichever peers came and went. *)
EveryClaimIsBacked == OftType = "Adapter" => escrow >= Sd2ld(Claims)

(* Every claim can come home, whichever first and however many together: no
   conversion leaves the width of an amount, an adapter never subtracts from
   tvl_ld more than it holds, and the supply of a native OFT has room.  None of
   the checks of lz_receive that abort a transaction strands a message. *)
EveryClaimIsPayable ==
  LET due_ld == Sd2ld(Claims) IN
  IF OftType = "Adapter" THEN store.tvl_ld >= due_ld ELSE Supply + due_ld <= U64Max

(* The value on this chain outside the bridge, in shared units.  It is what
   was there at first less what is locked or burnt, so the fees the program
   keeps and the token withholds remain part of it. *)
HomeValue ==
  Ld2sd(IF OftType = "Adapter"
        THEN Cardinality(Keys) * InitialBalance - store.tvl_ld
        ELSE Supply)

Promise == INSTANCE TokenBridge WITH
  home     <- HomeValue,
  outgoing <- outbox \ delivered,
  away     <- RemoteValue,
  incoming <- returning \ cleared

(* The program with its peers implements TokenBridge: every transfer is paid
   out once, with the value it left with, and no other step of users, admin,
   token or channel creates, destroys or moves value between the chains. *)
ImplementsTokenBridge == Promise!Spec
===============================================================================
