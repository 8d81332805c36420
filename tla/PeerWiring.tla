------------------------------ MODULE PeerWiring ------------------------------
(***************************************************************************)
(* Wiring the peers of the OFT program: what its instructions, and the     *)
(* tasks that send them, do to a PeerConfig, and what that makes of the    *)
(* options users pay for.                                                  *)
(*                                                                         *)
(* The wire task first reads the chain and compares it with the operator's *)
(* file, and then sends what differs.  Its setPeer resets more of a peer   *)
(* than the address, so a run that replaces a peer undoes options that it  *)
(* has just read and found right.                                          *)
(*                                                                         *)
(* Options are the gas they pay for, of lzReceive and of lzCompose; None   *)
(* are none at all, which is not the same as options of no gas.            *)
(***************************************************************************)
EXTENDS Naturals

CONSTANTS
  Eids,           \* the remote endpoint ids
  Connections,    \* those the operator's file connects to
  SepoliaV2,      \* EndpointId.SEPOLIA_V2_TESTNET
  Addresses,      \* remote applications
  ZeroAddress,    \* the peer_address of an account just created
  None,
  People,         \* wallets that may be admin or delegate
  operator        \* the wallet that runs the tasks

(* The inputs that are tried, and the bound. *)
CONSTANTS
  ConfigChoices,  \* what the file may say of a connection
  ExtraOptions,   \* the options users add to a send
  ComposeGas,     \* the compose_gas of a send that composes
  RateLimits,     \* the limits the operator may set
  MaxChanges      \* bound on changes by hand and on failures

Options == [receive : Nat, compose : Nat]

EnforcedOptions == [send : Options \cup {None}, send_and_call : Options \cup {None}]

PeerConfig ==
  [peer_address : Addresses \cup {ZeroAddress}, enforced_options : EnforcedOptions,
   outbound_rate_limiter : RateLimits \cup {None}, inbound_rate_limiter : RateLimits \cup {None},
   fee_bps : {None, 0}, is_endpoint_v1 : BOOLEAN]

Config == [address : Addresses, enforced_options : EnforcedOptions]

ASSUME EidsAssumption == Connections \subseteq Eids /\ SepoliaV2 \in Eids
ASSUME AddressesAssumption == ZeroAddress \notin Addresses
ASSUME NoneAssumption == None \notin Options \cup PeerConfig /\ None # {}
ASSUME PeopleAssumption == operator \in People
ASSUME WiringInputsAssumption ==
  /\ ConfigChoices \subseteq Config
  /\ \A c \in ConfigChoices :
       c.enforced_options.send # None /\ c.enforced_options.send_and_call # None
  /\ ExtraOptions \subseteq Options \cup {None}
  /\ ComposeGas \subseteq Nat
  /\ MaxChanges \in Nat

VARIABLES
  admin,      \* OFTStore.admin
  delegate,   \* the delegate the endpoint has registered
  peer,       \* the PeerConfig of each endpoint, None before it is created
  config,     \* the operator's file
  pending,    \* the transactions the wire task has left to send, None when it is not running
  settled,    \* the connections the wire task found right, and nobody changed since
  shown,      \* what the last step showed its user: a message sent, a limit set
  changes     \* changes by hand and failures so far

roles == <<admin, delegate>>
vars  == <<roles, peer, config, pending, settled, shown, changes>>

-------------------------------------------------------------------------------
(* PeerConfig and its options *)

NewPeer ==
  [peer_address |-> ZeroAddress, enforced_options |-> [send |-> None, send_and_call |-> None],
   outbound_rate_limiter |-> None, inbound_rate_limiter |-> None,
   fee_bps |-> None, is_endpoint_v1 |-> FALSE]

(* set_peer_config makes the account if there is none. *)
PeerOrNew(eid) == IF peer[eid] = None THEN NewPeer ELSE peer[eid]

ExecutorLzReceiveOption(gas) == [receive |-> gas, compose |-> 0]
ExecutorLzComposeOption(gas) == [receive |-> 0, compose |-> gas]

(* The library's combination (external): the gas of both. *)
Combine(a, b) ==
  IF a = None THEN b
  ELSE IF b = None THEN a
  ELSE [receive |-> a.receive + b.receive, compose |-> a.compose + b.compose]

GetEnforcedOptions_OfPlain(p, compose_gas) == p.enforced_options.send

GetEnforcedOptions(p, compose_gas) ==
  IF compose_gas = None THEN p.enforced_options.send ELSE p.enforced_options.send_and_call

(* A remote on EndpointV1 composes within lzReceive. *)
CombineOptions(p, compose_gas, extra) ==
  LET enforced == GetEnforcedOptions(p, compose_gas)
  IN  IF compose_gas = None THEN Combine(enforced, extra)
      ELSE Combine(Combine(enforced, IF p.is_endpoint_v1
                                     THEN ExecutorLzReceiveOption(compose_gas)
                                     ELSE ExecutorLzComposeOption(compose_gas)), extra)

(* The endpoint's executor refuses options that pay for no lzReceive. *)
Send(eid, compose_gas, extra) ==
  /\ peer[eid] # None
  /\ peer[eid].peer_address # ZeroAddress
  /\ LET options == CombineOptions(peer[eid], compose_gas, extra)
     IN  /\ options # None
         /\ options.receive > 0
         /\ shown' = [kind |-> "sent", eid |-> eid, receiver |-> peer[eid].peer_address,
                      compose_gas |-> compose_gas, extra |-> extra, options |-> options]
  /\ UNCHANGED <<roles, peer, config, pending, settled, changes>>

-------------------------------------------------------------------------------
(* The wire task *)

(* What it sends for a connection, once everything has been read. *)
SetPeerTx(eid) == [kind |-> "set_peer", eid |-> eid, address |-> config[eid].address]

OptionsTx(eid) ==
  [kind |-> "set_options", eid |-> eid, enforced_options |-> config[eid].enforced_options]

AddressDiffers(eid) == PeerOrNew(eid).peer_address # config[eid].address

OptionsDiffer(eid) == PeerOrNew(eid).enforced_options # config[eid].enforced_options

Transactions ==
  {SetPeerTx(eid) : eid \in {e \in Connections : AddressDiffers(e)}} \cup
  {OptionsTx(eid) : eid \in {e \in Connections : OptionsDiffer(e)}}

(* With nothing to send, the run is over, and all is found right. *)
Wire ==
  /\ pending = None
  /\ IF Transactions = {}
     THEN settled' = Connections /\ UNCHANGED pending
     ELSE pending' = Transactions /\ UNCHANGED settled
  /\ shown' = None
  /\ UNCHANGED <<roles, peer, config, changes>>

(* Peers are sent before options. *)
IsNext(tx) == tx \in pending /\ (tx.kind = "set_peer" \/ \A t \in pending : t.kind # "set_peer")

Sent(tx) == pending' = IF pending = {tx} THEN None ELSE pending \ {tx}

(* A setPeer is signed by the admin and, for the accounts at the endpoint, by
   the delegate; options are the admin's. *)
Signed(tx) == operator = admin /\ (tx.kind = "set_peer" => operator = delegate)

EmptyOptions == [receive |-> 0, compose |-> 0]

SetPeer_AddressOnly(tx) ==
  /\ tx.kind = "set_peer"
  /\ peer' = [peer EXCEPT ![tx.eid] = [PeerOrNew(tx.eid) EXCEPT !.peer_address = tx.address]]

(* One transaction: the address, enforced options that pay for nothing, and a
   fee that is not given, by which the library unsets it or sets none. *)
SetPeer(tx) ==
  /\ tx.kind = "set_peer"
  /\ \E fee_bps \in {None, 0} :
       peer' = [peer EXCEPT ![tx.eid] =
         [PeerOrNew(tx.eid) EXCEPT
            !.peer_address     = tx.address,
            !.enforced_options = [send |-> EmptyOptions, send_and_call |-> EmptyOptions],
            !.fee_bps          = fee_bps]]

SetEnforcedOptions_SendOnly(eid, enforced_options) ==
  peer' = [peer EXCEPT ![eid] =
    [PeerOrNew(eid) EXCEPT !.enforced_options.send = enforced_options.send]]

SetEnforcedOptions(eid, enforced_options) ==
  peer' = [peer EXCEPT ![eid] = [PeerOrNew(eid) EXCEPT !.enforced_options = enforced_options]]

SetOptions(tx) ==
  /\ tx.kind = "set_options"
  /\ SetEnforcedOptions(tx.eid, tx.enforced_options)

SendTx ==
  /\ pending # None
  /\ \E tx \in pending :
       /\ IsNext(tx)
       /\ Signed(tx)
       /\ SetPeer(tx) \/ SetOptions(tx)
       /\ Sent(tx)
  /\ shown' = None
  /\ UNCHANGED <<roles, config, settled, changes>>

(* A task whose wallet cannot sign for the next transaction stops. *)
Refused ==
  /\ pending # None
  /\ \E tx \in pending : IsNext(tx) /\ ~Signed(tx)
  /\ pending' = None
  /\ shown' = None
  /\ UNCHANGED <<roles, peer, config, settled, changes>>

(* So does one whose transaction fails, or that is killed. *)
BreakOff ==
  /\ pending # None
  /\ changes < MaxChanges
  /\ changes' = changes + 1
  /\ pending' = None
  /\ shown' = None
  /\ UNCHANGED <<roles, peer, config, settled>>

-------------------------------------------------------------------------------
(* The rate limit tasks, which end with the peer of the eid they are given, if
   there is one.  The outbound one sets the limit of one eid whatever it is
   given. *)
SetInboundRateLimit(src_eid, limit) ==
  /\ operator = admin
  /\ peer' = [peer EXCEPT ![src_eid] = [PeerOrNew(src_eid) EXCEPT !.inbound_rate_limiter = limit]]
  /\ shown' = [kind |-> "inbound_limit", eid |-> src_eid, limit |-> limit]
  /\ UNCHANGED <<roles, config, pending, settled, changes>>

SetOutboundRateLimit(dst_eid, limit) ==
  /\ operator = admin
  /\ peer' = [peer EXCEPT ![SepoliaV2] =
                [PeerOrNew(SepoliaV2) EXCEPT !.outbound_rate_limiter = limit]]
  /\ shown' = IF peer'[dst_eid] = None
               THEN None
               ELSE [kind |-> "outbound_limit", eid |-> dst_eid, limit |-> limit]
  /\ UNCHANGED <<roles, config, pending, settled, changes>>

-------------------------------------------------------------------------------
(* Changes by hand: the operator edits the file; whoever is admin sends an
   instruction without the tasks. *)
ByHand ==
  /\ changes < MaxChanges
  /\ changes' = changes + 1
  /\ shown' = None

EditConfig(eid, c) ==
  /\ ByHand
  /\ config' = [config EXCEPT ![eid] = c]
  /\ settled' = settled \ {eid}
  /\ UNCHANGED <<roles, peer, pending>>

EnforceByHand(eid, enforced_options) ==
  /\ ByHand
  /\ SetEnforcedOptions(eid, enforced_options)
  /\ settled' = settled \ {eid}
  /\ UNCHANGED <<roles, config, pending>>

SetIsEndpointV1(eid, is_endpoint_v1) ==
  /\ ByHand
  /\ peer' = [peer EXCEPT ![eid] = [PeerOrNew(eid) EXCEPT !.is_endpoint_v1 = is_endpoint_v1]]
  /\ UNCHANGED <<roles, config, pending, settled>>

(* The admin names another admin, or another delegate, not both at once. *)
SetAdmin(person) ==
  /\ ByHand
  /\ admin' = person
  /\ UNCHANGED <<delegate, peer, config, pending, settled>>

SetDelegate(person) ==
  /\ ByHand
  /\ delegate' = person
  /\ UNCHANGED <<admin, peer, config, pending, settled>>

-------------------------------------------------------------------------------
(* init_oft registers its admin as the delegate. *)
Init ==
  /\ admin = operator
  /\ delegate = admin
  /\ peer = [eid \in Eids |-> None]
  /\ config \in [Connections -> ConfigChoices]
  /\ pending = None
  /\ settled = {}
  /\ shown = None
  /\ changes = 0

EditNext ==
  \E eid \in Connections, c \in ConfigChoices :
    EditConfig(eid, c) \/ EnforceByHand(eid, c.enforced_options)

OtherByHandNext ==
  \/ \E eid \in Eids, is_endpoint_v1 \in BOOLEAN : SetIsEndpointV1(eid, is_endpoint_v1)
  \/ \E person \in People : SetAdmin(person) \/ SetDelegate(person)

ByHandNext == EditNext \/ OtherByHandNext

RateLimitNext ==
  \E eid \in Eids, limit \in RateLimits :
    SetInboundRateLimit(eid, limit) \/ SetOutboundRateLimit(eid, limit)

SendNext ==
  \E eid \in Eids, compose_gas \in ComposeGas \cup {None}, extra \in ExtraOptions :
    Send(eid, compose_gas, extra)

Next ==
  \/ SendNext
  \/ Wire \/ SendTx \/ Refused \/ BreakOff
  \/ RateLimitNext
  \/ ByHandNext

Spec == Init /\ [][Next]_vars

(* The operator runs the task again as long as it has something to send, and
   the chain executes what is sent. *)
FairSpec == Spec /\ WF_vars(Wire) /\ WF_vars(SendTx)

-------------------------------------------------------------------------------
(* Every field has its type.  A peer with an address has enforced options,
   though they may pay for nothing, so the options of users are combined with
   them and never passed on as they are. *)
TypeOK ==
  /\ admin \in People /\ delegate \in People
  /\ peer \in [Eids -> PeerConfig \cup {None}]
  /\ \A eid \in Eids :
       peer[eid] # None /\ peer[eid].peer_address # ZeroAddress =>
         /\ peer[eid].enforced_options.send # None
         /\ peer[eid].enforced_options.send_and_call # None
  /\ config \in [Connections -> ConfigChoices]
  /\ pending # {}
  /\ settled \subseteq Connections
  /\ changes \in 0..MaxChanges

(* What the file asks for, and the user, for a message of its kind. *)
GasAskedFor(m) ==
  Combine(IF m.compose_gas = None
          THEN config[m.eid].enforced_options.send
          ELSE config[m.eid].enforced_options.send_and_call, m.extra)

(* From the moment the wire task has found a connection right until somebody
   changes it by hand, every message goes to the application in the file and
   pays for the options in the file, for those of its user and for its compose
   on top, whatever the tasks did before and the limits that are set. *)
SettledSendsArePaid ==
  shown # None /\ shown.kind = "sent" /\ shown.eid \in settled =>
    LET paid == shown.options
        gas  == GasAskedFor(shown)
    IN  /\ shown.receiver = config[shown.eid].address
        /\ paid.receive >= gas.receive
        /\ paid.compose >= gas.compose
        /\ shown.compose_gas # None =>
             paid.receive + paid.compose >= gas.receive + gas.compose + shown.compose_gas

CanWire == admin = operator /\ delegate = operator

AddressIsSet(eid) == peer[eid] # None /\ peer[eid].peer_address = config[eid].address

OptionsAreSet(eid) == peer[eid] # None /\ peer[eid].enforced_options = config[eid].enforced_options

Configured == \A eid \in Connections : AddressIsSet(eid) /\ OptionsAreSet(eid)

(* Re-running the wire task configures the peers, although each setPeer undoes
   the options: whatever breaks off, is edited or changed by hand meanwhile,
   if the wallet remains, or becomes again, both admin and delegate. *)
RerunsConverge == <>[]CanWire => <>[]Configured

(* "The destination endpoint ID" (the description of dst-eid in
   setOutboundRateLimit): a task that succeeded has limited that peer. *)
OutboundLimitIsOfNamedPeer ==
  shown # None /\ shown.kind = "outbound_limit" =>
    peer[shown.eid].outbound_rate_limiter = shown.limit
===============================================================================
