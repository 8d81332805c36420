-------------------------- MODULE PeerWiring_proofs --------------------------
(***************************************************************************)
(* What the wire task has found right stays right until it is changed by   *)
(* hand, for any number of endpoints, applications and options.            *)
(***************************************************************************)
EXTENDS PeerRuns, TLAPS

(* A task that is running has no transaction for a connection that is
   settled: such a one would undo it. *)
PendingOK ==
  pending # None =>
    \A tx \in pending :
      /\ tx.eid \in Connections \ settled
      /\ tx.kind = "set_peer" => tx.address \in Addresses
      /\ tx.kind = "set_options" =>
           /\ tx.enforced_options \in EnforcedOptions
           /\ tx.enforced_options.send # None
           /\ tx.enforced_options.send_and_call # None

SettledOK ==
  \A eid \in settled :
    /\ peer[eid] # None
    /\ peer[eid].peer_address = config[eid].address
    /\ peer[eid].enforced_options = config[eid].enforced_options

Inv == TypeOK /\ PendingOK /\ SettledOK /\ SettledSendsArePaid

-------------------------------------------------------------------------------
LEMMA ConfigType ==
  ASSUME TypeOK, NEW eid \in Connections
  PROVE  /\ eid \in Eids
         /\ config[eid] \in Config
         /\ config[eid].address \in Addresses
         /\ config[eid].enforced_options \in EnforcedOptions
         /\ config[eid].enforced_options.send # None
         /\ config[eid].enforced_options.send_and_call # None
BY EidsAssumption, WiringInputsAssumption DEF TypeOK, Config

LEMMA PeerOrNewType ==
  ASSUME TypeOK, NEW eid \in Eids
  PROVE  PeerOrNew(eid) \in PeerConfig
BY DEF TypeOK, PeerOrNew, NewPeer, PeerConfig, EnforcedOptions

(* Combined options are options, and pay for both. *)
LEMMA CombinePays ==
  ASSUME NEW a \in Options, NEW b \in Options \cup {None}
  PROVE  /\ Combine(a, b) \in Options
         /\ b = None => Combine(a, b) = a
         /\ b # None => /\ Combine(a, b).receive = a.receive + b.receive
                        /\ Combine(a, b).compose = a.compose + b.compose
BY NoneAssumption DEF Combine, Options

LEMMA InitInv == Init => Inv
<1>. SUFFICES ASSUME Init PROVE Inv
  OBVIOUS
<1>1. TypeOK
  BY PeopleAssumption, NoneAssumption, WiringInputsAssumption DEF Init, TypeOK
<1>. QED  BY <1>1 DEF Init, Inv, PendingOK, SettledOK, SettledSendsArePaid

-------------------------------------------------------------------------------
(* A send of a settled connection is what the invariant is for. *)
LEMMA SendInv ==
  ASSUME Inv, NEW eid \in Eids, NEW compose_gas \in ComposeGas \cup {None},
         NEW extra \in ExtraOptions, Send(eid, compose_gas, extra)
  PROVE  Inv'
<1>1. TypeOK' /\ PendingOK' /\ SettledOK'
  BY DEF Inv, Send, roles, TypeOK, PendingOK, SettledOK
<1>2. ASSUME eid \in settled PROVE SettledSendsArePaid'
  <2>. DEFINE p        == peer[eid]
              enforced == GetEnforcedOptions(p, compose_gas)
              option   == IF p.is_endpoint_v1
                          THEN ExecutorLzReceiveOption(compose_gas)
                          ELSE ExecutorLzComposeOption(compose_gas)
              paid     == CombineOptions(p, compose_gas, extra)
              gas      == Combine(enforced, extra)
  <2>1. /\ p.peer_address = config[eid].address
        /\ p.enforced_options = config[eid].enforced_options
    BY <1>2 DEF Inv, SettledOK
  <2>2. enforced \in Options
    <3>1. eid \in Connections
      BY <1>2 DEF Inv, TypeOK
    <3>. QED  BY <2>1, <3>1, ConfigType DEF GetEnforcedOptions, Inv, EnforcedOptions
  <2>3. extra \in Options \cup {None}
    BY WiringInputsAssumption
  <2>. HIDE DEF enforced
  <2>4. /\ paid.receive >= gas.receive
        /\ paid.compose >= gas.compose
        /\ compose_gas # None =>
             paid.receive + paid.compose >= gas.receive + gas.compose + compose_gas
    <3>1. CASE compose_gas = None
      <4>1. paid = gas
        BY <3>1 DEF CombineOptions, enforced
      <4>2. gas \in Options
        BY <2>2, <2>3, CombinePays
      <4>. QED  BY <3>1, <4>1, <4>2 DEF Options
    <3>2. CASE compose_gas # None
      <4>1. compose_gas \in Nat
        BY <3>2, WiringInputsAssumption
      <4>2. /\ option \in Options /\ option # None
            /\ option.receive + option.compose = compose_gas
        BY <4>1, NoneAssumption
        DEF Options, ExecutorLzReceiveOption, ExecutorLzComposeOption
      <4>. DEFINE both == Combine(enforced, option)
      <4>3. paid = Combine(both, extra)
        BY <3>2 DEF CombineOptions, enforced
      <4>. HIDE DEF option, paid
      <4>4. /\ both \in Options
            /\ both.receive = enforced.receive + option.receive
            /\ both.compose = enforced.compose + option.compose
        BY <2>2, <4>2, CombinePays
      <4>. HIDE DEF both
      <4>5. CASE extra = None
        <5>1. paid = both /\ gas = enforced
          BY <2>2, <4>3, <4>4, <4>5, CombinePays
        <5>. QED  BY <2>2, <4>1, <4>2, <4>4, <5>1 DEF Options
      <4>6. CASE extra # None
        <5>1. /\ paid.receive = both.receive + extra.receive
              /\ paid.compose = both.compose + extra.compose
              /\ gas.receive = enforced.receive + extra.receive
              /\ gas.compose = enforced.compose + extra.compose
          BY <2>2, <2>3, <4>3, <4>4, <4>6, CombinePays
        <5>. HIDE DEF gas
        <5>2. extra \in Options
          BY <2>3, <4>6
        <5>. QED  BY <2>2, <4>1, <4>2, <4>4, <5>1, <5>2 DEF Options
      <4>. QED  BY <4>5, <4>6
    <3>. QED  BY <3>1, <3>2
  <2>5. /\ shown' = [kind |-> "sent", eid |-> eid, receiver |-> p.peer_address,
                     compose_gas |-> compose_gas, extra |-> extra, options |-> paid]
        /\ config' = config
    BY DEF Send
  <2>6. GasAskedFor(shown)' = gas
    BY <2>1, <2>5 DEF GasAskedFor, GetEnforcedOptions, Combine, enforced
  <2>. HIDE DEF p, paid, gas
  <2>. QED  BY <2>1, <2>4, <2>5, <2>6 DEF SettledSendsArePaid
<1>3. ASSUME eid \notin settled PROVE SettledSendsArePaid'
  BY <1>3 DEF Send, SettledSendsArePaid
<1>. QED  BY <1>1, <1>2, <1>3 DEF Inv

-------------------------------------------------------------------------------
(* The wire task *)

LEMMA WireInv ==
  ASSUME Inv, Wire
  PROVE  Inv'
<1>1. \A eid \in Connections :
        /\ PeerOrNew(eid) = IF peer[eid] = None THEN NewPeer ELSE peer[eid]
        /\ ~AddressDiffers(eid) => peer[eid] # None
  BY ConfigType, AddressesAssumption DEF Inv, AddressDiffers, PeerOrNew, NewPeer
<1>2. TypeOK'
  BY DEF Inv, Wire, roles, TypeOK
<1>3. PendingOK'
  <2>1. \A tx \in Transactions :
          \E eid \in Connections :
            \/ AddressDiffers(eid) /\ tx = SetPeerTx(eid)
            \/ OptionsDiffer(eid) /\ tx = OptionsTx(eid)
    BY DEF Transactions
  <2>2. \A eid \in settled : ~AddressDiffers(eid) /\ ~OptionsDiffer(eid)
    BY DEF Inv, SettledOK, AddressDiffers, OptionsDiffer, PeerOrNew
  <2>3. CASE Transactions = {}
    BY <2>3 DEF Wire, PendingOK
  <2>4. CASE Transactions # {}
    <3>1. settled' = settled /\ pending' = Transactions
      BY <2>4 DEF Wire
    <3>2. ASSUME NEW tx \in Transactions
          PROVE  /\ tx.eid \in Connections \ settled
                 /\ tx.kind = "set_peer" => tx.address \in Addresses
                 /\ tx.kind = "set_options" =>
                      /\ tx.enforced_options \in EnforcedOptions
                      /\ tx.enforced_options.send # None
                      /\ tx.enforced_options.send_and_call # None
      BY <2>1, <2>2, ConfigType DEF Inv, SetPeerTx, OptionsTx
    <3>. QED  BY <3>1, <3>2 DEF PendingOK
  <2>. QED  BY <2>3, <2>4
<1>4. SettledOK'
  <2>1. CASE Transactions = {}
    <3>1. \A eid \in Connections : ~AddressDiffers(eid) /\ ~OptionsDiffer(eid)
      BY <2>1 DEF Transactions
    <3>. QED  BY <1>1, <2>1, <3>1 DEF Wire, SettledOK, AddressDiffers, OptionsDiffer
  <2>2. CASE Transactions # {}
    BY <2>2 DEF Inv, Wire, SettledOK
  <2>. QED  BY <2>1, <2>2
<1>. QED  BY <1>2, <1>3, <1>4 DEF Inv, Wire, SettledSendsArePaid

(* A transaction is for a connection that is not settled. *)
LEMMA SendTxInv ==
  ASSUME Inv, SendTx
  PROVE  Inv'
<1>1. PICK tx \in pending : IsNext(tx) /\ (SetPeer(tx) \/ SetOptions(tx)) /\ Sent(tx)
  BY DEF SendTx
<1>2. /\ pending # None
      /\ UNCHANGED <<admin, delegate, config, settled, changes>>
      /\ shown' = None
  BY DEF SendTx, roles
<1>3. /\ tx.eid \in Connections \ settled
      /\ tx.eid \in Eids
      /\ tx.kind = "set_peer" => tx.address \in Addresses
      /\ tx.kind = "set_options" =>
           /\ tx.enforced_options \in EnforcedOptions
           /\ tx.enforced_options.send # None
           /\ tx.enforced_options.send_and_call # None
  BY <1>1, <1>2, EidsAssumption DEF Inv, PendingOK
<1>4. PICK p \in PeerConfig :
        /\ peer' = [peer EXCEPT ![tx.eid] = p]
        /\ p.enforced_options.send # None
        /\ p.enforced_options.send_and_call # None
  <2>1. PeerOrNew(tx.eid) \in PeerConfig
    BY <1>3, PeerOrNewType DEF Inv
  <2>2. CASE SetPeer(tx)
    <3>1. tx.kind = "set_peer"
      BY <2>2 DEF SetPeer
    <3>2. EmptyOptions \in Options /\ EmptyOptions # None
      BY NoneAssumption DEF EmptyOptions, Options
    <3>3. PICK fee_bps \in {None, 0} :
            peer' = [peer EXCEPT ![tx.eid] =
              [PeerOrNew(tx.eid) EXCEPT
                 !.peer_address     = tx.address,
                 !.enforced_options = [send |-> EmptyOptions, send_and_call |-> EmptyOptions],
                 !.fee_bps          = fee_bps]]
      BY <2>2 DEF SetPeer
    <3>. DEFINE new == [PeerOrNew(tx.eid) EXCEPT
                 !.peer_address     = tx.address,
                 !.enforced_options = [send |-> EmptyOptions, send_and_call |-> EmptyOptions],
                 !.fee_bps          = fee_bps]
    <3>4. /\ new \in PeerConfig
          /\ new.enforced_options.send # None
          /\ new.enforced_options.send_and_call # None
      BY <1>3, <2>1, <3>1, <3>2 DEF PeerConfig, EnforcedOptions
    <3>5. peer' = [peer EXCEPT ![tx.eid] = new]
      BY <3>3
    <3>. HIDE DEF new
    <3>. QED  BY <3>4, <3>5, Zenon
  <2>3. CASE SetOptions(tx)
    <3>. DEFINE new == [PeerOrNew(tx.eid) EXCEPT !.enforced_options = tx.enforced_options]
    <3>1. new \in PeerConfig /\ new.enforced_options = tx.enforced_options
      BY <1>3, <2>1, <2>3 DEF SetOptions, PeerConfig
    <3>2. peer' = [peer EXCEPT ![tx.eid] = new]
      BY <2>3 DEF SetOptions, SetEnforcedOptions
    <3>. HIDE DEF new
    <3>. QED  BY <1>3, <2>3, <3>1, <3>2 DEF SetOptions
  <2>. QED  BY <1>1, <2>2, <2>3
<1>5. TypeOK'
  BY <1>1, <1>2, <1>3, <1>4, NoneAssumption DEF Inv, TypeOK, Sent
<1>6. PendingOK'
  BY <1>1, <1>2 DEF Inv, PendingOK, Sent
<1>7. SettledOK'
  BY <1>2, <1>3, <1>4, EidsAssumption DEF Inv, TypeOK, SettledOK
<1>. QED  BY <1>2, <1>5, <1>6, <1>7 DEF Inv, SettledSendsArePaid

(* The end of a run, in whatever way. *)
LEMMA EndInv ==
  ASSUME Inv, Refused \/ BreakOff
  PROVE  Inv'
<1>1. /\ pending' = None
      /\ shown' = None
      /\ UNCHANGED <<roles, peer, config, settled>>
      /\ changes' \in 0..MaxChanges
  BY WiringInputsAssumption DEF Inv, TypeOK, Refused, BreakOff
<1>2. TypeOK'
  BY <1>1, NoneAssumption DEF Inv, TypeOK, roles
<1>. QED  BY <1>1, <1>2 DEF Inv, PendingOK, SettledOK, SettledSendsArePaid

-------------------------------------------------------------------------------
(* The instructions that the wire task does not send.  None of them but those
   that take a connection out of settled touches an address or options. *)

LEMMA OtherFieldInv ==
  ASSUME Inv, NEW eid \in Eids, NEW p \in PeerConfig,
         p.peer_address = PeerOrNew(eid).peer_address,
         p.enforced_options = PeerOrNew(eid).enforced_options,
         peer' = [peer EXCEPT ![eid] = p],
         UNCHANGED <<roles, config, pending, settled>>,
         changes' \in 0..MaxChanges,
         shown' # None => shown'.kind # "sent"
  PROVE  Inv'
<1>1. TypeOK'
  <2>1. \A e \in Eids : peer'[e] = IF e = eid THEN p ELSE peer[e]
    BY DEF Inv, TypeOK
  <2>2. ASSUME NEW e \in Eids, peer'[e] # None, peer'[e].peer_address # ZeroAddress
        PROVE  /\ peer'[e].enforced_options.send # None
               /\ peer'[e].enforced_options.send_and_call # None
    <3>1. CASE e = eid
      <4>1. p.peer_address # ZeroAddress
        BY <2>1, <2>2, <3>1
      <4>2. peer[eid] # None /\ PeerOrNew(eid) = peer[eid]
        BY <4>1 DEF PeerOrNew, NewPeer
      <4>. QED  BY <2>1, <3>1, <4>1, <4>2 DEF Inv, TypeOK
    <3>2. CASE e # eid
      BY <2>1, <2>2, <3>2 DEF Inv, TypeOK
    <3>. QED  BY <3>1, <3>2
  <2>3. peer' \in [Eids -> PeerConfig \cup {None}]
    BY DEF Inv, TypeOK
  <2>4. /\ admin' \in People /\ delegate' \in People
        /\ config' \in [Connections -> ConfigChoices]
        /\ pending' # {}
        /\ settled' \subseteq Connections
        /\ changes' \in 0..MaxChanges
    BY DEF Inv, TypeOK, roles
  <2>. QED  BY <2>2, <2>3, <2>4, Zenon DEF TypeOK
<1>2. PendingOK'
  BY DEF Inv, PendingOK
<1>3. SettledOK'
  BY EidsAssumption, NoneAssumption DEF Inv, TypeOK, SettledOK, PeerOrNew
<1>. QED  BY <1>1, <1>2, <1>3 DEF Inv, SettledSendsArePaid

LEMMA RateLimitInv ==
  ASSUME Inv, RateLimitNext
  PROVE  Inv'
<1>1. PICK eid \in Eids, limit \in RateLimits :
        SetInboundRateLimit(eid, limit) \/ SetOutboundRateLimit(eid, limit)
  BY DEF RateLimitNext
<1>2. PeerOrNew(eid) \in PeerConfig /\ PeerOrNew(SepoliaV2) \in PeerConfig
  BY PeerOrNewType, EidsAssumption DEF Inv
<1>3. CASE SetInboundRateLimit(eid, limit)
  <2>. DEFINE p == [PeerOrNew(eid) EXCEPT !.inbound_rate_limiter = limit]
  <2>1. /\ p \in PeerConfig
        /\ p.peer_address = PeerOrNew(eid).peer_address
        /\ p.enforced_options = PeerOrNew(eid).enforced_options
    BY <1>2 DEF PeerConfig
  <2>2. peer' = [peer EXCEPT ![eid] = p]
    BY <1>3 DEF SetInboundRateLimit
  <2>. HIDE DEF p
  <2>. QED  BY <1>3, <2>1, <2>2, OtherFieldInv DEF SetInboundRateLimit, Inv, TypeOK
<1>4. CASE SetOutboundRateLimit(eid, limit)
  <2>. DEFINE p == [PeerOrNew(SepoliaV2) EXCEPT !.outbound_rate_limiter = limit]
  <2>1. /\ p \in PeerConfig
        /\ p.peer_address = PeerOrNew(SepoliaV2).peer_address
        /\ p.enforced_options = PeerOrNew(SepoliaV2).enforced_options
    BY <1>2 DEF PeerConfig
  <2>2. peer' = [peer EXCEPT ![SepoliaV2] = p]
    BY <1>4 DEF SetOutboundRateLimit
  <2>. HIDE DEF p
  <2>3. shown' # None => shown'.kind # "sent"
    BY <1>4 DEF SetOutboundRateLimit
  <2>. QED
    BY <1>4, <2>1, <2>2, <2>3, EidsAssumption, OtherFieldInv
    DEF SetOutboundRateLimit, Inv, TypeOK
<1>. QED  BY <1>1, <1>3, <1>4

LEMMA SetIsEndpointV1Inv ==
  ASSUME Inv, NEW eid \in Eids, NEW is_endpoint_v1 \in BOOLEAN,
         SetIsEndpointV1(eid, is_endpoint_v1)
  PROVE  Inv'
<1>. DEFINE p == [PeerOrNew(eid) EXCEPT !.is_endpoint_v1 = is_endpoint_v1]
<1>1. /\ p \in PeerConfig
      /\ p.peer_address = PeerOrNew(eid).peer_address
      /\ p.enforced_options = PeerOrNew(eid).enforced_options
  BY PeerOrNewType DEF Inv, PeerConfig
<1>2. peer' = [peer EXCEPT ![eid] = p]
  BY DEF SetIsEndpointV1
<1>3. changes' \in 0..MaxChanges
  BY WiringInputsAssumption DEF Inv, TypeOK, SetIsEndpointV1, ByHand
<1>. HIDE DEF p
<1>. QED  BY <1>1, <1>2, <1>3, OtherFieldInv DEF SetIsEndpointV1, ByHand

(* Whoever is admin: nothing that the invariant says is about them. *)
LEMMA RolesInv ==
  ASSUME Inv, NEW person \in People, SetAdmin(person) \/ SetDelegate(person)
  PROVE  Inv'
<1>1. /\ UNCHANGED <<peer, config, pending, settled>>
      /\ admin' \in People /\ delegate' \in People
      /\ shown' = None
      /\ changes' \in 0..MaxChanges
  BY WiringInputsAssumption DEF Inv, TypeOK, SetAdmin, SetDelegate, ByHand
<1>. QED  BY <1>1 DEF Inv, TypeOK, PendingOK, SettledOK, SettledSendsArePaid

LEMMA EditConfigInv ==
  ASSUME Inv, NEW eid \in Connections, NEW c \in ConfigChoices, EditConfig(eid, c)
  PROVE  Inv'
<1>1. /\ UNCHANGED <<admin, delegate, peer, pending>>
      /\ config' = [config EXCEPT ![eid] = c]
      /\ settled' = settled \ {eid}
      /\ shown' = None
      /\ changes' \in 0..MaxChanges
  BY WiringInputsAssumption DEF Inv, TypeOK, EditConfig, ByHand, roles
<1>2. TypeOK'
  BY <1>1 DEF Inv, TypeOK
<1>3. SettledOK'
  BY <1>1 DEF Inv, TypeOK, SettledOK
<1>. QED  BY <1>1, <1>2, <1>3 DEF Inv, PendingOK, SettledSendsArePaid

LEMMA EnforceByHandInv ==
  ASSUME Inv, NEW eid \in Connections, NEW c \in ConfigChoices,
         EnforceByHand(eid, c.enforced_options)
  PROVE  Inv'
<1>. DEFINE p == [PeerOrNew(eid) EXCEPT !.enforced_options = c.enforced_options]
<1>1. /\ UNCHANGED <<admin, delegate, config, pending>>
      /\ settled' = settled \ {eid}
      /\ shown' = None
      /\ changes' \in 0..MaxChanges
  BY WiringInputsAssumption DEF Inv, TypeOK, EnforceByHand, ByHand, roles
<1>2. eid \in Eids
  BY EidsAssumption
<1>3. /\ p \in PeerConfig
      /\ p.enforced_options.send # None
      /\ p.enforced_options.send_and_call # None
  BY <1>2, PeerOrNewType, WiringInputsAssumption DEF Inv, PeerConfig, Config
<1>4. peer' = [peer EXCEPT ![eid] = p]
  BY DEF EnforceByHand, SetEnforcedOptions
<1>. HIDE DEF p
<1>5. TypeOK'
  BY <1>1, <1>2, <1>3, <1>4 DEF Inv, TypeOK
<1>6. SettledOK'
  BY <1>1, <1>2, <1>4, EidsAssumption DEF Inv, TypeOK, SettledOK
<1>. QED  BY <1>1, <1>5, <1>6 DEF Inv, PendingOK, SettledSendsArePaid

-------------------------------------------------------------------------------
LEMMA NextInv == Inv /\ [Next]_vars => Inv'
<1>. SUFFICES ASSUME Inv, [Next]_vars PROVE Inv'
  OBVIOUS
<1>1. CASE SendNext
  BY <1>1, SendInv DEF SendNext
<1>2. CASE Wire
  BY <1>2, WireInv
<1>3. CASE SendTx
  BY <1>3, SendTxInv
<1>4. CASE Refused \/ BreakOff
  BY <1>4, EndInv
<1>5. CASE RateLimitNext
  BY <1>5, RateLimitInv
<1>6. CASE ByHandNext
  <2>1. ASSUME NEW eid \in Connections, NEW c \in ConfigChoices, EditConfig(eid, c)
        PROVE  Inv'
    BY <2>1, EditConfigInv
  <2>2. ASSUME NEW eid \in Connections, NEW c \in ConfigChoices,
               EnforceByHand(eid, c.enforced_options)
        PROVE  Inv'
    BY <2>2, EnforceByHandInv
  <2>3. ASSUME NEW eid \in Eids, NEW is_endpoint_v1 \in BOOLEAN,
               SetIsEndpointV1(eid, is_endpoint_v1)
        PROVE  Inv'
    BY <2>3, SetIsEndpointV1Inv
  <2>4. ASSUME NEW person \in People, SetAdmin(person) \/ SetDelegate(person)
        PROVE  Inv'
    BY <2>4, RolesInv
  <2>. QED  BY <1>6, <2>1, <2>2, <2>3, <2>4 DEF ByHandNext, EditNext, OtherByHandNext
<1>7. CASE UNCHANGED vars
  BY <1>7 DEF vars, roles, Inv, TypeOK, PendingOK, SettledOK, SettledSendsArePaid, GasAskedFor
<1>. QED  BY <1>1, <1>2, <1>3, <1>4, <1>5, <1>6, <1>7 DEF Next

LEMMA SpecInv == Spec => []Inv
BY InitInv, NextInv, PTL DEF Spec

(* Every field keeps its type, and a peer with an address always has enforced
   options, so the endpoint never gets the options of a user alone. *)
THEOREM PeerWiringTypes == Spec => []TypeOK
<1>1. Inv => TypeOK
  BY DEF Inv
<1>. QED  BY <1>1, SpecInv, PTL

(* Between a run of wire that found a connection right and the next change by
   hand, every message goes where the file says and pays for all it asks for. *)
THEOREM SettledSendsAlwaysPaid == Spec => []SettledSendsArePaid
<1>1. Inv => SettledSendsArePaid
  BY DEF Inv
<1>. QED  BY <1>1, SpecInv, PTL
-------------------------------------------------------------------------------
(* The runs of the wire task, counted *)

(* The count is of the steps, and allows all of them. *)
LEMMA RunsStep == [RunsNext]_runs_vars => [Next]_vars
BY DEF RunsNext, CountedWire, CountedSendTx, CountedEdit, Next, ByHandNext, runs_vars

LEMMA RunsSpecInv == RunsSpec => []Inv
<1>1. RunsInit => Init
  BY DEF RunsInit
<1>2. Inv /\ [RunsNext]_runs_vars => Inv'
  BY RunsStep, NextInv
<1>. QED  BY <1>1, <1>2, InitInv, PTL DEF RunsSpec

(* What a run has left to send is what the file asks for; it includes each
   address that differs.  After a run that counted, no address does, and what
   is left to send includes the options that differ. *)
FreshOK ==
  fresh /\ pending # None =>
    /\ \A tx \in pending : tx = SetPeerTx(tx.eid) \/ tx = OptionsTx(tx.eid)
    /\ \A eid \in Connections : AddressIsSet(eid) \/ SetPeerTx(eid) \in pending
    /\ completed >= 1 =>
         /\ \A tx \in pending : tx.kind # "set_peer"
         /\ \A eid \in Connections : OptionsAreSet(eid) \/ OptionsTx(eid) \in pending

CountOK ==
  /\ completed \in 0..2
  /\ fresh \in BOOLEAN
  /\ completed >= 1 => fresh

RunsInv == CountOK /\ FreshOK /\ SecondRunConfigures

(* A peer is right when the task finds no difference. *)
LEMMA DiffersOrSet ==
  ASSUME TypeOK, NEW eid \in Connections
  PROVE  /\ AddressDiffers(eid) \/ AddressIsSet(eid)
         /\ AddressIsSet(eid) => OptionsDiffer(eid) \/ OptionsAreSet(eid)
         /\ AddressIsSet(eid) => ~AddressDiffers(eid)
BY ConfigType, AddressesAssumption
DEF AddressDiffers, AddressIsSet, OptionsDiffer, OptionsAreSet, PeerOrNew, NewPeer

(* A run that begins. *)
LEMMA WireRuns ==
  ASSUME Inv, RunsInv, CountedWire
  PROVE  RunsInv'
<1>1. /\ TypeOK /\ CountOK /\ SecondRunConfigures
      /\ fresh' = TRUE
      /\ UNCHANGED <<peer, config>>
  BY DEF Inv, RunsInv, CountedWire, Wire
<1>2. \A eid \in Connections :
        /\ AddressIsSet(eid)' <=> AddressIsSet(eid)
        /\ OptionsAreSet(eid)' <=> OptionsAreSet(eid)
        /\ SetPeerTx(eid)' = SetPeerTx(eid) /\ OptionsTx(eid)' = OptionsTx(eid)
  BY <1>1 DEF AddressIsSet, OptionsAreSet, SetPeerTx, OptionsTx
<1>3. CASE Transactions = {}
  <2>1. completed' = OneMore /\ pending' = None
    BY <1>3 DEF CountedWire, Wire
  <2>2. \A eid \in Connections : AddressIsSet(eid) /\ OptionsAreSet(eid)
    BY <1>1, <1>3, DiffersOrSet DEF Transactions
  <2>3. CountOK'
    BY <1>1, <2>1 DEF CountOK, OneMore
  <2>4. FreshOK' /\ SecondRunConfigures'
    BY <1>2, <2>1, <2>2 DEF FreshOK, SecondRunConfigures, Configured
  <2>. QED  BY <2>3, <2>4 DEF RunsInv
<1>4. CASE Transactions # {}
  <2>1. completed' = completed /\ pending' = Transactions
    BY <1>4 DEF CountedWire, Wire
  <2>2. CountOK' /\ SecondRunConfigures'
    BY <1>1, <1>2, <2>1 DEF CountOK, SecondRunConfigures, Configured
  <2>3. \A tx \in Transactions :
          \E eid \in Connections :
            \/ AddressDiffers(eid) /\ tx = SetPeerTx(eid)
            \/ OptionsDiffer(eid) /\ tx = OptionsTx(eid)
    BY DEF Transactions
  <2>4. \A tx \in Transactions : tx = SetPeerTx(tx.eid) \/ tx = OptionsTx(tx.eid)
    BY <2>3 DEF SetPeerTx, OptionsTx
  <2>5. \A eid \in Connections : AddressIsSet(eid) \/ SetPeerTx(eid) \in Transactions
    BY <1>1, DiffersOrSet DEF Transactions
  <2>6. ASSUME completed >= 1
        PROVE  /\ \A tx \in Transactions : tx.kind # "set_peer"
               /\ \A eid \in Connections : OptionsAreSet(eid) \/ OptionsTx(eid) \in Transactions
    <3>1. \A eid \in Connections : AddressIsSet(eid)
      BY <1>1, <2>6 DEF SecondRunConfigures
    <3>2. \A eid \in Connections : ~AddressDiffers(eid)
      BY <1>1, <3>1, DiffersOrSet
    <3>3. \A tx \in Transactions : tx.kind # "set_peer"
      BY <2>3, <3>2 DEF OptionsTx
    <3>4. \A eid \in Connections : OptionsAreSet(eid) \/ OptionsTx(eid) \in Transactions
      BY <1>1, <3>1, DiffersOrSet DEF Transactions
    <3>. QED  BY <3>3, <3>4
  <2>7. \A tx \in pending' : tx = SetPeerTx(tx.eid)' \/ tx = OptionsTx(tx.eid)'
    BY <1>1, <2>1, <2>4 DEF SetPeerTx, OptionsTx
  <2>8. \A eid \in Connections : AddressIsSet(eid)' \/ SetPeerTx(eid)' \in pending'
    BY <1>2, <2>1, <2>5
  <2>9. completed' >= 1 =>
          /\ \A tx \in pending' : tx.kind # "set_peer"
          /\ \A eid \in Connections : OptionsAreSet(eid)' \/ OptionsTx(eid)' \in pending'
    BY <1>2, <2>1, <2>6
  <2>10. FreshOK'
    BY <2>7, <2>8, <2>9 DEF FreshOK
  <2>. QED  BY <2>2, <2>10 DEF RunsInv
<1>. QED  BY <1>3, <1>4

(* A transaction of a run that counts sets what the file asks for, and takes
   itself off what is left. *)
LEMMA SendTxRuns ==
  ASSUME Inv, RunsInv, CountedSendTx
  PROVE  RunsInv'
<1>1. PICK tx \in pending : (SetPeer(tx) \/ SetOptions(tx)) /\ Sent(tx)
  BY DEF CountedSendTx, SendTx
<1>2. /\ pending # None /\ UNCHANGED <<config, fresh>>
      /\ TypeOK /\ CountOK /\ FreshOK /\ SecondRunConfigures
      /\ tx.eid \in Connections /\ tx.eid \in Eids
  BY <1>1, EidsAssumption DEF CountedSendTx, SendTx, Inv, RunsInv, PendingOK
<1>3. CASE ~fresh
  <2>1. completed' = completed /\ completed = 0
    BY <1>2, <1>3 DEF CountedSendTx, CountOK
  <2>. QED
    BY <1>2, <1>3, <2>1 DEF RunsInv, CountOK, FreshOK, SecondRunConfigures
<1>4. CASE fresh
  <2>1. \A eid \in Connections :
          SetPeerTx(eid)' = SetPeerTx(eid) /\ OptionsTx(eid)' = OptionsTx(eid)
    BY <1>2 DEF SetPeerTx, OptionsTx
  <2>2. /\ tx = SetPeerTx(tx.eid) \/ tx = OptionsTx(tx.eid)
        /\ \A eid \in Connections : AddressIsSet(eid) \/ SetPeerTx(eid) \in pending
        /\ completed >= 1 =>
             /\ tx.kind # "set_peer"
             /\ \A eid \in Connections : OptionsAreSet(eid) \/ OptionsTx(eid) \in pending
    BY <1>1, <1>2, <1>4 DEF FreshOK
  <2>3. /\ \A eid \in Connections :
             AddressIsSet(eid) \/ SetPeerTx(eid) = tx => AddressIsSet(eid)'
        /\ completed >= 1 => \A eid \in Connections :
             OptionsAreSet(eid) \/ OptionsTx(eid) = tx => OptionsAreSet(eid)'
    <3>1. CASE SetPeer(tx)
      <4>1. tx.kind = "set_peer" /\ tx = SetPeerTx(tx.eid)
        BY <2>2, <3>1 DEF SetPeer, OptionsTx
      <4>2. /\ peer' = [peer EXCEPT ![tx.eid] = peer'[tx.eid]]
            /\ peer'[tx.eid].peer_address = tx.address
            /\ peer'[tx.eid] # None
        <5>1. PICK fee_bps \in {None, 0} :
                peer' = [peer EXCEPT ![tx.eid] =
                  [PeerOrNew(tx.eid) EXCEPT
                     !.peer_address     = tx.address,
                     !.enforced_options = [send |-> EmptyOptions, send_and_call |-> EmptyOptions],
                     !.fee_bps          = fee_bps]]
          BY <3>1 DEF SetPeer
        <5>. DEFINE p == [PeerOrNew(tx.eid) EXCEPT
                     !.peer_address     = tx.address,
                     !.enforced_options = [send |-> EmptyOptions, send_and_call |-> EmptyOptions],
                     !.fee_bps          = fee_bps]
        <5>2. p \in PeerConfig /\ p.peer_address = tx.address
          <6>1. PeerOrNew(tx.eid) \in PeerConfig /\ tx.address \in Addresses
            BY <1>2, <4>1, PeerOrNewType, ConfigType DEF SetPeerTx
          <6>2. EmptyOptions \in Options
            BY DEF EmptyOptions, Options
          <6>. QED  BY <6>1, <6>2 DEF PeerConfig, EnforcedOptions
        <5>3. peer' = [peer EXCEPT ![tx.eid] = p]
          BY <5>1
        <5>. HIDE DEF p
        <5>4. peer'[tx.eid] = p
          BY <1>2, <5>3 DEF TypeOK
        <5>. QED  BY <5>2, <5>3, <5>4, NoneAssumption
      <4>3. \A eid \in Connections :
              AddressIsSet(eid) \/ SetPeerTx(eid) = tx => AddressIsSet(eid)'
        BY <1>2, <4>1, <4>2, EidsAssumption DEF AddressIsSet, SetPeerTx, TypeOK
      <4>. QED  BY <2>2, <4>1, <4>3
    <3>2. CASE SetOptions(tx)
      <4>1. tx.kind = "set_options" /\ tx = OptionsTx(tx.eid)
        BY <2>2, <3>2 DEF SetOptions, SetPeerTx
      <4>. DEFINE p == [PeerOrNew(tx.eid) EXCEPT !.enforced_options = tx.enforced_options]
      <4>2. peer' = [peer EXCEPT ![tx.eid] = p]
        BY <3>2 DEF SetOptions, SetEnforcedOptions
      <4>3. /\ p \in PeerConfig
            /\ p.peer_address = PeerOrNew(tx.eid).peer_address
            /\ p.enforced_options = tx.enforced_options
        <5>1. PeerOrNew(tx.eid) \in PeerConfig /\ tx.enforced_options \in EnforcedOptions
          BY <1>2, <4>1, PeerOrNewType, ConfigType DEF OptionsTx
        <5>. QED  BY <5>1 DEF PeerConfig
      <4>. HIDE DEF p
      <4>4. p # None
        BY <4>3, NoneAssumption
      <4>5. \A eid \in Connections : AddressIsSet(eid) => AddressIsSet(eid)'
        BY <1>2, <4>2, <4>3, <4>4, EidsAssumption DEF AddressIsSet, PeerOrNew, TypeOK
      <4>6. \A eid \in Connections :
              OptionsAreSet(eid) \/ OptionsTx(eid) = tx => OptionsAreSet(eid)'
        BY <1>2, <4>1, <4>2, <4>3, <4>4, EidsAssumption DEF OptionsAreSet, OptionsTx, TypeOK
      <4>7. \A eid \in Connections : SetPeerTx(eid) # tx
        BY <4>1 DEF SetPeerTx
      <4>. QED  BY <4>5, <4>6, <4>7
    <3>. QED  BY <1>1, <3>1, <3>2
  <2>4. CASE pending = {tx}
    <3>1. pending' = None /\ completed' = OneMore
      BY <1>1, <1>4, <2>4 DEF Sent, CountedSendTx
    <3>2. \A eid \in Connections : AddressIsSet(eid)'
      BY <2>2, <2>3, <2>4
    <3>3. completed >= 1 => \A eid \in Connections : OptionsAreSet(eid)'
      BY <2>2, <2>3, <2>4
    <3>4. CountOK'
      BY <1>2, <1>4, <3>1 DEF CountOK, OneMore
    <3>5. SecondRunConfigures'
      BY <1>2, <3>1, <3>2, <3>3 DEF SecondRunConfigures, Configured, CountOK, OneMore
    <3>. QED  BY <3>1, <3>4, <3>5 DEF RunsInv, FreshOK
  <2>5. CASE pending # {tx}
    <3>1. pending' = pending \ {tx} /\ completed' = completed
      <4>1. pending' = pending \ {tx}
        BY <1>1, <2>5 DEF Sent
      <4>2. ~\E t \in pending : pending = {t}
        BY <2>5
      <4>. QED  BY <4>1, <4>2 DEF CountedSendTx
    <3>2. CountOK'
      BY <1>2, <3>1 DEF CountOK
    <3>3. SecondRunConfigures'
      BY <1>2, <2>3, <3>1 DEF SecondRunConfigures, Configured, CountOK
    <3>4. FreshOK'
      <4>1. \A t \in pending' : t \in pending
        BY <3>1
      <4>2. \A t \in pending' : t = SetPeerTx(t.eid)' \/ t = OptionsTx(t.eid)'
        BY <1>2, <1>4, <4>1 DEF FreshOK, SetPeerTx, OptionsTx
      <4>3. \A eid \in Connections : AddressIsSet(eid)' \/ SetPeerTx(eid)' \in pending'
        BY <2>1, <2>2, <2>3, <3>1
      <4>4. ASSUME completed >= 1
            PROVE  /\ \A t \in pending' : t.kind # "set_peer"
                   /\ \A eid \in Connections : OptionsAreSet(eid)' \/ OptionsTx(eid)' \in pending'
        <5>1. \A t \in pending' : t.kind # "set_peer"
          BY <1>2, <1>4, <4>1, <4>4 DEF FreshOK
        <5>2. \A eid \in Connections : OptionsAreSet(eid)' \/ OptionsTx(eid)' \in pending'
          BY <2>1, <2>2, <2>3, <3>1, <4>4
        <5>. QED  BY <5>1, <5>2
      <4>. QED  BY <3>1, <4>2, <4>3, <4>4 DEF FreshOK
    <3>. QED  BY <3>2, <3>3, <3>4 DEF RunsInv
  <2>. QED  BY <2>4, <2>5
<1>. QED  BY <1>3, <1>4

(* Nothing else that the count does not start again at touches an address or
   options. *)
LEMMA OtherRuns ==
  ASSUME Inv, RunsInv, UNCHANGED <<config, fresh, completed>>,
         pending' \in {pending, None},
         \A eid \in Connections :
           peer'[eid] = peer[eid] \/
             /\ peer'[eid] # None
             /\ peer'[eid].peer_address = PeerOrNew(eid).peer_address
             /\ peer'[eid].enforced_options = PeerOrNew(eid).enforced_options
  PROVE  RunsInv'
<1>1. \A eid \in Connections :
        /\ AddressIsSet(eid) => AddressIsSet(eid)'
        /\ OptionsAreSet(eid) => OptionsAreSet(eid)'
        /\ SetPeerTx(eid)' = SetPeerTx(eid) /\ OptionsTx(eid)' = OptionsTx(eid)
  BY DEF AddressIsSet, OptionsAreSet, SetPeerTx, OptionsTx, PeerOrNew
<1>2. CountOK' /\ SecondRunConfigures'
  BY <1>1 DEF RunsInv, CountOK, SecondRunConfigures, Configured
<1>3. FreshOK'
  BY <1>1 DEF RunsInv, FreshOK, SetPeerTx, OptionsTx
<1>. QED  BY <1>2, <1>3 DEF RunsInv

LEMMA NextRuns == Inv /\ RunsInv /\ [RunsNext]_runs_vars => RunsInv'
<1>. SUFFICES ASSUME Inv, RunsInv, [RunsNext]_runs_vars PROVE RunsInv'
  OBVIOUS
<1>1. CASE CountedWire
  BY <1>1, WireRuns
<1>2. CASE CountedSendTx
  BY <1>2, SendTxRuns
<1>3. CASE CountedEdit
  <2>1. fresh' = FALSE /\ completed' = 0
    BY <1>3 DEF CountedEdit
  <2>2. completed' \in 0..2 /\ ~(completed' >= 1) /\ completed' # 2
    BY <2>1
  <2>3. CountOK' /\ SecondRunConfigures' /\ FreshOK'
    BY <2>1, <2>2, Zenon DEF CountOK, SecondRunConfigures, FreshOK
  <2>. QED  BY <2>3 DEF RunsInv
<1>4. CASE (SendNext \/ Refused \/ BreakOff) /\ UNCHANGED count_vars
  <2>1. UNCHANGED <<config, fresh, completed, peer>> /\ pending' \in {pending, None}
    BY <1>4 DEF SendNext, Send, Refused, BreakOff, count_vars
  <2>. QED  BY <2>1, OtherRuns
<1>5. CASE RateLimitNext /\ UNCHANGED count_vars
  <2>1. PICK eid \in Eids, limit \in RateLimits :
          SetInboundRateLimit(eid, limit) \/ SetOutboundRateLimit(eid, limit)
    BY <1>5 DEF RateLimitNext
  <2>2. UNCHANGED <<config, fresh, completed, pending>>
    BY <1>5, <2>1 DEF SetInboundRateLimit, SetOutboundRateLimit, count_vars
  <2>3. PICK e \in Eids, p \in PeerConfig :
          /\ peer' = [peer EXCEPT ![e] = p]
          /\ p.peer_address = PeerOrNew(e).peer_address
          /\ p.enforced_options = PeerOrNew(e).enforced_options
    <3>. DEFINE inbound  == [PeerOrNew(eid) EXCEPT !.inbound_rate_limiter = limit]
                outbound == [PeerOrNew(SepoliaV2) EXCEPT !.outbound_rate_limiter = limit]
    <3>1. PeerOrNew(eid) \in PeerConfig /\ PeerOrNew(SepoliaV2) \in PeerConfig
      BY PeerOrNewType, EidsAssumption DEF Inv
    <3>2. /\ inbound \in PeerConfig
          /\ inbound.peer_address = PeerOrNew(eid).peer_address
          /\ inbound.enforced_options = PeerOrNew(eid).enforced_options
          /\ outbound \in PeerConfig
          /\ outbound.peer_address = PeerOrNew(SepoliaV2).peer_address
          /\ outbound.enforced_options = PeerOrNew(SepoliaV2).enforced_options
      BY <3>1 DEF PeerConfig
    <3>3. peer' = [peer EXCEPT ![eid] = inbound] \/ peer' = [peer EXCEPT ![SepoliaV2] = outbound]
      BY <2>1 DEF SetInboundRateLimit, SetOutboundRateLimit
    <3>. HIDE DEF inbound, outbound
    <3>. QED  BY <3>2, <3>3, EidsAssumption
  <2>. QED  BY <2>2, <2>3, EidsAssumption, NoneAssumption, OtherRuns DEF Inv, TypeOK
<1>6. CASE OtherByHandNext /\ UNCHANGED count_vars
  <2>1. UNCHANGED <<config, fresh, completed, pending>>
    BY <1>6 DEF OtherByHandNext, SetIsEndpointV1, SetAdmin, SetDelegate, count_vars
  <2>2. ASSUME NEW eid \in Eids, NEW is_endpoint_v1 \in BOOLEAN,
               SetIsEndpointV1(eid, is_endpoint_v1)
        PROVE  RunsInv'
    <3>. DEFINE p == [PeerOrNew(eid) EXCEPT !.is_endpoint_v1 = is_endpoint_v1]
    <3>1. /\ p \in PeerConfig
          /\ p.peer_address = PeerOrNew(eid).peer_address
          /\ p.enforced_options = PeerOrNew(eid).enforced_options
      BY PeerOrNewType DEF Inv, PeerConfig
    <3>2. peer' = [peer EXCEPT ![eid] = p]
      BY <2>2 DEF SetIsEndpointV1
    <3>. HIDE DEF p
    <3>. QED  BY <2>1, <3>1, <3>2, EidsAssumption, NoneAssumption, OtherRuns DEF Inv, TypeOK
  <2>3. ASSUME NEW person \in People, SetAdmin(person) \/ SetDelegate(person)
        PROVE  RunsInv'
    BY <2>1, <2>3, OtherRuns DEF SetAdmin, SetDelegate
  <2>. QED  BY <1>6, <2>2, <2>3 DEF OtherByHandNext
<1>7. CASE UNCHANGED runs_vars
  BY <1>7, OtherRuns DEF runs_vars, vars, count_vars
<1>. QED  BY <1>1, <1>2, <1>3, <1>4, <1>5, <1>6, <1>7 DEF RunsNext

(* For any number of connections and applications, and whatever is refused,
   broken off or limited in between: two complete runs after the last change
   are enough, and the first already names the right applications. *)
THEOREM SecondRunAlwaysConfigures == RunsSpec => []SecondRunConfigures
<1>1. RunsInit => RunsInv
  <2>. SUFFICES ASSUME RunsInit PROVE RunsInv
    OBVIOUS
  <2>1. fresh = FALSE /\ completed = 0
    BY DEF RunsInit
  <2>2. completed \in 0..2 /\ ~(completed >= 1) /\ completed # 2
    BY <2>1
  <2>3. CountOK /\ SecondRunConfigures /\ FreshOK
    BY <2>1, <2>2, Zenon DEF CountOK, SecondRunConfigures, FreshOK
  <2>. QED  BY <2>3 DEF RunsInv
<1>2. RunsInv => SecondRunConfigures
  BY DEF RunsInv
<1>. QED  BY <1>1, <1>2, NextRuns, RunsSpecInv, PTL DEF RunsSpec
===============================================================================
