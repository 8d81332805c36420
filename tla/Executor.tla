------------------------------- MODULE Executor -------------------------------
(***************************************************************************)
(* The bridge with the executor that delivers to it.  lz_receive needs its *)
(* accounts beforehand, so the executor first asks lz_receive_types for    *)
(* them, and sends the transaction later: what was listed may no longer be *)
(* what lz_receive asks for.                                               *)
(***************************************************************************)
EXTENDS Bridge

VARIABLE listed   \* the accounts last listed for each message the executor asked about

executor_vars == <<bridge_vars, listed>>

ListedAmount_BeforeFee(amount_ld) == amount_ld

(* The amount in the compose message whose account is listed. *)
ListedAmount(amount_ld) ==
  IF OftType = "Native" THEN amount_ld ELSE PostFeeAmount(transfer_fee, amount_ld)

(* The accounts that depend on the state: the mint authority, and the account
   of the compose message, which is derived from its contents.  The others
   follow from the message. *)
Accounts(m) ==
  [mint_authority |-> mint_authority,
   composed_ld    |-> IF m.compose THEN ListedAmount(Sd2ld(m.amount_sd)) ELSE None]

LzReceiveTypes(m) ==
  /\ m \in inbox \ cleared
  /\ m.compose => Sd2ld(m.amount_sd) <= U64Max
  /\ listed' = [n \in DOMAIN listed \cup {m} |-> IF n = m THEN Accounts(m) ELSE listed[n]]
  /\ UNCHANGED bridge_vars

(* The transaction with the listed accounts.  It fails, and changes nothing,
   when the compose message is not the one whose account was listed. *)
Execute(m) ==
  /\ LzReceive(m, listed[m].mint_authority)
  /\ m.compose => listed[m].composed_ld = ComposedAmount(Sd2ld(m.amount_sd))
  /\ UNCHANGED <<remote_vars, listed>>

(* lz:oft:solana:clear, by anyone, for any message: it lists the accounts and
   executes, and succeeds when they are still what lz_receive asks for. *)
ClearPayload(m) == LzReceive(m, mint_authority)

-------------------------------------------------------------------------------
ListFrom(address) == \E m \in inbox : m.sender = address /\ LzReceiveTypes(m)

ExecuteFrom(address) == \E m \in DOMAIN listed : m.sender = address /\ Execute(m)

ExecutorNext == \E address \in Addresses : ListFrom(address) \/ ExecuteFrom(address)

(* Everything but the executor. *)
OthersNext ==
  \/ /\ \/ SendNext
        \/ StoreConfigNext
        \/ PeerConfigNext
        \/ WithdrawNext
        \/ TokenNext
        \/ Tick
        \/ \E m \in inbox : ClearPayload(m)
     /\ UNCHANGED remote_vars
  \/ RemoteReceiveNext
  \/ RemoteSendNext
  \/ VerifyReturning

ExecutorInit == BridgeInit /\ listed = <<>>

ExecutorSpec ==
  ExecutorInit /\ [][ExecutorNext \/ (OthersNext /\ UNCHANGED listed)]_executor_vars

(* LayerZero delivers: its verifiers do not stop, and its executor asks again
   for accounts that have changed, and retries a message whose execution
   failed, whatever its sender.  Nobody is obliged to send. *)
DeliveryFairness ==
  /\ WF_executor_vars(RemoteReceiveNext /\ UNCHANGED listed)
  /\ WF_executor_vars(VerifyReturning /\ UNCHANGED listed)
  /\ \A address \in Addresses :
       WF_executor_vars(ListFrom(address)) /\ SF_executor_vars(ExecuteFrom(address))

FairExecutorSpec == ExecutorSpec /\ DeliveryFairness

-------------------------------------------------------------------------------
(* Nothing but these holds back the verified messages of an application: a
   pause, a peer account that does not name it, a mint authority the store is
   no part of. *)
OpenTo(address) ==
  /\ ~store.paused
  /\ \A eid \in Eids : peer[eid] # None /\ peer[eid].peer_address = address
  /\ OftType = "Native" => mint_authority \in StoreMints

(* Open for good, or open again and again while the token's transfer fee has
   settled.  With a fee that always changes just before the bridge opens, the
   accounts listed in between are always stale. *)
OpenEnough(address) ==
  \/ <>[]OpenTo(address)
  \/ []<>OpenTo(address) /\ <>[][UNCHANGED transfer_fee]_vars

(* If the bridge is open enough to an application, every message it sends is
   executed: none is lost to a pause, to a peer that was replaced and put
   back, to a transfer fee that changed since its accounts were listed, or to
   a failed attempt; none is stuck behind another, and no redemption runs
   into the checked subtraction from tvl_ld. *)
OpenBridgeDelivers ==
  \A address \in Addresses :
    OpenEnough(address) => []<>(\A m \in returning \ cleared : m.sender # address)
===============================================================================
