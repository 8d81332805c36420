----------------------------- MODULE MCPeerWiring -----------------------------
(* One connection, to an endpoint that is not the V2 endpoint of Sepolia, as
   in layerzero-devnet.config.ts, and a file that may name one of two
   applications and one of two choices of options. *)
EXTENDS PeerRuns

CONSTANTS sepolia, a1, a2, other

MCConnections == {sepolia}
MCEids == {sepolia, SepoliaV2}
MCAddresses == {a1, a2}
MCPeople == {operator, other}

MCEnforced == [send |-> [receive |-> 1, compose |-> 0], send_and_call |-> [receive |-> 2, compose |-> 0]]
MCMoreEnforced == [MCEnforced EXCEPT !.send_and_call.receive = 3]
MCConfigChoices ==
  {[address |-> a, enforced_options |-> MCEnforced] : a \in MCAddresses} \cup
  {[address |-> a1, enforced_options |-> MCMoreEnforced]}
MCExtraOptions == {None, [receive |-> 1, compose |-> 0]}
===============================================================================
