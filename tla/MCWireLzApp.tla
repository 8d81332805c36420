----------------------------- MODULE MCWireLzApp -----------------------------
(* Graphs of the EndpointV1 side: one application with two remotes, or two
   applications, and LayerZero's defaults any that are possible. *)
EXTENDS WireRuns

CONSTANTS sepolia, mainnet, solana, base, Old, Send301, Receive301, x, y

MCWanted ==
  [send_library |-> Send301, receive_library |-> Receive301,
   executor |-> x, send_uln |-> x, receive_uln |-> y]

MCLibraries == {Old, Send301, Receive301}
(* Those below MAX_ITERATIONS of an endpoint with more libraries. *)
MCFirstLibraries == {Old, Send301}

MCTwoRemotes == {[app |-> sepolia, remote |-> solana], [app |-> sepolia, remote |-> base]}
MCTwoApps    == {[app |-> sepolia, remote |-> solana], [app |-> mainnet, remote |-> solana]}
MCWantedByAll == [c \in Graph |-> MCWanted]
(* The connection to base lacks a property. *)
MCBaseIncomplete == [c \in Graph |-> IF c.remote = base THEN Missing ELSE MCWanted]
===============================================================================
