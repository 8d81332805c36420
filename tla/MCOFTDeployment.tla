--------------------------- MODULE MCOFTDeployment ---------------------------
(* The deployer, one other minter, and a token that the deployer issued. *)
EXTENDS OFTDeployment

CONSTANTS deployer, minter

MCPeople == {deployer, minter}
MCIssuer == {deployer}
===============================================================================
