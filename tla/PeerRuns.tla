------------------------------- MODULE PeerRuns -------------------------------
(***************************************************************************)
(* PeerWiring, with a count of the runs of the wire task.  The first one   *)
(* that replaces a peer undoes its options without noticing, for it read   *)
(* them before; how many more does the operator need?                      *)
(*                                                                         *)
(* A run counts when it has sent everything it computed, or had nothing to *)
(* send, and began after the file and the options were last changed by     *)
(* hand.                                                                   *)
(***************************************************************************)
EXTENDS PeerWiring

VARIABLES
  fresh,      \* whether the last run began after the last change
  completed   \* the runs since then that counted, up to two

count_vars == <<fresh, completed>>
runs_vars  == <<vars, count_vars>>

RunsInit == Init /\ fresh = FALSE /\ completed = 0

OneMore == IF completed = 2 THEN 2 ELSE completed + 1

CountedWire ==
  /\ Wire
  /\ fresh' = TRUE
  /\ completed' = IF Transactions = {} THEN OneMore ELSE completed

CountedSendTx ==
  /\ SendTx
  /\ completed' = IF fresh /\ \E tx \in pending : pending = {tx} THEN OneMore ELSE completed
  /\ UNCHANGED fresh

CountedEdit ==
  /\ EditNext
  /\ fresh' = FALSE
  /\ completed' = 0

RunsNext ==
  \/ CountedWire
  \/ CountedSendTx
  \/ CountedEdit
  \/ /\ SendNext \/ Refused \/ BreakOff \/ RateLimitNext \/ OtherByHandNext
     /\ UNCHANGED count_vars

RunsSpec == RunsInit /\ [][RunsNext]_runs_vars

FairRunsSpec == RunsSpec /\ WF_vars(Wire) /\ WF_vars(SendTx)

-------------------------------------------------------------------------------
(* One complete run sets the addresses for good, and a second one the options
   that the first may have undone: no third is ever needed, whatever runs
   break off or are refused in between and whatever limits are set. *)
SecondRunConfigures ==
  /\ completed >= 1 => \A eid \in Connections : AddressIsSet(eid)
  /\ completed = 2 => Configured
===============================================================================
