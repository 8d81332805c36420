----------------------------- MODULE TokenBridge -----------------------------
(***************************************************************************)
(* What the bridge promises its users: a token is at home, away, or in     *)
(* transit between the two, in a transfer of its own.  A transfer departs  *)
(* with value that leaves one side, and arrives once, with that value, on  *)
(* the other.  Nothing is said of when, or in which order.                 *)
(***************************************************************************)
EXTENDS Naturals

VARIABLES
  home,      \* the value on this chain, in shared units
  outgoing,  \* the transfers on their way out
  away,      \* the value on the other chains
  incoming   \* the transfers on their way back

vars == <<home, outgoing, away, incoming>>

Init ==
  /\ home \in Nat
  /\ outgoing = {}
  /\ away = 0
  /\ incoming = {}

(* A transfer is one element added to one of the two sets; its value leaves
   the side it departs from in the same step. *)
DepartHome ==
  \E t \in outgoing' \ outgoing :
    /\ outgoing' = outgoing \cup {t}
    /\ home' + t.amount_sd = home
    /\ UNCHANGED <<away, incoming>>

ArriveAway ==
  \E t \in outgoing :
    /\ outgoing' = outgoing \ {t}
    /\ away' = away + t.amount_sd
    /\ UNCHANGED <<home, incoming>>

DepartAway ==
  \E t \in incoming' \ incoming :
    /\ incoming' = incoming \cup {t}
    /\ away' + t.amount_sd = away
    /\ UNCHANGED <<home, outgoing>>

ArriveHome ==
  \E t \in incoming :
    /\ incoming' = incoming \ {t}
    /\ home' = home + t.amount_sd
    /\ UNCHANGED <<outgoing, away>>

Next == DepartHome \/ ArriveAway \/ DepartAway \/ ArriveHome

Spec == Init /\ [][Next]_vars
===============================================================================
