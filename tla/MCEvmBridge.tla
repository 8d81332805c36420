------------------------------ MODULE MCEvmBridge ------------------------------
(* One bridge with two remotes, on a chain that the script knows; an old library
   is the default for sending, the new one for what arrives.  As in the
   repository, the operator's file configures the libraries of the script with
   other values (y; the script sets x); they may be what LayerZero has for all. *)
EXTENDS EvmBridge

CONSTANTS sepolia, solana, base, Old, Send301, Receive301, x, y

MCGraph == {[app |-> sepolia, remote |-> solana], [app |-> sepolia, remote |-> base]}
MCLibraries == {Old, Send301, Receive301}
MCScriptConfig ==
  [send_library |-> Send301, receive_library |-> Receive301,
   executor |-> x, send_uln |-> x, receive_uln |-> x]
MCConfig ==
  [c \in MCGraph |->
     [MCScriptConfig EXCEPT !.executor = y, !.send_uln = y, !.receive_uln = y]]
MCKnown == {sepolia}

MCDefaults(send, receive, value) ==
  [key \in DefaultKeys |-> CASE key.kind = "send_library"    -> send
                             [] key.kind = "receive_library" -> receive
                             [] OTHER                        -> value]
MCInitialDefaults == {MCDefaults(Old, Receive301, y)}

(* The two remotes are treated alike. *)
MCRemotes == Permutations({solana, base})

(* Reports and messages depend on nothing of each other, nor reports on the
   bridge being enabled, nor one report on another: each is followed on its own.
   A value that could not be read is compared with nothing, so a report that
   lacks one is followed only while the defaults are as when it began. *)
MCApart ==
  \/ report = None
  \/ /\ message = None /\ active = {} /\ ~Complete
     /\ Missing \in Range(report.read) => report.changed = {}

(* LayerZero's default for sending is a library that sends, for what arrives one
   that receives, which has no executor. *)
MCProperDefaults ==
  /\ DefaultSendLibrary # Receive301
  /\ DefaultReceiveLibrary # Send301
  /\ DefaultExecutorConfig(Receive301) = y

MCBounds == MCApart /\ MCProperDefaults
===============================================================================
