------------------------------- MODULE EvmBridge -------------------------------
(***************************************************************************)
(* The EVM side as the README deploys it.  The transactions that the wire  *)
(* task has for it are declined; a Forge script links the bridge contract  *)
(* to a remote instead, six transactions that may break off between any    *)
(* two of them, and the bridge is enabled.  Messages pass meanwhile, as    *)
(* soon as the contract lets them, LayerZero changes its defaults, and the *)
(* operator has config:get report what is in force, one value at a time.   *)
(*                                                                         *)
(* The slots of the chain, what is in force in them and what the tasks     *)
(* read of them are those of WireLzApp.                                    *)
(***************************************************************************)
EXTENDS WireLzApp

CONSTANTS
  KnownChains,       \* the applications on chains whose executor and DVN the script knows
  ScriptConfig,      \* the libraries and configurations it sets, the same for all
  InitialDefaults,   \* the defaults LayerZero may have set to begin with
  None

ASSUME ScriptAssumption ==
  /\ KnownChains \subseteq Apps
  /\ ScriptConfig \in ConfigType
  /\ ScriptConfig.send_library # ScriptConfig.receive_library
  /\ InitialDefaults \subseteq DefaultsType
  /\ None \notin Graph

ASSUME RemotesAssumption == \A c \in Graph : c.remote # Missing

VARIABLES
  script,     \* the connection that the script is linking and its next transaction, or None
  active,     \* the applications that are enabled
  message,    \* how the message of the last step was sent or accepted, None if it had none
  report      \* the report of config:get so far, None when there is none; with it,
              \* which of its slots were not written when it began, and which
              \* defaults have changed since

evm_vars  == <<script, active>>
wire_vars == <<pending, failures, new_defaults>>
all_vars  == <<slots, defaults, wire_vars, evm_vars, message, report>>

-------------------------------------------------------------------------------
(* ConfigureCrossChainBridge.s.sol *)

ScriptTxs_OpensFirst(c) ==
  <<RemoteTx(c),
    Tx(c, SendLibrarySlot(c.app), ScriptConfig.send_library),
    Tx(c, ReceiveLibrarySlot(c.app), ScriptConfig.receive_library),
    Tx(c, ExecutorSlot(ScriptConfig.send_library, c), ScriptConfig.executor),
    Tx(c, UlnSlot(ScriptConfig.send_library, c), ScriptConfig.send_uln),
    Tx(c, UlnSlot(ScriptConfig.receive_library, c), ScriptConfig.receive_uln)>>

(* run, whatever is in force already. *)
ScriptTxs(c) ==
  <<Tx(c, SendLibrarySlot(c.app), ScriptConfig.send_library),
    Tx(c, ReceiveLibrarySlot(c.app), ScriptConfig.receive_library),
    Tx(c, ExecutorSlot(ScriptConfig.send_library, c), ScriptConfig.executor),
    Tx(c, UlnSlot(ScriptConfig.send_library, c), ScriptConfig.send_uln),
    Tx(c, UlnSlot(ScriptConfig.receive_library, c), ScriptConfig.receive_uln),
    RemoteTx(c)>>

RunScript_SkipsFirst(c) ==
  /\ script = None
  /\ c.app \in KnownChains
  /\ script' = [of |-> c, step |-> 2]
  /\ UNCHANGED <<slots, defaults, wire_vars, active>>

(* Forge simulates the whole script first: for a chain whose executor or DVN
   it does not know nothing is sent. *)
RunScript(c) ==
  /\ script = None
  /\ c.app \in KnownChains
  /\ script' = [of |-> c, step |-> 1]
  /\ UNCHANGED <<slots, defaults, wire_vars, active>>

(* --slow: one transaction after the other. *)
SendScriptTx ==
  /\ script # None
  /\ LET tx == ScriptTxs(script.of)[script.step]
     IN  slots' = [slots EXCEPT ![tx.slot] = tx.value]
  /\ script' = IF script.step = 6 THEN None ELSE [script EXCEPT !.step = @ + 1]
  /\ UNCHANGED <<defaults, wire_vars, active>>

ScriptBreaksOff ==
  /\ script # None
  /\ failures < MaxFailures
  /\ failures' = failures + 1
  /\ script' = None
  /\ UNCHANGED <<slots, defaults, pending, new_defaults, active>>

EnableBridge(a) ==
  /\ active' = active \cup {a}
  /\ UNCHANGED <<slots, defaults, wire_vars, script>>

-------------------------------------------------------------------------------
(* Messages.  The contract (external) sends when it is enabled, sends and
   accepts where it trusts the remote; the endpoint takes the libraries of the
   application, and they the configurations in force. *)

Trusts(c) == TrustedRemote(c) = c.remote

SendOhm(c) ==
  /\ c.app \in active
  /\ Trusts(c)
  /\ LET library == SendLibrary(c)
     IN  message' = [of |-> c, library |-> library, uln |-> InForce(UlnSlot(library, c)),
                     executor |-> InForce(ExecutorSlot(library, c))]
  /\ UNCHANGED <<slots, defaults, wire_vars, script, active>>

(* What is accepted has no executor configuration. *)
ReceiveOhm(c) ==
  /\ Trusts(c)
  /\ LET library == ReceiveLibrary(c)
     IN  message' = [of |-> c, library |-> library, uln |-> InForce(UlnSlot(library, c)),
                     executor |-> Missing]
  /\ UNCHANGED <<slots, defaults, wire_vars, script, active>>

-------------------------------------------------------------------------------
(* config:get.  The values of a connection are read one after the other, the
   active ones and then the defaults; one that cannot be read is Missing.  A
   default configuration takes two reads: the version of the default library,
   then the configuration of that version. *)

DefaultSendLibrary    == defaults[[kind |-> "send_library"]]
DefaultReceiveLibrary == defaults[[kind |-> "receive_library"]]

DefaultExecutorConfig_OfSendUln301(version) == defaults[[kind |-> "executor", library |-> SendUln301]]

DefaultExecutorConfig(version) == defaults[[kind |-> "executor", library |-> version]]
DefaultSendConfig(version)     == defaults[[kind |-> "uln", library |-> version]]
DefaultReceiveConfig(version)  == defaults[[kind |-> "uln", library |-> version]]

Cells ==
  <<"executor", "send_uln", "send_library", "receive_uln", "receive_library",
    "default_receive_library", "default_send_library", "default_executor",
    "default_send_uln", "default_receive_uln">>

OfVersion == {"default_executor", "default_send_uln", "default_receive_uln"}

DefaultVersion(cell) ==
  IF cell = "default_receive_uln" THEN DefaultReceiveLibrary ELSE DefaultSendLibrary

ReadCell(cell, c, version) ==
  CASE cell = "executor"                -> ExecutorConfig(c)
    [] cell = "send_uln"                -> SendUlnConfig(c)
    [] cell = "send_library"            -> SendLibrary(c)
    [] cell = "receive_uln"             -> ReceiveUlnConfig(c)
    [] cell = "receive_library"         -> ReceiveLibrary(c)
    [] cell = "default_receive_library" -> DefaultReceiveLibrary
    [] cell = "default_send_library"    -> DefaultSendLibrary
    [] cell = "default_executor"        -> DefaultExecutorConfig(version)
    [] cell = "default_send_uln"        -> DefaultSendConfig(version)
    [] cell = "default_receive_uln"     -> DefaultReceiveConfig(version)

Complete == report # None /\ Len(report.read) = Len(Cells)

Reading(cell) == report # None /\ ~Complete /\ cell = Cells[Len(report.read) + 1]

(* The slots that the active cells show, and the trusted remote. *)
ActiveSlot(cell, c) ==
  CASE cell = "executor"        -> ExecutorSlot(SendUln301, c)
    [] cell = "send_uln"        -> UlnSlot(SendUln301, c)
    [] cell = "send_library"    -> SendLibrarySlot(c.app)
    [] cell = "receive_uln"     -> UlnSlot(ReceiveUln301, c)
    [] cell = "receive_library" -> ReceiveLibrarySlot(c.app)

ActiveCells == {"executor", "send_uln", "send_library", "receive_uln", "receive_library"}

SlotsShown(c) == {RemoteSlot(c)} \cup {ActiveSlot(cell, c) : cell \in ActiveCells}

StartReport(c) ==
  /\ report = None \/ Complete
  /\ report' = [of |-> c, read |-> <<>>, version |-> None, changed |-> {},
                unwritten |-> {slot \in SlotsShown(c) : slots[slot] = Missing}]
  /\ UNCHANGED <<slots, defaults, wire_vars, evm_vars>>

ReadVersion ==
  \E cell \in OfVersion :
    /\ Reading(cell)
    /\ report.version = None
    /\ report' = [report EXCEPT !.version = DefaultVersion(cell)]
    /\ UNCHANGED <<slots, defaults, wire_vars, evm_vars>>

Gains(value) == report' = [report EXCEPT !.read = Append(@, value), !.version = None]

ReadNext ==
  \E cell \in {Cells[i] : i \in 1..Len(Cells)} :
    /\ Reading(cell)
    /\ cell \in OfVersion => report.version # None
    /\ Gains(ReadCell(cell, report.of, report.version))
    /\ UNCHANGED <<slots, defaults, wire_vars, evm_vars>>

ReadFails ==
  /\ report # None /\ ~Complete
  /\ failures < MaxFailures
  /\ failures' = failures + 1
  /\ Gains(Missing)
  /\ UNCHANGED <<slots, defaults, pending, new_defaults, evm_vars>>

(* What has changed since a report began is kept with it. *)
NoteChange(key) ==
  report' = IF report = None THEN None ELSE [report EXCEPT !.changed = @ \cup {key}]

-------------------------------------------------------------------------------
(* The bridge is new: nothing is written, nothing enabled. *)
EvmInit ==
  /\ Init
  /\ defaults \in InitialDefaults
  /\ script = None
  /\ active = {}
  /\ message = None
  /\ report = None

MessageNext == \E c \in Graph : SendOhm(c) \/ ReceiveOhm(c)

ScriptNext ==
  \/ \E c \in Graph : RunScript(c)
  \/ SendScriptTx \/ ScriptBreaksOff
  \/ \E a \in Apps : EnableBridge(a)

ReportNext ==
  \/ \E c \in Graph : StartReport(c)
  \/ ReadVersion \/ ReadNext \/ ReadFails

LayerZeroNext ==
  /\ \E key \in DefaultKeys, value \in Libraries \cup Values :
       NewDefault(key, value) /\ NoteChange(key)
  /\ UNCHANGED evm_vars

EvmNext ==
  \/ MessageNext /\ UNCHANGED report
  \/ ScriptNext /\ UNCHANGED report /\ message' = None
  \/ ReportNext /\ message' = None
  \/ LayerZeroNext /\ message' = None

EvmSpec == EvmInit /\ [][EvmNext]_all_vars

-------------------------------------------------------------------------------
MessageType ==
  [of : Graph, library : Libraries, uln : Values, executor : Values \cup {Missing}]

(* The types, and that a run of the script has written all that precedes its
   next transaction. *)
EvmTypeOK ==
  /\ TypeOK
  /\ script \in [of : Graph, step : 1..6] \cup {None}
  /\ script # None =>
       \A i \in 1..(script.step - 1) :
         LET tx == ScriptTxs(script.of)[i]
         IN  tx.slot \notin RemoteSlots => slots[tx.slot] = tx.value
  /\ active \subseteq Apps
  /\ message \in MessageType \cup {None}
  /\ report # None =>
       /\ report \in [of : Graph, read : Seq(Libraries \cup Values \cup {Missing}),
                      version : Libraries \cup {None}, unwritten : SUBSET Slots,
                      changed : SUBSET DefaultKeys]
       /\ Len(report.read) <= Len(Cells)

(* No message is ever sent or accepted by the defaults of LayerZero: every one
   goes by the libraries, the executor and the verifiers that the script sets,
   wherever runs of it for this remote and for others broke off, and whatever
   the defaults become.  The script trusts the remote last. *)
EveryMessageIsSecured ==
  message # None =>
    IF message.executor = Missing
    THEN /\ message.library = ScriptConfig.receive_library
         /\ message.uln = ScriptConfig.receive_uln
    ELSE /\ message.library = ScriptConfig.send_library
         /\ message.executor = ScriptConfig.executor
         /\ message.uln = ScriptConfig.send_uln

(* What a report showed in a cell. *)
Reported(cell) == report.read[CHOOSE i \in 1..Len(Cells) : Cells[i] = cell]

(* The script, or LayerZero for it, has set another value since a report began
   than the default that was in force for a cell. *)
Overtaken(cell) ==
  LET slot == ActiveSlot(cell, report.of)
  IN  /\ slot \in report.unwritten
      /\ slots[slot] # Missing \/ DefaultKey(slot) \in report.changed

(* A report whose active column shows what the operator's file configures is of
   a connection that works so, all at once, though its values were read one
   after the other: unless a default that was in force gave way since it began.
   The file may configure anything, as it does: other values than the script
   sets. *)
ReportShowsWired ==
  Complete /\ Config[report.of] # Missing =>
    LET config == Config[report.of]
    IN  /\ Reported("send_library") = config.send_library
        /\ Reported("receive_library") = config.receive_library
        /\ Reported("executor") = config.executor
        /\ Reported("send_uln") = config.send_uln
        /\ Reported("receive_uln") = config.receive_uln
        => Secured(report.of) \/ \E cell \in ActiveCells : Overtaken(cell)

(* What a message of a connection goes by, cell by cell. *)
GoesBy(cell, c) ==
  CASE cell = "send_library"    -> SendLibrary(c)
    [] cell = "receive_library" -> ReceiveLibrary(c)
    [] cell = "executor"        -> InForce(ExecutorSlot(SendLibrary(c), c))
    [] cell = "send_uln"        -> InForce(UlnSlot(SendLibrary(c), c))
    [] cell = "receive_uln"     -> InForce(UlnSlot(ReceiveLibrary(c), c))

(* Of a remote that was trusted when it began, a report shows what messages
   then and now go by, whatever LayerZero changes and the script sets again, for
   this remote or for another, while it is read. *)
ReportOfTrustedHolds ==
  Complete /\ RemoteSlot(report.of) \notin report.unwritten =>
    \A cell \in ActiveCells : Reported(cell) \in {GoesBy(cell, report.of), Missing}

(* The default column shows what a connection goes by for which nothing was
   written, whichever library is the default: a cell is wrong only if LayerZero
   has changed, since the report began, the very default it shows, or which
   library that is the default of. *)
ReportShowsDefaults ==
  Complete =>
    LET c       == report.of
        send    == SendLibrary(c)
        receive == ReceiveLibrary(c)
        Shows(cell, slot, library) ==
          \/ Reported(cell) \in {InForce(slot), Missing}
          \/ {DefaultKey(slot), DefaultKey(library)} \cap report.changed # {}
    IN  (\A slot \in {SendLibrarySlot(c.app), ReceiveLibrarySlot(c.app), ExecutorSlot(send, c),
                     UlnSlot(send, c), UlnSlot(receive, c)} : slots[slot] = Missing) =>
          /\ Shows("default_send_library", SendLibrarySlot(c.app), SendLibrarySlot(c.app))
          /\ Shows("default_receive_library", ReceiveLibrarySlot(c.app), ReceiveLibrarySlot(c.app))
          /\ Shows("default_executor", ExecutorSlot(send, c), SendLibrarySlot(c.app))
          /\ Shows("default_send_uln", UlnSlot(send, c), SendLibrarySlot(c.app))
          /\ Shows("default_receive_uln", UlnSlot(receive, c), ReceiveLibrarySlot(c.app))
===============================================================================
