------------------------------ MODULE WireLzApp ------------------------------
(***************************************************************************)
(* The wire task for the EndpointV1 side (tasks/common): it reads what is  *)
(* in force for every connection of the graph, computes the transactions   *)
(* that would bring it to the configured values, and sends them, one after *)
(* the other on each chain.  Any of them may fail or the task be killed,   *)
(* the defaults of LayerZero may change meanwhile, and the operator runs   *)
(* the task again.                                                         *)
(*                                                                         *)
(* What the task may write is a slot of the chains: the trusted remote of  *)
(* a connection, a library version of an application, or a configuration   *)
(* of a connection in a library.  A slot that was never written has the    *)
(* default that is in force.                                               *)
(***************************************************************************)
EXTENDS Naturals, Sequences, FiniteSets, SequencesExt

CONSTANTS
  Graph,             \* the connections, records of an application and a remote one
  Config,            \* the OAppEdgeConfig of each, Missing when a property of it is absent
  Missing,           \* neither a configuration nor a value
  Libraries,         \* the message libraries of the endpoint
  Found,             \* those that getLibraryIndex finds
  SendUln301,        \* the two libraries whose configuration the task reads
  ReceiveUln301,
  Values,            \* the executor and ULN configurations
  MaxFailures,       \* bound on the failed sends and killed tasks
  MaxNewDefaults     \* bound on the changes LayerZero makes to its defaults

ConfigType == [send_library : Libraries, receive_library : Libraries,
               executor : Values, send_uln : Values, receive_uln : Values]

ASSUME WireConfigAssumption ==
  /\ IsFiniteSet(Graph)
  /\ Missing \notin ConfigType \cup Libraries \cup Values
  /\ Config \in [Graph -> ConfigType \cup {Missing}]
  /\ Found \subseteq Libraries
  /\ {SendUln301, ReceiveUln301} \subseteq Libraries

(* A library version belongs to the application, so the connections of one
   application cannot be wired to different libraries. *)
ASSUME SharedLibrariesAssumption ==
  \A c, d \in Graph :
    c.app = d.app /\ Config[c] # Missing /\ Config[d] # Missing =>
      /\ Config[c].send_library = Config[d].send_library
      /\ Config[c].receive_library = Config[d].receive_library

ASSUME WireBoundsAssumption == MaxFailures \in Nat /\ MaxNewDefaults \in Nat

Apps == {c.app : c \in Graph}

VARIABLES
  slots,         \* what was written to each slot, Missing if nothing was
  defaults,      \* the defaults LayerZero has set
  pending,       \* the transactions still to send, by application
  failures,      \* sends that failed and tasks that were killed
  new_defaults   \* changes of the defaults

vars == <<slots, defaults, pending, failures, new_defaults>>

-------------------------------------------------------------------------------
(* Slots *)

RemoteSlot(c)         == [kind |-> "remote", of |-> c]
SendLibrarySlot(a)    == [kind |-> "send_library", of |-> a]
ReceiveLibrarySlot(a) == [kind |-> "receive_library", of |-> a]
ExecutorSlot(lib, c)  == [kind |-> "executor", library |-> lib, of |-> c]
UlnSlot(lib, c)       == [kind |-> "uln", library |-> lib, of |-> c]

LibrarySlots == {SendLibrarySlot(a) : a \in Apps} \cup {ReceiveLibrarySlot(a) : a \in Apps}

ConfigSlots ==
  {ExecutorSlot(lib, c) : lib \in Libraries, c \in Graph}
    \cup {UlnSlot(lib, c) : lib \in Libraries, c \in Graph}

RemoteSlots == {RemoteSlot(c) : c \in Graph}

Slots == RemoteSlots \cup LibrarySlots \cup ConfigSlots

(* The default of a library slot is that of the endpoint, the default of a
   configuration that of its library; a trusted remote has none. *)
DefaultKeys ==
  {[kind |-> "send_library"], [kind |-> "receive_library"]}
    \cup [kind : {"executor", "uln"}, library : Libraries]

DefaultKey(slot) ==
  IF slot \in LibrarySlots THEN [kind |-> slot.kind]
                           ELSE [kind |-> slot.kind, library |-> slot.library]

DefaultsType ==
  {d \in [DefaultKeys -> Libraries \cup Values] :
     \A key \in DefaultKeys : d[key] \in IF key.kind \in {"send_library", "receive_library"}
                                         THEN Libraries ELSE Values}

InForce(slot) ==
  IF slots[slot] # Missing \/ slot \in RemoteSlots
  THEN slots[slot]
  ELSE defaults[DefaultKey(slot)]

-------------------------------------------------------------------------------
(* What the task reads.  A configuration is read from the two libraries that
   the deployments name, whichever library is in use. *)

TrustedRemote(c)  == InForce(RemoteSlot(c))
SendLibrary(c)    == InForce(SendLibrarySlot(c.app))
ReceiveLibrary(c) == InForce(ReceiveLibrarySlot(c.app))
ExecutorConfig(c) == InForce(ExecutorSlot(SendUln301, c))

SendUlnConfig(c) == InForce(UlnSlot(SendUln301, c))

ReceiveUlnConfig_OfSendUln301(c) == InForce(UlnSlot(SendUln301, c))

ReceiveUlnConfig(c) == InForce(UlnSlot(ReceiveUln301, c))

-------------------------------------------------------------------------------
(* What it would send.  A transaction writes one slot of one application. *)

Tx(c, slot, value) == [app |-> c.app, slot |-> slot, value |-> value]

RemoteTx_OfTheFirst(c) ==
  Tx(c, RemoteSlot(c), (CHOOSE d \in Graph : d.app = c.app).remote)

RemoteTx(c) == Tx(c, RemoteSlot(c), c.remote)

(* setSendLibrary and setReceiveLibrary give nothing to send for a library
   that is not found. *)
LibraryTxs(c, slot, library) ==
  IF library \in Found THEN <<Tx(c, slot, library)>> ELSE <<>>

ExecutorTx(c) ==
  Tx(c, ExecutorSlot(Config[c].send_library, c), Config[c].executor)

UlnTxs_SendOnly(c) ==
  <<Tx(c, UlnSlot(Config[c].send_library, c), Config[c].send_uln)>>

UlnTxs_OneLibrary(c) ==
  <<Tx(c, UlnSlot(Config[c].send_library, c), Config[c].send_uln),
    Tx(c, UlnSlot(Config[c].send_library, c), Config[c].receive_uln)>>

UlnTxs(c) ==
  <<Tx(c, UlnSlot(Config[c].send_library, c), Config[c].send_uln),
    Tx(c, UlnSlot(Config[c].receive_library, c), Config[c].receive_uln)>>

UlnDiffers_SendOnly(c) == SendUlnConfig(c) # Config[c].send_uln

UlnDiffers(c) ==
  \/ SendUlnConfig(c) # Config[c].send_uln
  \/ ReceiveUlnConfig(c) # Config[c].receive_uln

ExecutorDiffers(c) == ExecutorConfig(c) # Config[c].executor

(* Encoding a setConfig for a library that is not found throws, and with it
   the whole task. *)
Throws(c) ==
  /\ Config[c] # Missing
  /\ \/ ExecutorDiffers(c) /\ Config[c].send_library \notin Found
     \/ UlnDiffers(c) /\ {Config[c].send_library, Config[c].receive_library} \ Found # {}

If(condition, txs) == IF condition THEN txs ELSE <<>>

(* configureLzAppGraph, for one connection; one whose configuration lacks a
   property is passed over. *)
Transactions(c) ==
  IF Config[c] = Missing THEN <<>> ELSE
    If(TrustedRemote(c) # c.remote, <<RemoteTx(c)>>)
    \o If(SendLibrary(c) # Config[c].send_library,
          LibraryTxs(c, SendLibrarySlot(c.app), Config[c].send_library))
    \o If(ReceiveLibrary(c) # Config[c].receive_library,
          LibraryTxs(c, ReceiveLibrarySlot(c.app), Config[c].receive_library))
    \o If(ExecutorDiffers(c), <<ExecutorTx(c)>>)
    \o If(UlnDiffers(c), UlnTxs(c))

(* The transactions of an application, in the order of its connections. *)
TransactionsOf(a) ==
  LET connections == SetToSeq({c \in Graph : c.app = a})
  IN  FlattenSeq([i \in 1..Len(connections) |-> Transactions(connections[i])])

NothingToDo == \A c \in Graph : Transactions(c) = <<>>

-------------------------------------------------------------------------------
Idle == \A a \in Apps : pending[a] = <<>>

Init ==
  /\ slots \in [Slots -> {Missing}]
  /\ defaults \in DefaultsType
  /\ pending = [a \in Apps |-> <<>>]
  /\ failures = 0
  /\ new_defaults = 0

(* Everything is read before anything is sent.  A connection that throws
   leaves all of them unsent. *)
Configure ==
  /\ Idle
  /\ ~NothingToDo
  /\ \A c \in Graph : ~Throws(c)
  /\ pending' = [a \in Apps |-> TransactionsOf(a)]
  /\ UNCHANGED <<slots, defaults, failures, new_defaults>>

(* createSignAndSendFlow (external): the transactions of each chain in their
   order, the chains side by side. *)
SendTx(a) ==
  /\ pending[a] # <<>>
  /\ slots' = [slots EXCEPT ![Head(pending[a]).slot] = Head(pending[a]).value]
  /\ pending' = [pending EXCEPT ![a] = Tail(@)]
  /\ UNCHANGED <<defaults, failures, new_defaults>>

(* A transaction that fails takes with it those that were to follow it on its
   chain. *)
SendFails(a) ==
  /\ pending[a] # <<>>
  /\ failures < MaxFailures
  /\ pending' = [pending EXCEPT ![a] = <<>>]
  /\ failures' = failures + 1
  /\ UNCHANGED <<slots, defaults, new_defaults>>

Killed ==
  /\ ~Idle
  /\ failures < MaxFailures
  /\ pending' = [a \in Apps |-> <<>>]
  /\ failures' = failures + 1
  /\ UNCHANGED <<slots, defaults, new_defaults>>

(* LayerZero changes a default (external). *)
NewDefault(key, value) ==
  /\ new_defaults < MaxNewDefaults
  /\ value # defaults[key]
  /\ [defaults EXCEPT ![key] = value] \in DefaultsType
  /\ defaults' = [defaults EXCEPT ![key] = value]
  /\ new_defaults' = new_defaults + 1
  /\ UNCHANGED <<slots, pending, failures>>

Next ==
  \/ Configure
  \/ \E a \in Apps : SendTx(a) \/ SendFails(a)
  \/ Killed
  \/ \E key \in DefaultKeys, value \in Libraries \cup Values : NewDefault(key, value)

Spec == Init /\ [][Next]_vars

(* The operator runs the task again as long as it has something to send, and
   the chains execute what is sent to them. *)
FairSpec ==
  Spec /\ WF_vars(Configure) /\ \A a \in Apps : WF_vars(SendTx(a))

-------------------------------------------------------------------------------
(* A trusted remote is written with the remote of its own connection, a
   library version with a library and a configuration with a configuration,
   and every transaction waits for the application it configures. *)
TypeOK ==
  /\ slots \in [Slots -> {Missing} \cup {c.remote : c \in Graph} \cup Libraries \cup Values]
  /\ \A slot \in RemoteSlots : slots[slot] \in {slot.of.remote, Missing}
  /\ \A slot \in LibrarySlots : slots[slot] \in Libraries \cup {Missing}
  /\ \A slot \in ConfigSlots : slots[slot] \in Values \cup {Missing}
  /\ defaults \in DefaultsType
  /\ \A a \in Apps : \A i \in 1..Len(pending[a]) : pending[a][i].app = a
  /\ failures \in 0..MaxFailures
  /\ new_defaults \in 0..MaxNewDefaults

(* The connection works as configured: through the libraries that are named,
   and with the configuration that is in force in those very libraries. *)
Secured(c) ==
  LET send == SendLibrary(c)
      receive == ReceiveLibrary(c)
  IN  /\ send = Config[c].send_library
      /\ receive = Config[c].receive_library
      /\ InForce(ExecutorSlot(send, c)) = Config[c].executor
      /\ InForce(UlnSlot(send, c)) = Config[c].send_uln
      /\ InForce(UlnSlot(receive, c)) = Config[c].receive_uln

Wired(c) == TrustedRemote(c) = c.remote /\ Secured(c)

AllWired == \A c \in Graph : Config[c] # Missing => Wired(c)

(* "The LzApp is wired, no action is necessary" (wire.ts): the task has
   nothing to send exactly when every complete connection is wired, however
   often and wherever earlier runs broke off, and whatever the defaults. *)
NoActionMeansWired == NothingToDo <=> AllWired

(* The same message, of any run that logs it. *)
SaysWiredOnlyIfWired == NothingToDo => AllWired

(* No run undoes what was sent, by itself, by an earlier one that broke off,
   or for another connection of the same application: once written, a slot
   keeps its value. *)
SentIsNotUndone ==
  [][\A slot \in Slots : slots[slot] # Missing => slots'[slot] = slots[slot]]_vars

(* Runs that break off anywhere are completed by later ones: what was sent is
   not undone, what was not is sent. *)
RerunsConverge == <>[]AllWired
===============================================================================
