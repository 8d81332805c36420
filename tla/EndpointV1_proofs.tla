-------------------------- MODULE EndpointV1_proofs ---------------------------
(***************************************************************************)
(* The EndpointV1 side, for any graph, any libraries and configurations.   *)
(*                                                                         *)
(* The wire task has nothing to send exactly when everything is wired, in  *)
(* any state of the chains, provided the libraries that are configured are *)
(* those the task reads, and can be found.  Whatever any of its runs sends *)
(* for a slot is one value, so no run undoes another's; and of what a run  *)
(* finds to do, all is done or still to be sent (RunOK), so one complete   *)
(* run wires everything, in whatever order the chains execute it.          *)
(*                                                                         *)
(* The script never lets a message go by the defaults of LayerZero, for    *)
(* any number of bridges and remotes and of runs that break off.  Every    *)
(* value that it writes to a slot is the one value it ever writes there    *)
(* (ScriptValue), so what a run has written, no other run undoes, and a    *)
(* remote is trusted only once all of its slots are written.               *)
(*                                                                         *)
(* What a report says was true value by value.  A slot keeps what the      *)
(* script has written to it, so a value can be wrong later only where      *)
(* nothing was written when the report began (ActiveOK); a remote that was *)
(* trusted then had everything written (TrustedOK); and a default is       *)
(* wrong only if that very default has changed, or the default library     *)
(* (DefaultOK).                                                            *)
(***************************************************************************)
EXTENDS EvmBridge, WireRuns, SequenceTheorems, FiniteSetTheorems, WellFoundedInduction, TLAPS

-------------------------------------------------------------------------------
(* The wire task *)

(* What layerzero-devnet.config.ts configures: the libraries of the
   deployments, among the first that getLibraryIndex looks at. *)
ConfiguresWhatIsRead ==
  \A c \in Graph : Config[c] # Missing =>
    /\ Config[c].send_library = SendUln301 /\ SendUln301 \in Found
    /\ Config[c].receive_library = ReceiveUln301 /\ ReceiveUln301 \in Found

(* Two sequences are nothing together when each is nothing. *)
LEMMA NothingTogether ==
  ASSUME NEW S, NEW s \in Seq(S), NEW t \in Seq(S)
  PROVE  /\ s \o t \in Seq(S)
         /\ s \o t = <<>> <=> s = <<>> /\ t = <<>>
<1>1. s \o t \in Seq(S) /\ Len(s \o t) = Len(s) + Len(t)
  BY ConcatProperties
<1>2. \A u \in Seq(S) : u = <<>> <=> Len(u) = 0
  BY EmptySeq
<1>3. Len(s) \in Nat /\ Len(t) \in Nat
  BY LenProperties
<1>. QED  BY <1>1, <1>2, <1>3

(* What is sent only if needed is nothing when it is not needed. *)
LEMMA SentIfNeeded ==
  ASSUME NEW S, NEW condition \in BOOLEAN, NEW txs \in Seq(S), txs # <<>>
  PROVE  /\ If(condition, txs) \in Seq(S)
         /\ If(condition, txs) = <<>> <=> ~condition
<1>1. CASE condition
  BY <1>1 DEF If
<1>2. CASE ~condition
  BY <1>2, EmptySeq DEF If
<1>. QED  BY <1>1, <1>2

(* A connection needs no transaction when the five values that are read, and
   its trusted remote, are those configured. *)
LEMMA NothingToSend ==
  ASSUME NEW c \in Graph, Config[c] # Missing, ConfiguresWhatIsRead
  PROVE  Transactions(c) = <<>> <=>
           /\ TrustedRemote(c) = c.remote
           /\ SendLibrary(c) = Config[c].send_library
           /\ ReceiveLibrary(c) = Config[c].receive_library
           /\ ~ExecutorDiffers(c)
           /\ ~UlnDiffers(c)
<1>. DEFINE send    == Tx(c, SendLibrarySlot(c.app), Config[c].send_library)
            receive == Tx(c, ReceiveLibrarySlot(c.app), Config[c].receive_library)
            uln1    == Tx(c, UlnSlot(Config[c].send_library, c), Config[c].send_uln)
            uln2    == Tx(c, UlnSlot(Config[c].receive_library, c), Config[c].receive_uln)
            remote  == RemoteTx(c)
            exec    == ExecutorTx(c)
            S == {remote, send, receive, exec, uln1, uln2}
            p1 == If(TrustedRemote(c) # c.remote, <<remote>>)
            p2 == If(SendLibrary(c) # Config[c].send_library, <<send>>)
            p3 == If(ReceiveLibrary(c) # Config[c].receive_library, <<receive>>)
            p4 == If(ExecutorDiffers(c), <<exec>>)
            p5 == If(UlnDiffers(c), <<uln1, uln2>>)
<1>1. /\ LibraryTxs(c, SendLibrarySlot(c.app), Config[c].send_library) = <<send>>
      /\ LibraryTxs(c, ReceiveLibrarySlot(c.app), Config[c].receive_library) = <<receive>>
      /\ UlnTxs(c) = <<uln1, uln2>>
  BY DEF LibraryTxs, ConfiguresWhatIsRead, UlnTxs
<1>2. Transactions(c) = p1 \o p2 \o p3 \o p4 \o p5
  BY <1>1 DEF Transactions
<1>. HIDE DEF send, receive, uln1, uln2, remote, exec
<1>3. /\ <<remote>> \in Seq(S) /\ <<send>> \in Seq(S) /\ <<receive>> \in Seq(S)
      /\ <<exec>> \in Seq(S) /\ <<uln1, uln2>> \in Seq(S)
      /\ <<remote>> # <<>> /\ <<send>> # <<>> /\ <<receive>> # <<>>
      /\ <<exec>> # <<>> /\ <<uln1, uln2>> # <<>>
  OBVIOUS
<1>. HIDE DEF S
<1>4. p1 \in Seq(S) /\ (p1 = <<>> <=> TrustedRemote(c) = c.remote)
  BY <1>3, SentIfNeeded
<1>5. p2 \in Seq(S) /\ (p2 = <<>> <=> SendLibrary(c) = Config[c].send_library)
  BY <1>3, SentIfNeeded
<1>6. p3 \in Seq(S) /\ (p3 = <<>> <=> ReceiveLibrary(c) = Config[c].receive_library)
  BY <1>3, SentIfNeeded
<1>7. p4 \in Seq(S) /\ (p4 = <<>> <=> ~ExecutorDiffers(c))
  BY <1>3, SentIfNeeded DEF ExecutorDiffers
<1>8. p5 \in Seq(S) /\ (p5 = <<>> <=> ~UlnDiffers(c))
  BY <1>3, SentIfNeeded DEF UlnDiffers
<1>. HIDE DEF p1, p2, p3, p4, p5
<1>9. Transactions(c) = <<>> <=> p1 = <<>> /\ p2 = <<>> /\ p3 = <<>> /\ p4 = <<>> /\ p5 = <<>>
  <2>1. p1 \o p2 \in Seq(S) /\ (p1 \o p2 = <<>> <=> p1 = <<>> /\ p2 = <<>>)
    BY <1>4, <1>5, NothingTogether
  <2>2. /\ p1 \o p2 \o p3 \in Seq(S)
        /\ p1 \o p2 \o p3 = <<>> <=> p1 \o p2 = <<>> /\ p3 = <<>>
    BY <1>6, <2>1, NothingTogether
  <2>3. /\ p1 \o p2 \o p3 \o p4 \in Seq(S)
        /\ p1 \o p2 \o p3 \o p4 = <<>> <=> p1 \o p2 \o p3 = <<>> /\ p4 = <<>>
    BY <1>7, <2>2, NothingTogether
  <2>4. p1 \o p2 \o p3 \o p4 \o p5 = <<>> <=> p1 \o p2 \o p3 \o p4 = <<>> /\ p5 = <<>>
    BY <1>8, <2>3, NothingTogether
  <2>. QED  BY <1>2, <2>1, <2>2, <2>3, <2>4
<1>. QED  BY <1>4, <1>5, <1>6, <1>7, <1>8, <1>9

(* The configurations that are read are those in force in the libraries in
   use, once these are the configured ones. *)
LEMMA ReadIsInForce ==
  ASSUME NEW c \in Graph, Config[c] # Missing, ConfiguresWhatIsRead
  PROVE  Transactions(c) = <<>> <=> Wired(c)
<1>1. /\ Config[c].send_library = SendUln301
      /\ Config[c].receive_library = ReceiveUln301
  BY DEF ConfiguresWhatIsRead
<1>2. Secured(c) <=>
        /\ SendLibrary(c) = Config[c].send_library
        /\ ReceiveLibrary(c) = Config[c].receive_library
        /\ ~ExecutorDiffers(c)
        /\ ~UlnDiffers(c)
  BY <1>1 DEF Secured, ExecutorDiffers, UlnDiffers, ExecutorConfig, SendUlnConfig, ReceiveUlnConfig
<1>. QED  BY <1>2, NothingToSend DEF Wired

(* The wire task says that no action is necessary exactly when every complete
   connection is wired, in every state that failures, reruns and new defaults
   may leave behind; so it is only with other libraries, or with libraries
   that are not found, that its message can be wrong. *)
THEOREM NothingToDoMeansWired ==
  ASSUME ConfiguresWhatIsRead
  PROVE  Spec => []NoActionMeansWired
<1>1. NoActionMeansWired
  <2>1. ASSUME NEW c \in Graph
        PROVE  Transactions(c) = <<>> <=> (Config[c] # Missing => Wired(c))
    BY <2>1, ReadIsInForce DEF Transactions
  <2>. QED  BY <2>1 DEF NoActionMeansWired, NothingToDo, AllWired
<1>. QED  BY <1>1, PTL

-------------------------------------------------------------------------------
(* Lists of transactions *)

(* What holds of 0, and of k + 1 whenever it holds of k, holds of every
   number. *)
LEMMA NumberInduction ==
  ASSUME NEW G, 0 \in G, \A k \in Nat : k \in G => k + 1 \in G
  PROVE  \A k \in Nat : k \in G
<1>. DEFINE B == {k \in Nat : k \notin G}
<1>. SUFFICES ASSUME B # {} PROVE FALSE
  OBVIOUS
<1>1. B \subseteq Nat
  OBVIOUS
<1>. HIDE DEF B
<1>2. PICK k \in B : \A j \in B : ~(<<j, k>> \in OpToRel(<, Nat))
  BY <1>1, NatLessThanWellFounded, WFMin
<1>3. k \in Nat /\ k \notin G /\ k # 0
  BY <1>2 DEF B
<1>4. k - 1 \in Nat /\ (k - 1) + 1 = k /\ k - 1 < k
  BY <1>3
<1>5. k - 1 \in B
  BY <1>3, <1>4 DEF B
<1>6. <<k - 1, k>> \in OpToRel(<, Nat)
  BY <1>3, <1>4 DEF OpToRel
<1>. QED  BY <1>2, <1>5, <1>6

(* A finite set can be listed, and its list is of its members. *)
LEMMA ListOfMembers ==
  ASSUME NEW S, IsFiniteSet(S)
  PROVE  SetToSeq(S) \in Seq(S)
<1>1. /\ Cardinality(S) \in Nat
      /\ \E f \in [1..Cardinality(S) -> S] : IsInjective(f)
  BY FS_CardinalityType DEF ExistsBijection, Bijection, Injection
<1>2. SetToSeq(S) \in [1..Cardinality(S) -> S]
  BY <1>1 DEF SetToSeq
<1>. QED  BY <1>1, <1>2

(* The function by which FlattenSeq is defined, over the first k parts. *)
Flattens(f, seqs, k) ==
  f = [i \in 1..k |-> IF i = 1 THEN seqs[i] ELSE f[i - 1] \o seqs[i]]

LEMMA FlattensExists ==
  ASSUME NEW seqs, NEW n \in Nat
  PROVE  \E f : Flattens(f, seqs, n)
<1>. DEFINE G == {k \in Nat : \E f : Flattens(f, seqs, k)}
<1>1. 0 \in G
  <2>1. 1..0 = {}
    OBVIOUS
  <2>. DEFINE f == [i \in {} |-> seqs[i]]
  <2>2. f = [i \in {} |-> IF i = 1 THEN seqs[i] ELSE f[i - 1] \o seqs[i]]
    OBVIOUS
  <2>. HIDE DEF f
  <2>3. Flattens(f, seqs, 0)
    BY <2>1, <2>2 DEF Flattens
  <2>. QED  BY <2>3
<1>2. ASSUME NEW k \in Nat, k \in G PROVE k + 1 \in G
  <2>1. PICK f : Flattens(f, seqs, k)
    BY <1>2
  <2>. DEFINE next == [i \in 1..(k + 1) |-> IF i = 1 THEN seqs[i] ELSE f[i - 1] \o seqs[i]]
  <2>2. ASSUME NEW i \in 1..k PROVE next[i] = f[i]
    <3>1. f[i] = IF i = 1 THEN seqs[i] ELSE f[i - 1] \o seqs[i]
      BY <2>1 DEF Flattens
    <3>. QED  BY <3>1
  <2>3. ASSUME NEW i \in 1..(k + 1), i # 1 PROVE next[i - 1] = f[i - 1]
    <3>1. i - 1 \in 1..k
      BY <2>3
    <3>. QED  BY <2>2, <3>1
  <2>4. next = [i \in 1..(k + 1) |-> IF i = 1 THEN seqs[i] ELSE next[i - 1] \o seqs[i]]
    BY <2>3
  <2>. HIDE DEF next
  <2>5. Flattens(next, seqs, k + 1)
    BY <2>4 DEF Flattens
  <2>. QED  BY <2>5
<1>. HIDE DEF G
<1>3. n \in G
  BY <1>1, <1>2, NumberInduction
<1>. QED  BY <1>3 DEF G

(* Sequences of the same kind of transactions, one after the other, are a
   sequence of that kind. *)
LEMMA FlattenedMembers ==
  ASSUME NEW T, NEW n \in Nat, NEW seqs \in [1..n -> Seq(T)]
  PROVE  FlattenSeq(seqs) \in Seq(T)
<1>0. seqs \in Seq(Seq(T)) /\ Len(seqs) = n
  OBVIOUS
<1>1. CASE n = 0
  BY <1>0, <1>1, EmptySeq DEF FlattenSeq
<1>2. CASE n # 0
  <2>. DEFINE flatten == CHOOSE f : Flattens(f, seqs, n)
  <2>1. FlattenSeq(seqs) = flatten[n]
    BY <1>0, <1>2 DEF FlattenSeq, Flattens
  <2>2. Flattens(flatten, seqs, n)
    BY FlattensExists
  <2>. HIDE DEF flatten
  <2>. DEFINE G == {k \in Nat : k + 1 <= n => flatten[k + 1] \in Seq(T)}
  <2>3. 0 \in G
    BY <1>2, <2>2 DEF Flattens
  <2>4. ASSUME NEW k \in Nat, k \in G PROVE k + 1 \in G
    <3>. SUFFICES ASSUME k + 2 <= n PROVE flatten[k + 2] \in Seq(T)
      OBVIOUS
    <3>1. flatten[k + 1] \in Seq(T)
      BY <2>4
    <3>2. k + 2 \in 1..n /\ k + 2 # 1 /\ (k + 2) - 1 = k + 1
      OBVIOUS
    <3>3. flatten[k + 2] = flatten[k + 1] \o seqs[k + 2]
      BY <2>2, <3>2 DEF Flattens
    <3>4. seqs[k + 2] \in Seq(T)
      BY <3>2
    <3>. QED  BY <3>1, <3>3, <3>4, ConcatProperties
  <2>. HIDE DEF G
  <2>5. \A k \in Nat : k \in G
    BY <2>3, <2>4, NumberInduction
  <2>6. n - 1 \in Nat /\ (n - 1) + 1 = n /\ n <= n
    BY <1>2
  <2>. QED  BY <2>1, <2>5, <2>6 DEF G
<1>. QED  BY <1>1, <1>2

-------------------------------------------------------------------------------
(* The type invariant of the wire task *)

(* What a run can have to send for a complete connection. *)
TxsFor(c) ==
  {RemoteTx(c),
   Tx(c, SendLibrarySlot(c.app), Config[c].send_library),
   Tx(c, ReceiveLibrarySlot(c.app), Config[c].receive_library),
   ExecutorTx(c),
   Tx(c, UlnSlot(Config[c].send_library, c), Config[c].send_uln),
   Tx(c, UlnSlot(Config[c].receive_library, c), Config[c].receive_uln)}

MaySend(a) == UNION {TxsFor(c) : c \in {d \in Graph : d.app = a /\ Config[d] # Missing}}

AllValues == {c.remote : c \in Graph} \cup Libraries \cup Values

(* Whatever the wire task waits to send, or has sent, is for a slot of the
   chains and of the kind of that slot. *)
WireInv ==
  /\ slots \in [Slots -> {Missing} \cup AllValues]
  /\ \A slot \in Slots :
       slots[slot] # Missing =>
         \E a \in Apps : \E t \in MaySend(a) : t.slot = slot /\ t.value = slots[slot]
  /\ defaults \in DefaultsType
  /\ pending \in [Apps -> UNION {Seq(MaySend(a)) : a \in Apps}]
  /\ \A a \in Apps : pending[a] \in Seq(MaySend(a))
  /\ failures \in 0..MaxFailures
  /\ new_defaults \in 0..MaxNewDefaults

(* A transaction is of the application it waits for, writes one of the slots,
   and what it writes fits the slot. *)
LEMMA TxFits ==
  ASSUME NEW a, NEW t \in MaySend(a)
  PROVE  /\ t.app = a
         /\ t.slot \in Slots
         /\ t.value \in AllValues
         /\ t.slot \in RemoteSlots => t.value = t.slot.of.remote
         /\ t.slot \in LibrarySlots => t.value \in Libraries
         /\ t.slot \in ConfigSlots => t.value \in Values
<1>1. PICK c \in Graph : c.app = a /\ Config[c] # Missing /\ t \in TxsFor(c)
  BY DEF MaySend
<1>2. c.app \in Apps /\ Config[c] \in ConfigType
  BY <1>1, WireConfigAssumption DEF Apps
<1>3. /\ Config[c].send_library \in Libraries /\ Config[c].receive_library \in Libraries
      /\ Config[c].executor \in Values /\ Config[c].send_uln \in Values
      /\ Config[c].receive_uln \in Values
  BY <1>2 DEF ConfigType
<1>4. /\ RemoteSlot(c) \in RemoteSlots
      /\ SendLibrarySlot(c.app) \in LibrarySlots /\ ReceiveLibrarySlot(c.app) \in LibrarySlots
      /\ ExecutorSlot(Config[c].send_library, c) \in ConfigSlots
      /\ UlnSlot(Config[c].send_library, c) \in ConfigSlots
      /\ UlnSlot(Config[c].receive_library, c) \in ConfigSlots
  BY <1>2, <1>3 DEF RemoteSlots, LibrarySlots, ConfigSlots
<1>5. \A slot \in RemoteSlots : slot.kind = "remote"
  BY DEF RemoteSlots, RemoteSlot
<1>6. \A slot \in LibrarySlots : slot.kind \in {"send_library", "receive_library"}
  BY DEF LibrarySlots, SendLibrarySlot, ReceiveLibrarySlot
<1>7. \A slot \in ConfigSlots : slot.kind \in {"executor", "uln"}
  BY DEF ConfigSlots, ExecutorSlot, UlnSlot
<1>8. t.app = a
  BY <1>1 DEF TxsFor, RemoteTx, ExecutorTx, Tx
<1>9. CASE t.slot \in RemoteSlots
  <2>1. t = RemoteTx(c)
    BY <1>1, <1>4, <1>5, <1>6, <1>7, <1>9 DEF TxsFor, RemoteTx, ExecutorTx, Tx
  <2>2. t.slot = RemoteSlot(c) /\ t.value = c.remote /\ t.slot.of = c
    BY <2>1 DEF RemoteTx, Tx, RemoteSlot
  <2>. QED  BY <1>5, <1>6, <1>7, <1>8, <1>9, <2>2 DEF Slots, AllValues
<1>10. CASE t.slot \in LibrarySlots
  <2>1. t.value \in Libraries
    BY <1>1, <1>3, <1>4, <1>5, <1>6, <1>7, <1>10 DEF TxsFor, RemoteTx, ExecutorTx, Tx
  <2>. QED  BY <1>5, <1>6, <1>7, <1>8, <1>10, <2>1 DEF Slots, AllValues
<1>11. CASE t.slot \in ConfigSlots
  <2>1. t.value \in Values
    BY <1>1, <1>3, <1>4, <1>5, <1>6, <1>7, <1>11 DEF TxsFor, RemoteTx, ExecutorTx, Tx
  <2>. QED  BY <1>5, <1>6, <1>7, <1>8, <1>11, <2>1 DEF Slots, AllValues
<1>12. t.slot \in RemoteSlots \cup LibrarySlots \cup ConfigSlots
  BY <1>1, <1>4 DEF TxsFor, RemoteTx, ExecutorTx, Tx
<1>. QED  BY <1>9, <1>10, <1>11, <1>12

(* What a run has to send for an application is made of these transactions. *)
LEMMA RunSends ==
  ASSUME NEW a
  PROVE  TransactionsOf(a) \in Seq(MaySend(a))
<1>1. ASSUME NEW c \in Graph, c.app = a
      PROVE  Transactions(c) \in Seq(MaySend(a))
  <2>1. CASE Config[c] = Missing
    BY <2>1, EmptySeq DEF Transactions
  <2>2. CASE Config[c] # Missing
    <3>1. TxsFor(c) \subseteq MaySend(a)
      BY <1>1, <2>2 DEF MaySend
    <3>. DEFINE p1 == If(TrustedRemote(c) # c.remote, <<RemoteTx(c)>>)
                p2 == If(SendLibrary(c) # Config[c].send_library,
                         LibraryTxs(c, SendLibrarySlot(c.app), Config[c].send_library))
                p3 == If(ReceiveLibrary(c) # Config[c].receive_library,
                         LibraryTxs(c, ReceiveLibrarySlot(c.app), Config[c].receive_library))
                p4 == If(ExecutorDiffers(c), <<ExecutorTx(c)>>)
                p5 == If(UlnDiffers(c), UlnTxs(c))
    <3>2. p1 \in Seq(MaySend(a)) /\ p4 \in Seq(MaySend(a)) /\ p5 \in Seq(MaySend(a))
      BY <3>1, EmptySeq DEF If, TxsFor, UlnTxs
    <3>3. p2 \in Seq(MaySend(a)) /\ p3 \in Seq(MaySend(a))
      BY <3>1, EmptySeq DEF If, TxsFor, LibraryTxs
    <3>4. Transactions(c) = p1 \o p2 \o p3 \o p4 \o p5
      BY <2>2 DEF Transactions
    <3>. HIDE DEF p1, p2, p3, p4, p5
    <3>. QED  BY <3>2, <3>3, <3>4, ConcatProperties
  <2>. QED  BY <2>1, <2>2
<1>. DEFINE own == {c \in Graph : c.app = a}
            connections == SetToSeq(own)
            parts == [i \in 1..Len(connections) |-> Transactions(connections[i])]
<1>2. connections \in Seq(own)
  BY WireConfigAssumption, FS_Subset, ListOfMembers
<1>3. Len(connections) \in Nat /\ \A i \in 1..Len(connections) : connections[i] \in own
  BY <1>2, LenProperties, ElementOfSeq
<1>. HIDE DEF connections
<1>4. parts \in [1..Len(connections) -> Seq(MaySend(a))]
  BY <1>1, <1>3
<1>. HIDE DEF parts
<1>5. FlattenSeq(parts) \in Seq(MaySend(a))
  BY <1>3, <1>4, FlattenedMembers
<1>. QED  BY <1>5 DEF parts, connections, TransactionsOf

LEMMA WireInvStep ==
  ASSUME WireInv, [Next]_vars
  PROVE  WireInv'
<1>. USE DEF WireInv
<1>1. CASE Configure
  <2>1. \A a \in Apps : pending'[a] = TransactionsOf(a) /\ pending'[a] \in Seq(MaySend(a))
    BY <1>1, RunSends DEF Configure
  <2>. QED  BY <1>1, <2>1, RunSends DEF Configure
<1>2. ASSUME NEW a \in Apps, SendTx(a) PROVE WireInv'
  <2>. DEFINE t == Head(pending[a])
  <2>1. /\ pending[a] \in Seq(MaySend(a)) /\ pending[a] # <<>>
        /\ slots' = [slots EXCEPT ![t.slot] = t.value]
        /\ pending' = [pending EXCEPT ![a] = Tail(pending[a])]
        /\ UNCHANGED <<defaults, failures, new_defaults>>
    BY <1>2 DEF SendTx
  <2>2. t \in MaySend(a) /\ Tail(pending[a]) \in Seq(MaySend(a))
    BY <2>1, HeadTailProperties
  <2>. HIDE DEF t
  <2>3. t.slot \in Slots /\ t.value \in AllValues
    BY <2>2, TxFits
  <2>4. slots' \in [Slots -> {Missing} \cup AllValues]
    BY <2>1, <2>3
  <2>5. ASSUME NEW slot \in Slots, slots'[slot] # Missing
        PROVE  \E b \in Apps : \E u \in MaySend(b) : u.slot = slot /\ u.value = slots'[slot]
    <3>1. CASE slot = t.slot
      BY <2>1, <2>2, <2>3, <3>1
    <3>2. CASE slot # t.slot
      BY <2>1, <2>3, <2>5, <3>2
    <3>. QED  BY <3>1, <3>2
  <2>6. \A b \in Apps : pending'[b] = IF b = a THEN Tail(pending[a]) ELSE pending[b]
    BY <2>1
  <2>7. \A b \in Apps : pending'[b] \in Seq(MaySend(b))
    BY <2>2, <2>6
  <2>8. pending' \in [Apps -> UNION {Seq(MaySend(b)) : b \in Apps}]
    BY <2>1, <2>2
  <2>. QED  BY <2>1, <2>4, <2>5, <2>7, <2>8
<1>3. ASSUME NEW a \in Apps, SendFails(a) PROVE WireInv'
  <2>1. <<>> \in Seq(MaySend(a))
    BY EmptySeq
  <2>2. /\ pending' = [pending EXCEPT ![a] = <<>>]
        /\ failures' = failures + 1 /\ failures < MaxFailures
        /\ UNCHANGED <<slots, defaults, new_defaults>>
    BY <1>3 DEF SendFails
  <2>3. \A b \in Apps : pending'[b] = IF b = a THEN <<>> ELSE pending[b]
    BY <2>2
  <2>4. \A b \in Apps : pending'[b] \in Seq(MaySend(b))
    BY <2>1, <2>3
  <2>5. pending' \in [Apps -> UNION {Seq(MaySend(b)) : b \in Apps}]
    BY <2>1, <2>2
  <2>6. failures' \in 0..MaxFailures
    BY <2>2, WireBoundsAssumption
  <2>. QED  BY <2>2, <2>4, <2>5, <2>6
<1>4. CASE Killed
  <2>1. \A b \in Apps : <<>> \in Seq(MaySend(b))
    BY EmptySeq
  <2>2. failures' \in 0..MaxFailures
    BY <1>4, WireBoundsAssumption DEF Killed
  <2>3. pending' = [b \in Apps |-> <<>>] /\ UNCHANGED <<slots, defaults, new_defaults>>
    BY <1>4 DEF Killed
  <2>. QED  BY <2>1, <2>2, <2>3
<1>5. ASSUME NEW key \in DefaultKeys, NEW value \in Libraries \cup Values, NewDefault(key, value)
      PROVE  WireInv'
  BY <1>5, WireBoundsAssumption DEF NewDefault
<1>6. CASE UNCHANGED vars
  BY <1>6 DEF vars
<1>. QED  BY <1>1, <1>2, <1>3, <1>4, <1>5, <1>6 DEF Next

LEMMA WireInvInit ==
  ASSUME Init
  PROVE  WireInv
<1>1. \A b \in Apps : <<>> \in Seq(MaySend(b))
  BY EmptySeq
<1>2. \A slot \in Slots : slots[slot] = Missing
  BY DEF Init
<1>. QED  BY <1>1, <1>2, WireBoundsAssumption DEF Init, WireInv

(* Every transaction of a run waits for the application it configures, and
   whatever a run has sent is of the kind of its slot, for every graph. *)
THEOREM WireTypeOK == Spec => []TypeOK
<1>1. Init => WireInv
  BY WireInvInit
<1>2. WireInv => TypeOK
  <2>. SUFFICES ASSUME WireInv PROVE TypeOK
    OBVIOUS
  <2>1. \A slot \in Slots :
          slots[slot] # Missing =>
            /\ slot \in RemoteSlots => slots[slot] = slot.of.remote
            /\ slot \in LibrarySlots => slots[slot] \in Libraries
            /\ slot \in ConfigSlots => slots[slot] \in Values
    BY TxFits DEF WireInv
  <2>2. ASSUME NEW a \in Apps, NEW i \in 1..Len(pending[a])
        PROVE  pending[a][i].app = a
    <3>1. pending[a][i] \in MaySend(a)
      BY ElementOfSeq DEF WireInv
    <3>. QED  BY <3>1, TxFits
  <2>3. slots \in [Slots -> {Missing} \cup {c.remote : c \in Graph} \cup Libraries \cup Values]
    BY DEF WireInv, AllValues
  <2>. QED  BY <2>1, <2>2, <2>3 DEF WireInv, TypeOK, Slots
<1>. QED  BY <1>1, <1>2, WireInvStep, PTL DEF Spec

(* The two libraries of an application are different contracts. *)
SeparateLibraries ==
  \A c \in Graph : Config[c] # Missing => Config[c].send_library # Config[c].receive_library

(* Whichever run sends it, and for whichever connection, a slot is only ever
   sent one value. *)
LEMMA OneValuePerSlot ==
  ASSUME SeparateLibraries, NEW a, NEW b, NEW t \in MaySend(a), NEW u \in MaySend(b),
         t.slot = u.slot
  PROVE  t.value = u.value
<1>1. PICK c \in Graph : c.app = a /\ Config[c] # Missing /\ t \in TxsFor(c)
  BY DEF MaySend
<1>2. PICK d \in Graph : d.app = b /\ Config[d] # Missing /\ u \in TxsFor(d)
  BY DEF MaySend
<1>3. CASE t.slot.kind = "remote"
  <2>1. t = RemoteTx(c) /\ u = RemoteTx(d)
    BY <1>1, <1>2, <1>3
    DEF TxsFor, RemoteTx, ExecutorTx, Tx, RemoteSlot, SendLibrarySlot, ReceiveLibrarySlot,
        ExecutorSlot, UlnSlot
  <2>. QED  BY <2>1 DEF RemoteTx, Tx, RemoteSlot
<1>4. CASE t.slot.kind = "send_library"
  <2>1. /\ t = Tx(c, SendLibrarySlot(c.app), Config[c].send_library)
        /\ u = Tx(d, SendLibrarySlot(d.app), Config[d].send_library)
    BY <1>1, <1>2, <1>4
    DEF TxsFor, RemoteTx, ExecutorTx, Tx, RemoteSlot, SendLibrarySlot, ReceiveLibrarySlot,
        ExecutorSlot, UlnSlot
  <2>2. c.app = d.app
    BY <2>1 DEF Tx, SendLibrarySlot
  <2>. QED  BY <1>1, <1>2, <2>1, <2>2, SharedLibrariesAssumption DEF Tx
<1>5. CASE t.slot.kind = "receive_library"
  <2>1. /\ t = Tx(c, ReceiveLibrarySlot(c.app), Config[c].receive_library)
        /\ u = Tx(d, ReceiveLibrarySlot(d.app), Config[d].receive_library)
    BY <1>1, <1>2, <1>5
    DEF TxsFor, RemoteTx, ExecutorTx, Tx, RemoteSlot, SendLibrarySlot, ReceiveLibrarySlot,
        ExecutorSlot, UlnSlot
  <2>2. c.app = d.app
    BY <2>1 DEF Tx, ReceiveLibrarySlot
  <2>. QED  BY <1>1, <1>2, <2>1, <2>2, SharedLibrariesAssumption DEF Tx
<1>6. CASE t.slot.kind = "executor"
  <2>1. t = ExecutorTx(c) /\ u = ExecutorTx(d)
    BY <1>1, <1>2, <1>6
    DEF TxsFor, RemoteTx, ExecutorTx, Tx, RemoteSlot, SendLibrarySlot, ReceiveLibrarySlot,
        ExecutorSlot, UlnSlot
  <2>. QED  BY <2>1 DEF ExecutorTx, Tx, ExecutorSlot
<1>7. CASE t.slot.kind = "uln"
  <2>1. /\ t \in {Tx(c, UlnSlot(Config[c].send_library, c), Config[c].send_uln),
                  Tx(c, UlnSlot(Config[c].receive_library, c), Config[c].receive_uln)}
        /\ u \in {Tx(d, UlnSlot(Config[d].send_library, d), Config[d].send_uln),
                  Tx(d, UlnSlot(Config[d].receive_library, d), Config[d].receive_uln)}
    BY <1>1, <1>2, <1>7
    DEF TxsFor, RemoteTx, ExecutorTx, Tx, RemoteSlot, SendLibrarySlot, ReceiveLibrarySlot,
        ExecutorSlot, UlnSlot
  <2>2. c = d /\ t.slot.library = u.slot.library
    BY <2>1 DEF Tx, UlnSlot
  <2>3. Config[c].send_library # Config[c].receive_library
    BY <1>1 DEF SeparateLibraries
  <2>. QED  BY <2>1, <2>2, <2>3 DEF Tx, UlnSlot
<1>8. t.slot.kind \in {"remote", "send_library", "receive_library", "executor", "uln"}
  BY <1>1
  DEF TxsFor, RemoteTx, ExecutorTx, Tx, RemoteSlot, SendLibrarySlot, ReceiveLibrarySlot,
      ExecutorSlot, UlnSlot
<1>. QED  BY <1>3, <1>4, <1>5, <1>6, <1>7, <1>8

(* No run undoes what an earlier one has sent, wherever each broke off and
   however many connections share an application, as long as the library that
   sends is not the one that receives. *)
THEOREM RerunsUndoNothing ==
  ASSUME SeparateLibraries
  PROVE  Spec => SentIsNotUndone
<1>1. WireInv /\ [Next]_vars =>
        [\A slot \in Slots : slots[slot] # Missing => slots'[slot] = slots[slot]]_vars
  <2>. SUFFICES ASSUME WireInv, Next, NEW slot \in Slots, slots[slot] # Missing
                PROVE  slots'[slot] = slots[slot]
    OBVIOUS
  <2>1. ASSUME NEW a \in Apps, SendTx(a) PROVE slots'[slot] = slots[slot]
    <3>. DEFINE t == Head(pending[a])
    <3>1. slots' = [slots EXCEPT ![t.slot] = t.value] /\ t \in MaySend(a)
      BY <2>1, HeadTailProperties DEF SendTx, WireInv
    <3>. HIDE DEF t
    <3>2. PICK b \in Apps : \E u \in MaySend(b) : u.slot = slot /\ u.value = slots[slot]
      BY DEF WireInv
    <3>3. t.slot = slot => t.value = slots[slot]
      BY <3>1, <3>2, OneValuePerSlot
    <3>. QED  BY <3>1, <3>3 DEF WireInv
  <2>2. CASE UNCHANGED slots
    BY <2>2
  <2>. QED  BY <2>1, <2>2 DEF Next, Configure, SendFails, Killed, NewDefault
<1>2. Init => WireInv
  BY WireInvInit
<1>. QED  BY <1>1, <1>2, WireInvStep, PTL DEF Spec, SentIsNotUndone

-------------------------------------------------------------------------------
(* A complete run of the wire task *)

Has(txs, t) == \E i \in 1..Len(txs) : txs[i] = t

(* What is in one of two sequences is in both together. *)
LEMMA TogetherHave ==
  ASSUME NEW T, NEW s \in Seq(T), NEW u \in Seq(T), NEW t, Has(s, t) \/ Has(u, t)
  PROVE  Has(s \o u, t)
<1>1. /\ Len(s \o u) = Len(s) + Len(u)
      /\ \A i \in 1..(Len(s) + Len(u)) :
           (s \o u)[i] = IF i <= Len(s) THEN s[i] ELSE u[i - Len(s)]
  BY ConcatProperties
<1>2. Len(s) \in Nat /\ Len(u) \in Nat
  BY LenProperties
<1>3. CASE Has(s, t)
  <2>1. PICK i \in 1..Len(s) : s[i] = t
    BY <1>3 DEF Has
  <2>2. i \in 1..(Len(s) + Len(u)) /\ i <= Len(s)
    BY <1>2, <2>1
  <2>. QED  BY <1>1, <2>1, <2>2 DEF Has
<1>4. CASE Has(u, t)
  <2>1. PICK i \in 1..Len(u) : u[i] = t
    BY <1>4 DEF Has
  <2>2. /\ Len(s) + i \in 1..(Len(s) + Len(u))
        /\ ~(Len(s) + i <= Len(s)) /\ (Len(s) + i) - Len(s) = i
    BY <1>2, <2>1
  <2>3. (s \o u)[Len(s) + i] = t
    BY <1>1, <2>1, <2>2
  <2>. QED  BY <1>1, <2>2, <2>3 DEF Has
<1>. QED  BY <1>3, <1>4

(* Every member of a finite set is in its list. *)
LEMMA ListHasMembers ==
  ASSUME NEW S, IsFiniteSet(S), NEW x \in S
  PROVE  Has(SetToSeq(S), x)
<1>. DEFINE n == Cardinality(S)
            list == SetToSeq(S)
<1>1. /\ n \in Nat
      /\ \E f \in [1..n -> S] : IsInjective(f)
  BY FS_CardinalityType DEF ExistsBijection, Bijection, Injection
<1>2. list \in [1..n -> S] /\ IsInjective(list)
  BY <1>1 DEF SetToSeq
<1>. HIDE DEF list
<1>3. list \in Injection(1..n, S)
  BY <1>2 DEF Injection
<1>4. Cardinality(1..n) = n
  BY <1>1, FS_Interval
<1>. HIDE DEF n
<1>5. list \in Surjection(1..n, S)
  BY <1>3, <1>4, FS_Injection DEF n
<1>6. PICK i \in 1..n : list[i] = x
  BY <1>5 DEF Surjection
<1>7. Len(list) = n
  BY <1>1, <1>2 DEF n
<1>. QED  BY <1>6, <1>7 DEF Has, list

(* What is in one of the parts is in all of them, one after the other. *)
LEMMA FlattenedHas ==
  ASSUME NEW T, NEW n \in Nat, NEW seqs \in [1..n -> Seq(T)], NEW t,
         NEW p \in 1..n, Has(seqs[p], t)
  PROVE  Has(FlattenSeq(seqs), t)
<1>0. seqs \in Seq(Seq(T)) /\ Len(seqs) = n /\ n # 0
  OBVIOUS
<1>. DEFINE flatten == CHOOSE f : Flattens(f, seqs, n)
<1>1. FlattenSeq(seqs) = flatten[n]
  BY <1>0 DEF FlattenSeq, Flattens
<1>2. Flattens(flatten, seqs, n)
  BY FlattensExists
<1>. HIDE DEF flatten
<1>. DEFINE G == {k \in Nat : k + 1 <= n => /\ flatten[k + 1] \in Seq(T)
                                            /\ p <= k + 1 => Has(flatten[k + 1], t)}
<1>3. 0 \in G
  <2>1. flatten[1] = seqs[1] /\ seqs[1] \in Seq(T) /\ (p <= 1 => p = 1)
    BY <1>0, <1>2 DEF Flattens
  <2>. QED  BY <2>1
<1>4. ASSUME NEW k \in Nat, k \in G PROVE k + 1 \in G
  <2>. SUFFICES ASSUME k + 2 <= n
                PROVE  flatten[k + 2] \in Seq(T) /\ (p <= k + 2 => Has(flatten[k + 2], t))
    OBVIOUS
  <2>1. flatten[k + 1] \in Seq(T) /\ (p <= k + 1 => Has(flatten[k + 1], t))
    BY <1>4
  <2>2. k + 2 \in 1..n /\ k + 2 # 1 /\ (k + 2) - 1 = k + 1
    OBVIOUS
  <2>3. flatten[k + 2] = flatten[k + 1] \o seqs[k + 2]
    BY <1>2, <2>2 DEF Flattens
  <2>4. seqs[k + 2] \in Seq(T)
    BY <2>2
  <2>5. p <= k + 2 => p <= k + 1 \/ p = k + 2
    OBVIOUS
  <2>6. p <= k + 2 => Has(flatten[k + 1], t) \/ Has(seqs[k + 2], t)
    BY <2>1, <2>5
  <2>. QED  BY <2>1, <2>3, <2>4, <2>6, ConcatProperties, TogetherHave
<1>. HIDE DEF G
<1>5. \A k \in Nat : k \in G
  BY <1>3, <1>4, NumberInduction
<1>6. n - 1 \in Nat /\ (n - 1) + 1 = n /\ n <= n /\ p <= n
  BY <1>0
<1>. QED  BY <1>1, <1>5, <1>6 DEF G

(* The slot of a transaction has what it would write. *)
Done(t) == InForce(t.slot) = t.value

(* What a run does not send for a complete connection is done. *)
LEMMA ConnectionSends ==
  ASSUME ConfiguresWhatIsRead, NEW c \in Graph, Config[c] # Missing, NEW t \in TxsFor(c)
  PROVE  /\ Transactions(c) \in Seq(TxsFor(c))
         /\ Done(t) \/ Has(Transactions(c), t)
<1>. DEFINE T       == TxsFor(c)
            send    == Tx(c, SendLibrarySlot(c.app), Config[c].send_library)
            receive == Tx(c, ReceiveLibrarySlot(c.app), Config[c].receive_library)
            uln1    == Tx(c, UlnSlot(Config[c].send_library, c), Config[c].send_uln)
            uln2    == Tx(c, UlnSlot(Config[c].receive_library, c), Config[c].receive_uln)
            remote  == RemoteTx(c)
            exec    == ExecutorTx(c)
            p1 == If(TrustedRemote(c) # c.remote, <<remote>>)
            p2 == If(SendLibrary(c) # Config[c].send_library, <<send>>)
            p3 == If(ReceiveLibrary(c) # Config[c].receive_library, <<receive>>)
            p4 == If(ExecutorDiffers(c), <<exec>>)
            p5 == If(UlnDiffers(c), <<uln1, uln2>>)
<1>1. /\ LibraryTxs(c, SendLibrarySlot(c.app), Config[c].send_library) = <<send>>
      /\ LibraryTxs(c, ReceiveLibrarySlot(c.app), Config[c].receive_library) = <<receive>>
      /\ UlnTxs(c) = <<uln1, uln2>>
  BY DEF LibraryTxs, ConfiguresWhatIsRead, UlnTxs
<1>2. Transactions(c) = p1 \o p2 \o p3 \o p4 \o p5
  BY <1>1 DEF Transactions
<1>3. T = {remote, send, receive, exec, uln1, uln2}
  BY DEF TxsFor
<1>4. /\ Done(remote)  <=> TrustedRemote(c) = c.remote
      /\ Done(send)    <=> SendLibrary(c) = Config[c].send_library
      /\ Done(receive) <=> ReceiveLibrary(c) = Config[c].receive_library
      /\ ~ExecutorDiffers(c) => Done(exec)
      /\ ~UlnDiffers(c) => Done(uln1) /\ Done(uln2)
  BY DEF Done, Tx, RemoteTx, ExecutorTx, TrustedRemote, SendLibrary, ReceiveLibrary, ExecutorDiffers,
         ExecutorConfig, UlnDiffers, SendUlnConfig, ReceiveUlnConfig, ConfiguresWhatIsRead
<1>. HIDE DEF send, receive, uln1, uln2, remote, exec, T
<1>5. /\ p1 \in Seq(T) /\ p2 \in Seq(T) /\ p3 \in Seq(T) /\ p4 \in Seq(T) /\ p5 \in Seq(T)
  <2>1. /\ <<remote>> \in Seq(T) /\ <<send>> \in Seq(T) /\ <<receive>> \in Seq(T)
        /\ <<exec>> \in Seq(T) /\ <<uln1, uln2>> \in Seq(T) /\ <<>> \in Seq(T)
    BY <1>3
  <2>. QED  BY <2>1 DEF If
<1>6. /\ Done(remote) \/ Has(p1, remote)
      /\ Done(send) \/ Has(p2, send)
      /\ Done(receive) \/ Has(p3, receive)
      /\ Done(exec) \/ Has(p4, exec)
      /\ Done(uln1) \/ Has(p5, uln1)
      /\ Done(uln2) \/ Has(p5, uln2)
  <2>1. \A x : Has(<<x>>, x)
    BY DEF Has
  <2>2. \A x, y : Has(<<x, y>>, x) /\ Has(<<x, y>>, y)
    <3>. SUFFICES ASSUME NEW x, NEW y PROVE Has(<<x, y>>, x) /\ Has(<<x, y>>, y)
      OBVIOUS
    <3>1. 1 \in 1..Len(<<x, y>>) /\ 2 \in 1..Len(<<x, y>>) /\ <<x, y>>[1] = x /\ <<x, y>>[2] = y
      OBVIOUS
    <3>. QED  BY <3>1 DEF Has
  <2>. QED  BY <1>4, <2>1, <2>2 DEF If
<1>. HIDE DEF p1, p2, p3, p4, p5
<1>7. Done(t) \/ Has(p1, t) \/ Has(p2, t) \/ Has(p3, t) \/ Has(p4, t) \/ Has(p5, t)
  BY <1>3, <1>6 DEF T
<1>8. p1 \o p2 \in Seq(T) /\ (Has(p1, t) \/ Has(p2, t) => Has(p1 \o p2, t))
  BY <1>5, ConcatProperties, TogetherHave
<1>9. /\ p1 \o p2 \o p3 \in Seq(T)
      /\ Has(p1 \o p2, t) \/ Has(p3, t) => Has(p1 \o p2 \o p3, t)
  BY <1>5, <1>8, ConcatProperties, TogetherHave
<1>10. /\ p1 \o p2 \o p3 \o p4 \in Seq(T)
       /\ Has(p1 \o p2 \o p3, t) \/ Has(p4, t) => Has(p1 \o p2 \o p3 \o p4, t)
  BY <1>5, <1>9, ConcatProperties, TogetherHave
<1>11. /\ p1 \o p2 \o p3 \o p4 \o p5 \in Seq(T)
       /\ Has(p1 \o p2 \o p3 \o p4, t) \/ Has(p5, t) => Has(p1 \o p2 \o p3 \o p4 \o p5, t)
  BY <1>5, <1>10, ConcatProperties, TogetherHave
<1>. QED  BY <1>2, <1>7, <1>8, <1>9, <1>10, <1>11 DEF T

(* So what the run does not send to an application is done. *)
LEMMA RunSendsTheRest ==
  ASSUME ConfiguresWhatIsRead, NEW c \in Graph, Config[c] # Missing, NEW t \in TxsFor(c)
  PROVE  Done(t) \/ Has(TransactionsOf(c.app), t)
<1>. SUFFICES ASSUME ~Done(t) PROVE Has(TransactionsOf(c.app), t)
  OBVIOUS
<1>. DEFINE own == {d \in Graph : d.app = c.app}
            connections == SetToSeq(own)
            n == Len(connections)
            parts == [i \in 1..n |-> Transactions(connections[i])]
            T == UNION {TxsFor(d) : d \in own}
<1>1. IsFiniteSet(own)
  BY WireConfigAssumption, FS_Subset
<1>2. connections \in Seq(own) /\ Has(connections, c)
  BY <1>1, ListOfMembers, ListHasMembers
<1>3. n \in Nat /\ \A i \in 1..n : connections[i] \in own
  BY <1>2, LenProperties, ElementOfSeq
<1>4. PICK p \in 1..n : connections[p] = c
  BY <1>2 DEF Has
<1>. HIDE DEF connections
<1>5. ASSUME NEW d \in own PROVE Transactions(d) \in Seq(T)
  <2>1. CASE Config[d] = Missing
    BY <2>1, EmptySeq DEF Transactions
  <2>2. CASE Config[d] # Missing
    <3>1. RemoteTx(d) \in TxsFor(d)
      BY DEF TxsFor
    <3>2. Transactions(d) \in Seq(TxsFor(d)) /\ TxsFor(d) \subseteq T
      BY <2>2, <3>1, ConnectionSends
    <3>. QED  BY <3>2
  <2>. QED  BY <2>1, <2>2
<1>. HIDE DEF T
<1>6. parts \in [1..n -> Seq(T)]
  BY <1>3, <1>5
<1>7. Has(parts[p], t)
  BY <1>4, ConnectionSends
<1>. HIDE DEF parts, n
<1>8. Has(FlattenSeq(parts), t)
  BY <1>3, <1>4, <1>6, <1>7, FlattenedHas
<1>. QED  BY <1>8 DEF parts, n, connections, TransactionsOf

(* Of what a run must do, all is done or still to be sent, until it is
   complete. *)
RunOK ==
  \A c \in Graph : Config[c] # Missing => \A t \in TxsFor(c) :
    /\ run = "begun" => Done(t) \/ Has(pending[c.app], t)
    /\ run = "complete" => Done(t)

(* A transaction that is executed leaves done what was, for every connection,
   and does what it was sent for. *)
LEMMA SendTxDoes ==
  ASSUME SeparateLibraries, WireInv, NEW a \in Apps, SendTx(a),
         NEW c \in Graph, Config[c] # Missing, NEW t \in TxsFor(c)
  PROVE  /\ Done(t) => Done(t)'
         /\ Has(pending[c.app], t) => Done(t)' \/ Has(pending'[c.app], t)
<1>. DEFINE u == Head(pending[a])
<1>1. /\ pending[a] \in Seq(MaySend(a)) /\ pending[a] # <<>>
      /\ slots' = [slots EXCEPT ![u.slot] = u.value]
      /\ pending' = [pending EXCEPT ![a] = Tail(pending[a])]
      /\ UNCHANGED defaults
  BY DEF SendTx, WireInv
<1>2. /\ u \in MaySend(a) /\ Tail(pending[a]) \in Seq(MaySend(a))
      /\ Len(Tail(pending[a])) = Len(pending[a]) - 1
      /\ \A i \in 1..(Len(pending[a]) - 1) : Tail(pending[a])[i] = pending[a][i + 1]
      /\ u = pending[a][1]
  BY <1>1, HeadTailProperties
<1>. HIDE DEF u
<1>3. c.app \in Apps /\ t \in MaySend(c.app)
  BY DEF Apps, MaySend
<1>4. /\ t.slot \in Slots /\ u.slot \in Slots
      /\ t.slot \notin RemoteSlots => t.value # Missing
  BY <1>2, <1>3, TxFits, WireConfigAssumption DEF Slots
<1>5. u.slot = t.slot => Done(t)'
  <2>. SUFFICES ASSUME u.slot = t.slot PROVE Done(t)'
    OBVIOUS
  <2>1. u.value = t.value
    BY <1>2, <1>3, OneValuePerSlot
  <2>2. slots'[t.slot] = t.value
    BY <1>1, <1>4, <2>1 DEF WireInv
  <2>. QED  BY <1>4, <2>2 DEF Done, InForce
<1>6. Done(t) => Done(t)'
  <2>. SUFFICES ASSUME u.slot # t.slot, Done(t) PROVE Done(t)'
    BY <1>5
  <2>1. slots'[t.slot] = slots[t.slot]
    BY <1>1, <1>4 DEF WireInv
  <2>. QED  BY <1>1, <2>1 DEF Done, InForce
<1>7. ASSUME Has(pending[c.app], t) PROVE Done(t)' \/ Has(pending'[c.app], t)
  <2>1. \A b \in Apps : pending'[b] = IF b = a THEN Tail(pending[a]) ELSE pending[b]
    BY <1>1 DEF WireInv
  <2>2. CASE c.app # a
    BY <1>3, <1>7, <2>1, <2>2
  <2>3. CASE c.app = a
    <3>1. PICK i \in 1..Len(pending[a]) : pending[a][i] = t
      BY <1>7, <2>3 DEF Has
    <3>2. Len(pending[a]) \in Nat
      BY <1>1, LenProperties
    <3>3. CASE i = 1
      BY <1>2, <1>5, <3>1, <3>3
    <3>4. CASE i # 1
      <4>1. i - 1 \in 1..(Len(pending[a]) - 1) /\ (i - 1) + 1 = i
        BY <3>2, <3>4
      <4>2. Has(Tail(pending[a]), t)
        BY <1>2, <3>1, <4>1 DEF Has
      <4>. QED  BY <1>3, <2>1, <2>3, <4>2
    <3>. QED  BY <3>3, <3>4
  <2>. QED  BY <2>2, <2>3
<1>. QED  BY <1>6, <1>7

(* A connection for which all is done is wired. *)
LEMMA DoneIsWired ==
  ASSUME ConfiguresWhatIsRead, NEW c \in Graph, Config[c] # Missing, \A t \in TxsFor(c) : Done(t)
  PROVE  Wired(c)
<1>1. /\ Done(RemoteTx(c)) /\ Done(ExecutorTx(c))
      /\ Done(Tx(c, SendLibrarySlot(c.app), Config[c].send_library))
      /\ Done(Tx(c, ReceiveLibrarySlot(c.app), Config[c].receive_library))
      /\ Done(Tx(c, UlnSlot(Config[c].send_library, c), Config[c].send_uln))
      /\ Done(Tx(c, UlnSlot(Config[c].receive_library, c), Config[c].receive_uln))
  BY DEF TxsFor
<1>. QED
  BY <1>1
  DEF Done, Tx, RemoteTx, ExecutorTx, Wired, Secured, TrustedRemote, SendLibrary, ReceiveLibrary

(* One run that is complete wires everything, for every graph, whatever was
   sent before it and in whatever order the chains execute what it sends, when
   it configures the two libraries that it reads. *)
THEOREM CompleteRunAlwaysWires ==
  ASSUME ConfiguresWhatIsRead, SeparateLibraries
  PROVE  RunsSpec => []CompleteRunWires
<1>1. RunsInit => WireInv /\ RunOK
  BY WireInvInit DEF RunsInit, RunOK
<1>2. WireInv /\ RunOK /\ [RunsNext]_runs_vars => WireInv' /\ RunOK'
  <2>. SUFFICES ASSUME WireInv, RunOK, [RunsNext]_runs_vars PROVE WireInv' /\ RunOK'
    OBVIOUS
  <2>1. [Next]_vars
    BY DEF RunsNext, TrackedConfigure, TrackedSendTx, TrackedBreak, Next, runs_vars
  <2>2. WireInv'
    BY <2>1, WireInvStep
  <2>3. CASE TrackedConfigure
    <3>. SUFFICES ASSUME NEW c \in Graph, Config[c] # Missing, NEW t \in TxsFor(c)
                  PROVE  Done(t)' \/ Has(pending'[c.app], t)
      BY <2>2, <2>3 DEF RunOK, TrackedConfigure
    <3>1. c.app \in Apps
      BY DEF Apps
    <3>2. pending'[c.app] = TransactionsOf(c.app) /\ UNCHANGED <<slots, defaults>>
      BY <2>3, <3>1 DEF TrackedConfigure, Configure
    <3>3. Done(t) => Done(t)'
      BY <3>2 DEF Done, InForce
    <3>. QED  BY <3>2, <3>3, RunSendsTheRest
  <2>4. ASSUME NEW a \in Apps, TrackedSendTx(a) PROVE RunOK'
    <3>. SUFFICES ASSUME NEW c \in Graph, Config[c] # Missing, NEW t \in TxsFor(c)
                  PROVE  /\ run' = "begun" => Done(t)' \/ Has(pending'[c.app], t)
                         /\ run' = "complete" => Done(t)'
      BY DEF RunOK
    <3>1. /\ Done(t) => Done(t)'
          /\ Has(pending[c.app], t) => Done(t)' \/ Has(pending'[c.app], t)
      BY <2>4, SendTxDoes DEF TrackedSendTx
    <3>2. c.app \in Apps
      BY DEF Apps
    <3>3. CASE run = "begun" /\ \A b \in Apps : pending'[b] = <<>>
      <4>1. ~Has(pending'[c.app], t)
        BY <3>2, <3>3 DEF Has
      <4>. QED  BY <3>1, <3>3, <4>1 DEF RunOK
    <3>4. CASE ~(run = "begun" /\ \A b \in Apps : pending'[b] = <<>>)
      <4>1. run' = run
        BY <2>4, <3>4 DEF TrackedSendTx
      <4>. QED  BY <3>1, <4>1 DEF RunOK
    <3>. QED  BY <3>3, <3>4
  <2>5. CASE TrackedBreak
    BY <2>2, <2>5 DEF RunOK, TrackedBreak
  <2>6. CASE UNCHANGED runs_vars
    BY <2>2, <2>6 DEF runs_vars, vars, RunOK, Done, InForce
  <2>. QED  BY <2>2, <2>3, <2>4, <2>5, <2>6 DEF RunsNext
<1>3. RunOK => CompleteRunWires
  BY DoneIsWired DEF RunOK, CompleteRunWires, AllWired
<1>. QED  BY <1>1, <1>2, <1>3, PTL DEF RunsSpec

-------------------------------------------------------------------------------
(* The script of the bridge *)

Send == ScriptConfig.send_library
Receive == ScriptConfig.receive_library

(* The slots of a connection that the script writes before it trusts the
   remote, and what it writes to them. *)
Pinned(c) ==
  {SendLibrarySlot(c.app), ReceiveLibrarySlot(c.app), ExecutorSlot(Send, c),
   UlnSlot(Send, c), UlnSlot(Receive, c)}

ScriptValue(slot) ==
  IF slot.kind = "send_library" THEN Send
  ELSE IF slot.kind = "receive_library" THEN Receive
  ELSE IF slot.kind = "executor" THEN ScriptConfig.executor
  ELSE IF slot.library = Send THEN ScriptConfig.send_uln
  ELSE ScriptConfig.receive_uln

Written(slot) == slots[slot] = ScriptValue(slot)

-------------------------------------------------------------------------------
(* Slots *)

(* The five slots, and what the script has for each. *)
LEMMA PinnedValues ==
  ASSUME NEW c \in Graph
  PROVE  /\ ScriptValue(SendLibrarySlot(c.app)) = Send
         /\ ScriptValue(ReceiveLibrarySlot(c.app)) = Receive
         /\ ScriptValue(ExecutorSlot(Send, c)) = ScriptConfig.executor
         /\ ScriptValue(UlnSlot(Send, c)) = ScriptConfig.send_uln
         /\ ScriptValue(UlnSlot(Receive, c)) = ScriptConfig.receive_uln
  BY ScriptAssumption
  DEF ScriptValue, SendLibrarySlot, ReceiveLibrarySlot, ExecutorSlot, UlnSlot, Send, Receive

(* They are slots of the chains, and none of them is a trusted remote. *)
LEMMA PinnedSlots ==
  ASSUME NEW c \in Graph
  PROVE  /\ {SendLibrarySlot(c.app), ReceiveLibrarySlot(c.app)} \subseteq LibrarySlots
         /\ {ExecutorSlot(Send, c), UlnSlot(Send, c), UlnSlot(Receive, c)} \subseteq ConfigSlots
         /\ Pinned(c) \subseteq Slots
         /\ RemoteSlot(c) \in RemoteSlots
         /\ RemoteSlot(c) \in Slots
         /\ \A d \in Graph : RemoteSlot(d) \notin Pinned(c)
<1>1. Send \in Libraries /\ Receive \in Libraries /\ c.app \in Apps
  BY ScriptAssumption DEF Send, Receive, ConfigType, Apps
<1>2. /\ {SendLibrarySlot(c.app), ReceiveLibrarySlot(c.app)} \subseteq LibrarySlots
      /\ {ExecutorSlot(Send, c), UlnSlot(Send, c), UlnSlot(Receive, c)} \subseteq ConfigSlots
      /\ RemoteSlot(c) \in RemoteSlots
  BY <1>1 DEF LibrarySlots, ConfigSlots, RemoteSlots
<1>3. \A d \in Graph : RemoteSlot(d) \notin Pinned(c)
  <2>. SUFFICES ASSUME NEW d \in Graph, NEW slot \in Pinned(c) PROVE RemoteSlot(d) # slot
    OBVIOUS
  <2>1. RemoteSlot(d).kind = "remote"
    BY DEF RemoteSlot
  <2>2. slot.kind # "remote"
    BY DEF Pinned, SendLibrarySlot, ReceiveLibrarySlot, ExecutorSlot, UlnSlot
  <2>. QED  BY <2>1, <2>2
<1>. QED  BY <1>2, <1>3 DEF Pinned, Slots

(* The kinds of slots are apart. *)
LEMMA SlotKinds ==
  /\ \A slot \in LibrarySlots : slot.kind \in {"send_library", "receive_library"} /\ slot \notin RemoteSlots
  /\ \A slot \in ConfigSlots : /\ slot.kind \in {"executor", "uln"} /\ slot.library \in Libraries
                               /\ slot \notin RemoteSlots /\ slot \notin LibrarySlots
<1>1. \A slot \in RemoteSlots : slot.kind = "remote"
  BY DEF RemoteSlots, RemoteSlot
<1>2. \A slot \in LibrarySlots : slot.kind \in {"send_library", "receive_library"}
  BY DEF LibrarySlots, SendLibrarySlot, ReceiveLibrarySlot
<1>3. \A slot \in ConfigSlots : slot.kind \in {"executor", "uln"} /\ slot.library \in Libraries
  BY DEF ConfigSlots, ExecutorSlot, UlnSlot
<1>. QED  BY <1>1, <1>2, <1>3

(* A trusted remote is of one connection. *)
LEMMA RemoteSlotsDiffer ==
  ASSUME NEW c \in Graph, NEW d \in Graph, RemoteSlot(c) = RemoteSlot(d)
  PROVE  c = d
<1>1. RemoteSlot(c).of = c /\ RemoteSlot(d).of = d
  BY DEF RemoteSlot
<1>. QED  BY <1>1

(* What is in force in a slot is a library or a configuration. *)
LEMMA InForceTypes ==
  ASSUME TypeOK
  PROVE  /\ \A slot \in LibrarySlots : InForce(slot) \in Libraries
         /\ \A slot \in ConfigSlots : InForce(slot) \in Values
<1>1. ASSUME NEW slot \in LibrarySlots PROVE InForce(slot) \in Libraries
  <2>. DEFINE key == [kind |-> slot.kind]
  <2>1. slot.kind \in {"send_library", "receive_library"} /\ slot \notin RemoteSlots
    BY SlotKinds
  <2>2. key \in DefaultKeys /\ key.kind = slot.kind
    BY <2>1 DEF DefaultKeys
  <2>3. DefaultKey(slot) = key
    BY DEF DefaultKey
  <2>. HIDE DEF key
  <2>4. defaults[key] \in Libraries
    BY <2>1, <2>2 DEF TypeOK, DefaultsType
  <2>. QED  BY <2>1, <2>3, <2>4 DEF InForce, TypeOK
<1>2. ASSUME NEW slot \in ConfigSlots PROVE InForce(slot) \in Values
  <2>. DEFINE key == [kind |-> slot.kind, library |-> slot.library]
  <2>1. /\ slot.kind \in {"executor", "uln"} /\ slot.library \in Libraries
        /\ slot \notin RemoteSlots /\ slot \notin LibrarySlots
    BY SlotKinds
  <2>2. key \in DefaultKeys /\ key.kind = slot.kind
    BY <2>1 DEF DefaultKeys
  <2>3. DefaultKey(slot) = key
    BY <2>1 DEF DefaultKey
  <2>. HIDE DEF key
  <2>4. defaults[key] \in Values
    BY <2>1, <2>2 DEF TypeOK, DefaultsType
  <2>. QED  BY <2>1, <2>3, <2>4 DEF InForce, TypeOK
<1>. QED  BY <1>1, <1>2

(* A report looks at slots of the chains, the trusted remote among them. *)
LEMMA ShownSlots ==
  ASSUME NEW c \in Graph
  PROVE  /\ SlotsShown(c) \subseteq Slots
         /\ RemoteSlot(c) \in SlotsShown(c)
         /\ \A cell \in ActiveCells : /\ ActiveSlot(cell, c) \in SlotsShown(c)
                                      /\ ActiveSlot(cell, c) \in LibrarySlots \cup ConfigSlots
<1>1. /\ SendUln301 \in Libraries /\ ReceiveUln301 \in Libraries /\ c.app \in Apps
  BY WireConfigAssumption DEF Apps
<1>2. /\ {SendLibrarySlot(c.app), ReceiveLibrarySlot(c.app)} \subseteq LibrarySlots
      /\ {ExecutorSlot(SendUln301, c), UlnSlot(SendUln301, c), UlnSlot(ReceiveUln301, c)}
           \subseteq ConfigSlots
  BY <1>1 DEF LibrarySlots, ConfigSlots
<1>3. \A cell \in ActiveCells : ActiveSlot(cell, c) \in LibrarySlots \cup ConfigSlots
  BY <1>2 DEF ActiveCells, ActiveSlot
<1>. QED  BY <1>3, PinnedSlots DEF SlotsShown, Slots

-------------------------------------------------------------------------------
(* Transactions of the script *)

(* The first five write the pinned slots, the sixth the trusted remote. *)
LEMMA ScriptWrites ==
  ASSUME NEW c \in Graph
  PROVE  /\ \A i \in 1..5 : /\ ScriptTxs(c)[i].slot \in Pinned(c)
                            /\ ScriptTxs(c)[i].value = ScriptValue(ScriptTxs(c)[i].slot)
         /\ \A slot \in Pinned(c) : \E i \in 1..5 : ScriptTxs(c)[i].slot = slot
         /\ ScriptTxs(c)[6].slot = RemoteSlot(c)
         /\ ScriptTxs(c)[6].value = c.remote
<1>1. /\ ScriptTxs(c)[1].slot = SendLibrarySlot(c.app) /\ ScriptTxs(c)[1].value = Send
      /\ ScriptTxs(c)[2].slot = ReceiveLibrarySlot(c.app) /\ ScriptTxs(c)[2].value = Receive
      /\ ScriptTxs(c)[3].slot = ExecutorSlot(Send, c) /\ ScriptTxs(c)[3].value = ScriptConfig.executor
      /\ ScriptTxs(c)[4].slot = UlnSlot(Send, c) /\ ScriptTxs(c)[4].value = ScriptConfig.send_uln
      /\ ScriptTxs(c)[5].slot = UlnSlot(Receive, c)
      /\ ScriptTxs(c)[5].value = ScriptConfig.receive_uln
      /\ ScriptTxs(c)[6].slot = RemoteSlot(c) /\ ScriptTxs(c)[6].value = c.remote
  BY DEF ScriptTxs, Tx, RemoteTx, Send, Receive
<1>2. \A i \in 1..5 : i \in {1, 2, 3, 4, 5}
  OBVIOUS
<1>3. \A i \in 1..5 : /\ ScriptTxs(c)[i].slot \in Pinned(c)
                      /\ ScriptTxs(c)[i].value = ScriptValue(ScriptTxs(c)[i].slot)
  BY <1>1, <1>2, PinnedValues DEF Pinned
<1>4. \A slot \in Pinned(c) : \E i \in 1..5 : ScriptTxs(c)[i].slot = slot
  <2>1. 1 \in 1..5 /\ 2 \in 1..5 /\ 3 \in 1..5 /\ 4 \in 1..5 /\ 5 \in 1..5
    OBVIOUS
  <2>. QED  BY <1>1, <2>1, Zenon DEF Pinned
<1>. QED  BY <1>1, <1>3, <1>4

(* The script writes libraries and configurations. *)
LEMMA ScriptValuesType ==
  ASSUME NEW c \in Graph
  PROVE  /\ \A slot \in Pinned(c) \cap LibrarySlots : ScriptValue(slot) \in Libraries
         /\ \A slot \in Pinned(c) \cap ConfigSlots : ScriptValue(slot) \in Values
         /\ \A slot \in Pinned(c) : ScriptValue(slot) # Missing
<1>1. /\ Send \in Libraries /\ Receive \in Libraries /\ ScriptConfig.executor \in Values
      /\ ScriptConfig.send_uln \in Values /\ ScriptConfig.receive_uln \in Values
  BY ScriptAssumption DEF ConfigType, Send, Receive
<1>2. \A slot \in LibrarySlots : ScriptValue(slot) \in Libraries
  BY <1>1, SlotKinds DEF ScriptValue
<1>3. \A slot \in ConfigSlots : ScriptValue(slot) \in Values
  BY <1>1, SlotKinds DEF ScriptValue
<1>4. Pinned(c) \subseteq LibrarySlots \cup ConfigSlots
  BY PinnedSlots DEF Pinned
<1>. QED  BY <1>2, <1>3, <1>4, WireConfigAssumption

-------------------------------------------------------------------------------
(* The invariant *)

(* A run has written what precedes its next transaction, and a remote that is
   trusted has all of its slots written. *)
ScriptOK ==
  /\ script \in [of : Graph, step : 1..6] \cup {None}
  /\ script # None =>
       \A i \in 1..5 : i < script.step => Written(ScriptTxs(script.of)[i].slot)

TrustOK == \A c \in Graph : Trusts(c) => \A slot \in Pinned(c) : Written(slot)

ReportType ==
  [of : Graph, read : Seq(Libraries \cup Values \cup {Missing}),
   version : Libraries \cup {None}, unwritten : SUBSET Slots, changed : SUBSET DefaultKeys]

ReportOK == report # None => report \in ReportType /\ Len(report.read) <= Len(Cells)

NothingPending == pending = [a \in Apps |-> <<>>]

EvmInv ==
  /\ TypeOK /\ NothingPending
  /\ ScriptOK /\ TrustOK
  /\ active \subseteq Apps
  /\ message \in MessageType \cup {None}
  /\ EveryMessageIsSecured
  /\ ReportOK

(* A new bridge trusts nobody. *)
LEMMA EvmInitInv ==
  ASSUME EvmInit
  PROVE  EvmInv
<1>1. TypeOK
  <2>1. slots \in [Slots -> {Missing}] /\ RemoteSlots \subseteq Slots
        /\ LibrarySlots \subseteq Slots /\ ConfigSlots \subseteq Slots
    BY DEF EvmInit, Init, Slots
  <2>2. \A a \in Apps : Len(pending[a]) = 0
    BY DEF EvmInit, Init
  <2>. QED  BY <2>1, <2>2, WireBoundsAssumption, ScriptAssumption DEF EvmInit, Init, TypeOK
<1>2. TrustOK
  <2>. SUFFICES ASSUME NEW c \in Graph PROVE ~Trusts(c)
    BY DEF TrustOK
  <2>1. RemoteSlot(c) \in RemoteSlots /\ RemoteSlot(c) \in Slots
    BY PinnedSlots
  <2>2. InForce(RemoteSlot(c)) = Missing
    BY <2>1 DEF EvmInit, Init, InForce
  <2>. QED  BY <2>2, RemotesAssumption DEF Trusts, TrustedRemote
<1>. QED
  BY <1>1, <1>2
  DEF EvmInit, Init, EvmInv, NothingPending, ScriptOK, EveryMessageIsSecured, ReportOK

-------------------------------------------------------------------------------
(* Messages *)

(* Where the remote is trusted, what is in force is what the script set. *)
LEMMA TrustedIsSecured ==
  ASSUME EvmInv, NEW c \in Graph, Trusts(c)
  PROVE  /\ SendLibrary(c) = Send /\ ReceiveLibrary(c) = Receive
         /\ InForce(ExecutorSlot(Send, c)) = ScriptConfig.executor
         /\ InForce(UlnSlot(Send, c)) = ScriptConfig.send_uln
         /\ InForce(UlnSlot(Receive, c)) = ScriptConfig.receive_uln
<1>1. ASSUME NEW slot \in Pinned(c) PROVE InForce(slot) = ScriptValue(slot)
  BY ScriptValuesType DEF EvmInv, TrustOK, Written, InForce
<1>. QED  BY <1>1, PinnedValues DEF SendLibrary, ReceiveLibrary, Pinned

(* A message changes nothing but the record of it. *)
LEMMA MessageStep ==
  ASSUME EvmInv, MessageNext, UNCHANGED report
  PROVE  EvmInv'
<1>0. PICK c \in Graph : SendOhm(c) \/ ReceiveOhm(c)
  BY DEF MessageNext
<1>1. UNCHANGED <<slots, defaults, wire_vars, script, active, report>>
  BY <1>0 DEF SendOhm, ReceiveOhm
<1>2. Trusts(c)
  BY <1>0 DEF SendOhm, ReceiveOhm
<1>3. /\ Send \in Libraries /\ Receive \in Libraries /\ ScriptConfig.executor \in Values
      /\ ScriptConfig.send_uln \in Values /\ ScriptConfig.receive_uln \in Values
      /\ ScriptConfig.executor # Missing
  BY ScriptAssumption, WireConfigAssumption DEF ConfigType, Send, Receive
<1>4. message' \in MessageType \cup {None} /\ EveryMessageIsSecured'
  <2>1. CASE SendOhm(c)
    <3>. DEFINE m == [of |-> c, library |-> Send, uln |-> ScriptConfig.send_uln,
                      executor |-> ScriptConfig.executor]
    <3>1. message' = m
      BY <1>2, <2>1, TrustedIsSecured DEF SendOhm
    <3>2. /\ m \in MessageType /\ m.library = Send /\ m.uln = ScriptConfig.send_uln
          /\ m.executor = ScriptConfig.executor
      BY <1>3 DEF MessageType
    <3>. HIDE DEF m
    <3>. QED  BY <1>3, <3>1, <3>2 DEF EveryMessageIsSecured, Send
  <2>2. CASE ReceiveOhm(c)
    <3>. DEFINE m == [of |-> c, library |-> Receive, uln |-> ScriptConfig.receive_uln,
                      executor |-> Missing]
    <3>1. message' = m
      BY <1>2, <2>2, TrustedIsSecured DEF ReceiveOhm
    <3>2. /\ m \in MessageType /\ m.library = Receive /\ m.uln = ScriptConfig.receive_uln
          /\ m.executor = Missing
      BY <1>3 DEF MessageType
    <3>. HIDE DEF m
    <3>. QED  BY <3>1, <3>2 DEF EveryMessageIsSecured, Receive
  <2>. QED  BY <1>0, <2>1, <2>2
<1>. QED
  BY <1>1, <1>4
  DEF EvmInv, TypeOK, wire_vars, NothingPending, ScriptOK, TrustOK, Trusts, TrustedRemote,
      InForce, Written, ReportOK

-------------------------------------------------------------------------------
(* The script *)

(* A transaction before the last writes what the script always writes there,
   and no trusted remote. *)
LEMMA WritesPinned ==
  ASSUME EvmInv, NEW c \in Graph, NEW i \in 1..5,
         slots' = [slots EXCEPT ![ScriptTxs(c)[i].slot] = ScriptTxs(c)[i].value]
  PROVE  /\ slots' \in [Slots -> {Missing} \cup {d.remote : d \in Graph} \cup Libraries \cup Values]
         /\ \A slot \in RemoteSlots : slots'[slot] = slots[slot]
         /\ \A slot \in LibrarySlots : slots'[slot] \in Libraries \cup {Missing}
         /\ \A slot \in ConfigSlots : slots'[slot] \in Values \cup {Missing}
         /\ \A slot \in Slots : Written(slot) => Written(slot)'
         /\ Written(ScriptTxs(c)[i].slot)'
<1>. DEFINE t == ScriptTxs(c)[i].slot
            v == ScriptTxs(c)[i].value
<1>1. t \in Pinned(c) /\ v = ScriptValue(t)
  BY ScriptWrites
<1>. HIDE DEF t, v
<1>2. t \in Slots /\ t \in LibrarySlots \cup ConfigSlots
  BY <1>1, PinnedSlots DEF Pinned
<1>3. slots' = [slots EXCEPT ![t] = v]
  BY DEF t, v
<1>4. slots \in [Slots -> {Missing} \cup {d.remote : d \in Graph} \cup Libraries \cup Values]
  BY DEF EvmInv, TypeOK
<1>5. slots'[t] = v /\ \A slot \in Slots : slot # t => slots'[slot] = slots[slot]
  BY <1>2, <1>3, <1>4
<1>6. /\ t \in LibrarySlots => v \in Libraries
      /\ t \in ConfigSlots => v \in Values
  BY <1>1, ScriptValuesType
<1>7. /\ RemoteSlots \subseteq Slots /\ LibrarySlots \subseteq Slots
      /\ ConfigSlots \subseteq Slots /\ t \notin RemoteSlots
  BY <1>2, SlotKinds DEF Slots
<1>8. slots' \in [Slots -> {Missing} \cup {d.remote : d \in Graph} \cup Libraries \cup Values]
  BY <1>2, <1>3, <1>4, <1>6
<1>9. \A slot \in RemoteSlots : slots'[slot] = slots[slot]
  BY <1>5, <1>7
<1>10. /\ \A slot \in LibrarySlots : slots'[slot] \in Libraries \cup {Missing}
       /\ \A slot \in ConfigSlots : slots'[slot] \in Values \cup {Missing}
  BY <1>5, <1>6, <1>7 DEF EvmInv, TypeOK
<1>11. /\ \A slot \in Slots : Written(slot) => Written(slot)'
       /\ Written(t)'
  BY <1>1, <1>5 DEF Written, ScriptValue
<1>. QED  BY <1>8, <1>9, <1>10, <1>11 DEF t

(* The last one trusts the remote, and writes nothing else. *)
LEMMA WritesRemote ==
  ASSUME EvmInv, NEW c \in Graph,
         slots' = [slots EXCEPT ![ScriptTxs(c)[6].slot] = ScriptTxs(c)[6].value]
  PROVE  /\ slots' \in [Slots -> {Missing} \cup {d.remote : d \in Graph} \cup Libraries \cup Values]
         /\ slots'[RemoteSlot(c)] = c.remote
         /\ \A slot \in Slots : slot # RemoteSlot(c) => slots'[slot] = slots[slot]
<1>1. slots' = [slots EXCEPT ![RemoteSlot(c)] = c.remote]
  BY ScriptWrites
<1>2. slots \in [Slots -> {Missing} \cup {d.remote : d \in Graph} \cup Libraries \cup Values]
  BY DEF EvmInv, TypeOK
<1>3. RemoteSlot(c) \in Slots
  BY PinnedSlots
<1>. DEFINE t == RemoteSlot(c)
            v == c.remote
            V == {Missing} \cup {d.remote : d \in Graph} \cup Libraries \cup Values
<1>4. slots' = [slots EXCEPT ![t] = v] /\ slots \in [Slots -> V] /\ t \in Slots /\ v \in V
  BY <1>1, <1>2, <1>3
<1>. HIDE DEF t, v, V
<1>5. /\ slots' \in [Slots -> V] /\ slots'[t] = v
      /\ \A slot \in Slots : slot # t => slots'[slot] = slots[slot]
  BY <1>4
<1>. QED  BY <1>5 DEF t, v, V

(* A transaction before the last, and the run goes on to the next. *)
LEMMA PinnedTxStep ==
  ASSUME EvmInv, NEW c \in Graph, NEW i \in 1..5,
         \A j \in 1..5 : j < i => Written(ScriptTxs(c)[j].slot),
         slots' = [slots EXCEPT ![ScriptTxs(c)[i].slot] = ScriptTxs(c)[i].value],
         script' = [of |-> c, step |-> i + 1],
         UNCHANGED <<defaults, wire_vars, active, report>>, message' = None
  PROVE  EvmInv'
<1>2. /\ slots' \in [Slots -> {Missing} \cup {d.remote : d \in Graph} \cup Libraries \cup Values]
      /\ \A slot \in RemoteSlots : slots'[slot] = slots[slot]
      /\ \A slot \in LibrarySlots : slots'[slot] \in Libraries \cup {Missing}
      /\ \A slot \in ConfigSlots : slots'[slot] \in Values \cup {Missing}
      /\ \A slot \in Slots : Written(slot) => Written(slot)'
      /\ Written(ScriptTxs(c)[i].slot)'
  BY WritesPinned
<1>3. TypeOK'
  BY <1>2 DEF EvmInv, TypeOK, wire_vars
<1>4. ScriptOK'
  <2>1. ASSUME NEW j \in 1..5, j < i + 1 PROVE Written(ScriptTxs(c)[j].slot)'
    <3>1. CASE j < i
      <4>1. ScriptTxs(c)[j].slot \in Slots
        BY ScriptWrites, PinnedSlots
      <4>. QED  BY <1>2, <3>1, <4>1
    <3>2. CASE j = i
      BY <1>2, <3>2
    <3>. QED  BY <2>1, <3>1, <3>2
  <2>2. script'.of = c /\ script'.step = i + 1 /\ script' \in [of : Graph, step : 1..6]
    OBVIOUS
  <2>3. \A d : ScriptTxs(d)' = ScriptTxs(d)
    BY DEF ScriptTxs, Tx, RemoteTx
  <2>. QED  BY <2>1, <2>2, <2>3 DEF ScriptOK, Written
<1>5. TrustOK'
  <2>. SUFFICES ASSUME NEW d \in Graph, Trusts(d)', NEW slot \in Pinned(d)
                PROVE  Written(slot)'
    BY DEF TrustOK, Pinned
  <2>1. Trusts(d)
    BY <1>2, PinnedSlots DEF Trusts, TrustedRemote, InForce
  <2>2. Written(slot) /\ slot \in Slots
    BY <2>1, PinnedSlots DEF EvmInv, TrustOK
  <2>. QED  BY <1>2, <2>2
<1>. QED
  BY <1>3, <1>4, <1>5
  DEF EvmInv, wire_vars, NothingPending, EveryMessageIsSecured, ReportOK

(* The last transaction, and the run is over. *)
LEMMA RemoteTxStep ==
  ASSUME EvmInv, NEW c \in Graph,
         \A j \in 1..5 : Written(ScriptTxs(c)[j].slot),
         slots' = [slots EXCEPT ![ScriptTxs(c)[6].slot] = ScriptTxs(c)[6].value],
         script' = None,
         UNCHANGED <<defaults, wire_vars, active, report>>, message' = None
  PROVE  EvmInv'
<1>1. /\ slots' \in [Slots -> {Missing} \cup {d.remote : d \in Graph} \cup Libraries \cup Values]
      /\ slots'[RemoteSlot(c)] = c.remote
      /\ \A slot \in Slots : slot # RemoteSlot(c) => slots'[slot] = slots[slot]
  BY WritesRemote
<1>2. \A d \in Graph : \A slot \in Pinned(d) : slots'[slot] = slots[slot]
  BY <1>1, PinnedSlots
<1>3. TypeOK'
  <2>1. RemoteSlot(c).of = c /\ RemoteSlot(c) \in RemoteSlots
    BY PinnedSlots DEF RemoteSlot
  <2>2. /\ RemoteSlots \subseteq Slots /\ LibrarySlots \subseteq Slots
        /\ ConfigSlots \subseteq Slots
    BY DEF Slots
  <2>3. \A slot \in RemoteSlots : slots'[slot] \in {slot.of.remote, Missing}
    BY <1>1, <2>1, <2>2 DEF EvmInv, TypeOK
  <2>4. /\ \A slot \in LibrarySlots : slots'[slot] \in Libraries \cup {Missing}
        /\ \A slot \in ConfigSlots : slots'[slot] \in Values \cup {Missing}
    BY <1>1, <2>1, <2>2, SlotKinds DEF EvmInv, TypeOK
  <2>. QED  BY <1>1, <2>3, <2>4 DEF EvmInv, TypeOK, wire_vars
<1>4. ScriptOK'
  BY DEF ScriptOK
<1>5. TrustOK'
  <2>. SUFFICES ASSUME NEW d \in Graph, Trusts(d)', NEW slot \in Pinned(d)
                PROVE  Written(slot)'
    BY DEF TrustOK, Pinned
  <2>1. CASE d = c
    <3>1. PICK j \in 1..5 : ScriptTxs(c)[j].slot = slot
      BY <2>1, ScriptWrites
    <3>2. Written(slot)
      BY <3>1
    <3>. QED  BY <1>2, <3>2 DEF Written, ScriptValue
  <2>2. CASE d # c
    <3>1. RemoteSlot(d) # RemoteSlot(c) /\ RemoteSlot(d) \in Slots /\ RemoteSlot(d) \in RemoteSlots
      BY <2>2, PinnedSlots, RemoteSlotsDiffer
    <3>2. Trusts(d)
      BY <1>1, <3>1 DEF Trusts, TrustedRemote, InForce
    <3>3. Written(slot)
      BY <3>2 DEF EvmInv, TrustOK
    <3>. QED  BY <1>2, <3>3 DEF Written, ScriptValue
  <2>. QED  BY <2>1, <2>2
<1>. QED
  BY <1>3, <1>4, <1>5
  DEF EvmInv, wire_vars, NothingPending, EveryMessageIsSecured, ReportOK

(* One transaction of the script. *)
LEMMA SendScriptTxStep ==
  ASSUME EvmInv, SendScriptTx, message' = None, UNCHANGED report
  PROVE  EvmInv'
<1>1. PICK c \in Graph, i \in 1..6 : script = [of |-> c, step |-> i]
  BY DEF SendScriptTx, EvmInv, ScriptOK
<1>2. /\ slots' = [slots EXCEPT ![ScriptTxs(c)[i].slot] = ScriptTxs(c)[i].value]
      /\ script' = IF i = 6 THEN None ELSE [script EXCEPT !.step = @ + 1]
      /\ UNCHANGED <<defaults, wire_vars, active>>
  BY <1>1 DEF SendScriptTx
<1>3. \A j \in 1..5 : j < i => Written(ScriptTxs(c)[j].slot)
  BY <1>1 DEF SendScriptTx, EvmInv, ScriptOK
<1>4. CASE i \in 1..5
  <2>1. script' = [of |-> c, step |-> i + 1]
    BY <1>1, <1>2, <1>4
  <2>. QED  BY <1>2, <1>3, <1>4, <2>1, PinnedTxStep
<1>5. CASE i = 6
  <2>1. /\ slots' = [slots EXCEPT ![ScriptTxs(c)[6].slot] = ScriptTxs(c)[6].value]
        /\ script' = None
    BY <1>2, <1>5
  <2>2. \A j \in 1..5 : Written(ScriptTxs(c)[j].slot)
    BY <1>3, <1>5
  <2>. QED  BY <1>2, <2>1, <2>2, RemoteTxStep
<1>. QED  BY <1>1, <1>4, <1>5

(* Every other step of the script writes nothing. *)
LEMMA ScriptStep ==
  ASSUME EvmInv, ScriptNext, UNCHANGED report, message' = None
  PROVE  EvmInv'
<1>1. ASSUME NEW c \in Graph, RunScript(c) PROVE EvmInv'
  <2>1. script' = [of |-> c, step |-> 1] /\ UNCHANGED <<slots, defaults, wire_vars, active>>
    BY <1>1 DEF RunScript
  <2>2. ScriptOK'
    BY <2>1 DEF ScriptOK
  <2>. QED
    BY <2>1, <2>2
    DEF EvmInv, TypeOK, wire_vars, NothingPending, TrustOK, Trusts, TrustedRemote, InForce,
        Written, EveryMessageIsSecured, ReportOK
<1>2. CASE SendScriptTx
  BY <1>2, SendScriptTxStep
<1>3. CASE ScriptBreaksOff
  <2>1. /\ script' = None /\ failures' = failures + 1 /\ failures < MaxFailures
        /\ UNCHANGED <<slots, defaults, pending, new_defaults, active>>
    BY <1>3 DEF ScriptBreaksOff
  <2>2. failures' \in 0..MaxFailures
    BY <2>1, WireBoundsAssumption DEF EvmInv, TypeOK
  <2>. QED
    BY <2>1, <2>2
    DEF EvmInv, TypeOK, NothingPending, ScriptOK, TrustOK, Trusts, TrustedRemote, InForce,
        Written, EveryMessageIsSecured, ReportOK
<1>4. ASSUME NEW a \in Apps, EnableBridge(a) PROVE EvmInv'
  BY <1>4
  DEF EnableBridge, EvmInv, TypeOK, wire_vars, NothingPending, ScriptOK, TrustOK, Trusts,
      TrustedRemote, InForce, Written, EveryMessageIsSecured, ReportOK
<1>. QED  BY <1>1, <1>2, <1>3, <1>4 DEF ScriptNext

-------------------------------------------------------------------------------
(* Reports, and the defaults of LayerZero *)

(* A place in a report, and the cell that is there. *)
LEMMA CellNames ==
  /\ Len(Cells) = 10
  /\ Cells[1] = "executor" /\ Cells[2] = "send_uln" /\ Cells[3] = "send_library"
  /\ Cells[4] = "receive_uln" /\ Cells[5] = "receive_library"
  /\ Cells[6] = "default_receive_library" /\ Cells[7] = "default_send_library"
  /\ Cells[8] = "default_executor" /\ Cells[9] = "default_send_uln"
  /\ Cells[10] = "default_receive_uln"
BY DEF Cells

(* A default library is a library, and what it has by default a configuration. *)
LEMMA DefaultTypes ==
  ASSUME TypeOK
  PROVE  /\ DefaultSendLibrary \in Libraries /\ DefaultReceiveLibrary \in Libraries
         /\ \A library \in Libraries :
              /\ DefaultExecutorConfig(library) \in Values
              /\ DefaultSendConfig(library) \in Values
              /\ DefaultReceiveConfig(library) \in Values
<1>1. ASSUME NEW key \in {[kind |-> "send_library"], [kind |-> "receive_library"]}
      PROVE  defaults[key] \in Libraries
  <2>1. key \in DefaultKeys /\ key.kind \in {"send_library", "receive_library"}
    BY DEF DefaultKeys
  <2>. QED  BY <2>1 DEF TypeOK, DefaultsType
<1>2. ASSUME NEW kind \in {"executor", "uln"}, NEW library \in Libraries
      PROVE  defaults[[kind |-> kind, library |-> library]] \in Values
  <2>. DEFINE key == [kind |-> kind, library |-> library]
  <2>1. key \in DefaultKeys /\ key.kind \notin {"send_library", "receive_library"}
    BY DEF DefaultKeys
  <2>. HIDE DEF key
  <2>2. defaults[key] \in Values
    BY <2>1 DEF TypeOK, DefaultsType
  <2>. QED  BY <2>2 DEF key
<1>. QED
  BY <1>1, <1>2
  DEF DefaultSendLibrary, DefaultReceiveLibrary, DefaultExecutorConfig, DefaultSendConfig,
      DefaultReceiveConfig

(* A cell shows a library or a configuration. *)
LEMMA ReadCellType ==
  ASSUME TypeOK, NEW c \in Graph, NEW n \in 1..10, NEW version,
         Cells[n] \in OfVersion => version \in Libraries
  PROVE  ReadCell(Cells[n], c, version) \in Libraries \cup Values
<1>. DEFINE Both == Libraries \cup Values
<1>1. /\ SendUln301 \in Libraries /\ ReceiveUln301 \in Libraries /\ c.app \in Apps
  BY WireConfigAssumption DEF Apps
<1>2. /\ SendLibrary(c) \in Both /\ ReceiveLibrary(c) \in Both
      /\ ExecutorConfig(c) \in Both /\ SendUlnConfig(c) \in Both /\ ReceiveUlnConfig(c) \in Both
  <2>1. SendLibrarySlot(c.app) \in LibrarySlots /\ ReceiveLibrarySlot(c.app) \in LibrarySlots
    BY <1>1 DEF LibrarySlots
  <2>2. /\ ExecutorSlot(SendUln301, c) \in ConfigSlots /\ UlnSlot(SendUln301, c) \in ConfigSlots
        /\ UlnSlot(ReceiveUln301, c) \in ConfigSlots
    BY <1>1 DEF ConfigSlots
  <2>. QED
    BY <2>1, <2>2, InForceTypes
    DEF SendLibrary, ReceiveLibrary, ExecutorConfig, SendUlnConfig, ReceiveUlnConfig
<1>3. DefaultSendLibrary \in Both /\ DefaultReceiveLibrary \in Both
  BY DefaultTypes
<1>4. ASSUME version \in Libraries
      PROVE  /\ DefaultExecutorConfig(version) \in Both /\ DefaultSendConfig(version) \in Both
             /\ DefaultReceiveConfig(version) \in Both
  BY <1>4, DefaultTypes
<1>5. \/ Cells[n] \in {"executor", "send_uln", "send_library", "receive_uln", "receive_library",
                       "default_receive_library", "default_send_library"}
      \/ Cells[n] \in {"default_executor", "default_send_uln", "default_receive_uln"}
  BY CellNames
<1>. HIDE DEF Both
<1>6. ReadCell(Cells[n], c, version) \in Both
  BY <1>2, <1>3, <1>4, <1>5 DEF ReadCell, OfVersion
<1>. QED  BY <1>6 DEF Both

(* Where a report stands. *)
LEMMA ReadSoFar ==
  ASSUME ReportOK, report # None, ~Complete
  PROVE  /\ Len(report.read) \in Nat /\ Len(report.read) + 1 \in 1..10
         /\ Len(report.read) < 10
<1>1. Len(report.read) \in Nat
  BY LenProperties DEF ReportOK, ReportType
<1>2. Len(report.read) <= 10 /\ Len(report.read) # 10
  BY CellNames DEF ReportOK, Complete
<1>3. \A n \in Nat : n <= 10 /\ n # 10 => n + 1 \in 1..10 /\ n < 10
  OBVIOUS
<1>. QED  BY <1>1, <1>2, <1>3, Zenon

(* What a report gains comes after what it has. *)
LEMMA ReportGains ==
  ASSUME ReportOK, report # None, ~Complete,
         NEW value \in Libraries \cup Values \cup {Missing}, Gains(value)
  PROVE  /\ ReportOK'
         /\ report'.of = report.of /\ report'.version = None
         /\ report'.unwritten = report.unwritten /\ report'.changed = report.changed
         /\ Len(report'.read) = Len(report.read) + 1
         /\ report'.read[Len(report.read) + 1] = value
         /\ \A n \in 1..10 : n <= Len(report.read) => report'.read[n] = report.read[n]
<1>. DEFINE Read == Libraries \cup Values \cup {Missing}
<1>1. report \in ReportType /\ report.read \in Seq(Read)
  BY DEF ReportOK, ReportType
<1>. HIDE DEF Read
<1>2. /\ Append(report.read, value) \in Seq(Read)
      /\ Len(Append(report.read, value)) = Len(report.read) + 1
      /\ Append(report.read, value)[Len(report.read) + 1] = value
      /\ \A n \in 1..Len(report.read) : Append(report.read, value)[n] = report.read[n]
  BY <1>1, AppendProperties DEF Read
<1>3. report' = [report EXCEPT !.read = Append(report.read, value), !.version = None]
  BY DEF Gains
<1>4. /\ report'.of = report.of /\ report'.version = None
      /\ report'.unwritten = report.unwritten /\ report'.changed = report.changed
      /\ report'.read = Append(report.read, value)
      /\ report' = [of |-> report.of, read |-> Append(report.read, value), version |-> None,
                    unwritten |-> report.unwritten, changed |-> report.changed]
  BY <1>1, <1>3 DEF ReportType
<1>5. report' \in ReportType
  BY <1>1, <1>2, <1>4 DEF ReportType, Read
<1>6. Len(report.read) + 1 <= 10
  BY ReadSoFar
<1>7. ReportOK'
  BY <1>2, <1>4, <1>5, <1>6, CellNames DEF ReportOK, ReportType
<1>8. \A n \in 1..10 : n <= Len(report.read) => n \in 1..Len(report.read)
  BY ReadSoFar
<1>. QED  BY <1>2, <1>4, <1>7, <1>8

(* What the next value is, when it is read. *)
LEMMA ReadsTheNext ==
  ASSUME TypeOK, ReportOK, ReadNext
  PROVE  LET n == Len(report.read) + 1
             value == ReadCell(Cells[n], report.of, report.version)
         IN  /\ report # None /\ ~Complete
             /\ Cells[n] \in OfVersion => report.version # None
             /\ value \in Libraries \cup Values
             /\ Gains(value)
<1>. DEFINE n == Len(report.read) + 1
<1>1. PICK cell : /\ Reading(cell)
                  /\ cell \in OfVersion => report.version # None
                  /\ Gains(ReadCell(cell, report.of, report.version))
  BY DEF ReadNext
<1>2. report # None /\ ~Complete /\ cell = Cells[n]
  BY <1>1 DEF Reading
<1>3. n \in 1..10 /\ report.of \in Graph /\ report.version \in Libraries \cup {None}
  BY <1>2, ReadSoFar DEF ReportOK, ReportType
<1>. HIDE DEF n
<1>4. Cells[n] \in OfVersion => report.version \in Libraries
  BY <1>1, <1>2, <1>3
<1>5. ReadCell(Cells[n], report.of, report.version) \in Libraries \cup Values
  BY <1>3, <1>4, ReadCellType
<1>. QED  BY <1>1, <1>2, <1>5 DEF n

(* Where the version of a default library is read. *)
LEMMA ReadsVersion ==
  ASSUME TypeOK, ReportOK, ReadVersion
  PROVE  LET n == Len(report.read) + 1
         IN  /\ report # None /\ ~Complete
             /\ ReportOK'
             /\ report'.of = report.of /\ report'.read = report.read
             /\ report'.version = DefaultVersion(Cells[n])
             /\ report'.unwritten = report.unwritten /\ report'.changed = report.changed
<1>1. PICK cell \in OfVersion : /\ Reading(cell)
                                /\ report' = [report EXCEPT !.version = DefaultVersion(cell)]
  BY DEF ReadVersion
<1>2. DefaultVersion(cell) \in Libraries
  BY DefaultTypes DEF DefaultVersion
<1>3. report \in ReportType /\ Len(report.read) <= Len(Cells)
  BY <1>1 DEF Reading, ReportOK
<1>4. /\ report'.of = report.of /\ report'.read = report.read
      /\ report'.version = DefaultVersion(cell)
      /\ report'.unwritten = report.unwritten /\ report'.changed = report.changed
      /\ report' \in ReportType
  BY <1>1, <1>2, <1>3 DEF ReportType
<1>. QED  BY <1>1, <1>3, <1>4 DEF Reading, ReportOK, ReportType

(* How a report begins. *)
LEMMA StartsReport ==
  ASSUME NEW c \in Graph, StartReport(c)
  PROVE  /\ ReportOK' /\ report'.of = c /\ report'.read = <<>> /\ report'.version = None
         /\ report'.unwritten = {slot \in SlotsShown(c) : slots[slot] = Missing}
<1>. DEFINE unwritten == {slot \in SlotsShown(c) : slots[slot] = Missing}
<1>1. unwritten \subseteq Slots
  BY ShownSlots
<1>2. report' = [of |-> c, read |-> <<>>, version |-> None, changed |-> {}, unwritten |-> unwritten]
  BY DEF StartReport
<1>. HIDE DEF unwritten
<1>3. report' \in ReportType
  BY <1>1, <1>2 DEF ReportType
<1>4. /\ report'.of = c /\ report'.read = <<>> /\ report'.version = None
      /\ report'.unwritten = unwritten
  BY <1>2
<1>5. Len(report'.read) <= Len(Cells)
  BY <1>4, CellNames
<1>. QED  BY <1>3, <1>4, <1>5 DEF unwritten, ReportOK, ReportType

(* A change of a default is kept with the report that lasts. *)
LEMMA NotesChange ==
  ASSUME ReportOK, NEW key \in DefaultKeys, NoteChange(key)
  PROVE  /\ ReportOK'
         /\ report' # None =>
              /\ report # None
              /\ report'.of = report.of /\ report'.read = report.read
              /\ report'.version = report.version /\ report'.unwritten = report.unwritten
              /\ report'.changed = report.changed \cup {key}
<1>1. CASE report = None
  BY <1>1 DEF NoteChange, ReportOK
<1>2. CASE report # None
  <2>1. report \in ReportType /\ report' = [report EXCEPT !.changed = @ \cup {key}]
    BY <1>2 DEF NoteChange, ReportOK
  <2>2. /\ report'.of = report.of /\ report'.read = report.read
        /\ report'.version = report.version /\ report'.unwritten = report.unwritten
        /\ report'.changed = report.changed \cup {key}
        /\ report' \in ReportType
    BY <2>1 DEF ReportType
  <2>. QED  BY <1>2, <2>2 DEF ReportOK, ReportType
<1>. QED  BY <1>1, <1>2

(* A report gains one value, or the version it needs for one, or is begun
   anew. *)
LEMMA ReportStep ==
  ASSUME EvmInv, ReportNext, message' = None
  PROVE  EvmInv'
<1>1. ASSUME ReadNext PROVE ReportOK'
  BY <1>1, ReadsTheNext, ReportGains DEF EvmInv
<1>2. ASSUME ReadFails PROVE ReportOK'
  BY <1>2, ReportGains DEF EvmInv, ReadFails
<1>3. ReportOK'
  BY <1>1, <1>2, ReadsVersion, StartsReport DEF EvmInv, ReportNext
<1>4. UNCHANGED <<slots, defaults, pending, new_defaults, evm_vars>>
  BY DEF ReportNext, StartReport, ReadVersion, ReadNext, ReadFails, wire_vars
<1>5. failures' \in 0..MaxFailures
  BY WireBoundsAssumption
  DEF ReportNext, StartReport, ReadVersion, ReadNext, ReadFails, wire_vars, EvmInv, TypeOK
<1>. QED
  BY <1>3, <1>4, <1>5
  DEF EvmInv, TypeOK, evm_vars, NothingPending, ScriptOK, TrustOK, Trusts, TrustedRemote,
      InForce, Written, EveryMessageIsSecured

(* LayerZero changes defaults, and nothing that was written. *)
LEMMA LayerZeroStep ==
  ASSUME EvmInv, LayerZeroNext, message' = None
  PROVE  EvmInv'
<1>1. /\ defaults' \in DefaultsType /\ new_defaults < MaxNewDefaults
      /\ new_defaults' = new_defaults + 1
      /\ UNCHANGED <<slots, pending, failures, evm_vars>>
  BY DEF LayerZeroNext, NewDefault
<1>2. new_defaults' \in 0..MaxNewDefaults
  BY <1>1, WireBoundsAssumption DEF EvmInv, TypeOK
<1>3. TrustOK'
  <2>. SUFFICES ASSUME NEW c \in Graph, Trusts(c)' PROVE Trusts(c)
    BY <1>1 DEF EvmInv, TrustOK, Written
  <2>. QED  BY <1>1, PinnedSlots DEF Trusts, TrustedRemote, InForce
<1>4. ReportOK'
  BY NotesChange DEF EvmInv, LayerZeroNext
<1>. QED
  BY <1>1, <1>2, <1>3, <1>4
  DEF EvmInv, TypeOK, evm_vars, NothingPending, ScriptOK, Written, EveryMessageIsSecured

-------------------------------------------------------------------------------
LEMMA EvmInvHolds == EvmSpec => []EvmInv
<1>1. EvmInv /\ [EvmNext]_all_vars => EvmInv'
  <2>. SUFFICES ASSUME EvmInv, [EvmNext]_all_vars PROVE EvmInv'
    OBVIOUS
  <2>1. CASE EvmNext
    BY <2>1, MessageStep, ScriptStep, ReportStep, LayerZeroStep DEF EvmNext
  <2>2. CASE UNCHANGED all_vars
    BY <2>2
    DEF all_vars, wire_vars, evm_vars, EvmInv, TypeOK, NothingPending, ScriptOK, TrustOK,
        Trusts, TrustedRemote, InForce, Written, EveryMessageIsSecured, ReportOK
  <2>. QED  BY <2>1, <2>2
<1>. QED  BY <1>1, EvmInitInv, PTL DEF EvmSpec

(* No message goes by the defaults of LayerZero, at any time, for any bridges
   and remotes, wherever runs of the script broke off. *)
THEOREM MessagesAlwaysSecured == EvmSpec => []EveryMessageIsSecured
<1>1. EvmInv => EveryMessageIsSecured
  BY DEF EvmInv
<1>. QED  BY <1>1, EvmInvHolds, PTL

(* A run of the script always has written what precedes its next transaction,
   whatever was run before it. *)
THEOREM EvmTypes == EvmSpec => []EvmTypeOK
<1>1. EvmInv => EvmTypeOK
  <2>. SUFFICES ASSUME EvmInv PROVE EvmTypeOK
    OBVIOUS
  <2>1. ASSUME script # None, NEW i \in 1..(script.step - 1)
        PROVE  slots[ScriptTxs(script.of)[i].slot] = ScriptTxs(script.of)[i].value
    <3>1. script.of \in Graph /\ i \in 1..5 /\ i < script.step
      BY <2>1 DEF EvmInv, ScriptOK
    <3>2. Written(ScriptTxs(script.of)[i].slot)
      BY <2>1, <3>1 DEF EvmInv, ScriptOK
    <3>. QED  BY <3>1, <3>2, ScriptWrites DEF Written
  <2>. QED  BY <2>1 DEF EvmInv, EvmTypeOK, ScriptOK, ReportOK, ReportType
<1>. QED  BY <1>1, EvmInvHolds, PTL

-------------------------------------------------------------------------------
(* What holds of a report, of the cells that were read.

   An active cell shows what is in force in its slot, unless that was not
   written when the report began, and was written since, or the default of the
   slot has changed: for what is written stays (WrittenOK).  Of a remote that
   was trusted when the report began, the script had written everything
   (TrustedOK).  A default cell shows the default it is of, unless that or the
   default library has changed (DefaultOK). *)

(* The slot that an active cell shows, by its place in the report. *)
CellSlot(n, c) == ActiveSlot(Cells[n], c)

GaveWay(slot) ==
  slot \in report.unwritten /\ (slots[slot] # Missing \/ DefaultKey(slot) \in report.changed)

WrittenOK ==
  \A slot \in LibrarySlots \cup ConfigSlots : slots[slot] \in {Missing, ScriptValue(slot)}

ActiveOK ==
  report # None =>
    \A c \in Graph, n \in 1..5 : c = report.of =>
      /\ CellSlot(n, c) \notin report.unwritten => slots[CellSlot(n, c)] # Missing
      /\ n <= Len(report.read) =>
           report.read[n] \in {InForce(CellSlot(n, c)), Missing} \/ GaveWay(CellSlot(n, c))

TrustedOK ==
  report # None =>
    \A c \in Graph : c = report.of /\ RemoteSlot(c) \notin report.unwritten =>
      Trusts(c) /\ \A slot \in Pinned(c) : slot \notin report.unwritten

(* The default library of a default cell, and the default that it shows. *)
LibraryKey(n) == [kind |-> IF n \in {6, 10} THEN "receive_library" ELSE "send_library"]

ShownKey(n) ==
  IF n \in {6, 7} THEN LibraryKey(n)
  ELSE [kind |-> IF n = 8 THEN "executor" ELSE "uln", library |-> defaults[LibraryKey(n)]]

DefaultOK ==
  report # None =>
    \A n \in 6..10 :
      /\ /\ n <= Len(report.read)
         /\ LibraryKey(n) \notin report.changed /\ ShownKey(n) \notin report.changed
         => report.read[n] \in {defaults[ShownKey(n)], Missing}
      /\ /\ n = Len(report.read) + 1 /\ report.version # None
         /\ LibraryKey(n) \notin report.changed
         => report.version = defaults[LibraryKey(n)]

ReportInv == EvmInv /\ WrittenOK /\ ActiveOK /\ TrustedOK /\ DefaultOK

-------------------------------------------------------------------------------
(* The first five cells are the active ones. *)
LEMMA ActivePlaces ==
  ASSUME NEW c \in Graph, NEW n \in 1..5, NEW version
  PROVE  /\ Cells[n] \in ActiveCells
         /\ ReadCell(Cells[n], c, version) = InForce(CellSlot(n, c))
         /\ CellSlot(n, c) \in LibrarySlots \cup ConfigSlots
         /\ CellSlot(n, c) \in Slots /\ CellSlot(n, c) \in SlotsShown(c)
         /\ CellSlot(n, c) \notin RemoteSlots
<1>1. n = 1 \/ n = 2 \/ n = 3 \/ n = 4 \/ n = 5
  OBVIOUS
<1>2. Cells[n] \in ActiveCells
  BY <1>1, CellNames DEF ActiveCells
<1>3. ReadCell(Cells[n], c, version) = InForce(CellSlot(n, c))
  BY <1>1, CellNames
  DEF CellSlot, ActiveSlot, ReadCell, ExecutorConfig, SendUlnConfig, SendLibrary,
      ReceiveUlnConfig, ReceiveLibrary
<1>. QED  BY <1>2, <1>3, ShownSlots, SlotKinds DEF CellSlot, Slots

(* The last five are the defaults. *)
LEMMA DefaultPlaces ==
  ASSUME NEW c \in Graph, NEW n \in 6..10, NEW version,
         n \in 8..10 => version = defaults[LibraryKey(n)]
  PROVE  ReadCell(Cells[n], c, version) = defaults[ShownKey(n)]
<1>1. n = 6 \/ n = 7 \/ n = 8 \/ n = 9 \/ n = 10
  OBVIOUS
<1>. QED
  BY <1>1, CellNames
  DEF ReadCell, ShownKey, LibraryKey, DefaultReceiveLibrary, DefaultSendLibrary,
      DefaultExecutorConfig, DefaultSendConfig, DefaultReceiveConfig

(* What is written is what the script sets, and stays. *)
LEMMA WrittenStays ==
  ASSUME EvmInv, WrittenOK, EvmNext
  PROVE  /\ WrittenOK'
         /\ \A slot \in LibrarySlots \cup ConfigSlots :
              slots[slot] # Missing => slots'[slot] = slots[slot]
         /\ \A c \in Graph : Trusts(c) => Trusts(c)'
<1>1. CASE UNCHANGED slots
  BY <1>1, PinnedSlots DEF WrittenOK, ScriptValue, Trusts, TrustedRemote, InForce
<1>2. CASE SendScriptTx
  <2>1. PICK c \in Graph, i \in 1..6 : script = [of |-> c, step |-> i]
    BY <1>2 DEF SendScriptTx, EvmInv, ScriptOK
  <2>. DEFINE t == ScriptTxs(c)[i].slot
              v == ScriptTxs(c)[i].value
  <2>2. slots' = [slots EXCEPT ![t] = v]
    BY <1>2, <2>1 DEF SendScriptTx
  <2>3. \A slot \in LibrarySlots \cup ConfigSlots : t = slot => v = ScriptValue(slot)
    <3>1. CASE i \in 1..5
      BY <3>1, ScriptWrites
    <3>2. CASE i = 6
      BY <3>2, ScriptWrites, PinnedSlots, SlotKinds
    <3>. QED  BY <3>1, <3>2
  <2>4. \A d \in Graph : t = RemoteSlot(d) => v = d.remote
    <3>1. CASE i \in 1..5
      BY <3>1, ScriptWrites, PinnedSlots
    <3>2. CASE i = 6
      BY <3>2, ScriptWrites, RemoteSlotsDiffer
    <3>. QED  BY <3>1, <3>2
  <2>. HIDE DEF t, v
  <2>5. slots \in [Slots -> {Missing} \cup {d.remote : d \in Graph} \cup Libraries \cup Values]
    BY DEF EvmInv, TypeOK
  <2>6. \A slot \in Slots : slots'[slot] = IF slot = t THEN v ELSE slots[slot]
    BY <2>2, <2>5
  <2>7. \A slot \in LibrarySlots \cup ConfigSlots :
          slots'[slot] \in {slots[slot], ScriptValue(slot)} /\ slot \in Slots
    BY <2>3, <2>6 DEF Slots
  <2>8. \A d \in Graph : slots[RemoteSlot(d)] = d.remote => slots'[RemoteSlot(d)] = d.remote
    BY <2>4, <2>6, PinnedSlots
  <2>9. \A d \in Graph : Trusts(d) => Trusts(d)'
    BY <2>8, PinnedSlots DEF Trusts, TrustedRemote, InForce
  <2>10. WrittenOK'
    BY <2>7 DEF WrittenOK, ScriptValue
  <2>. QED  BY <2>7, <2>9, <2>10 DEF WrittenOK
<1>3. UNCHANGED slots \/ SendScriptTx
  BY DEF EvmNext, MessageNext, SendOhm, ReceiveOhm, ScriptNext, RunScript, ScriptBreaksOff,
         EnableBridge, ReportNext, StartReport, ReadVersion, ReadNext, ReadFails, LayerZeroNext,
         NewDefault
<1>. QED  BY <1>1, <1>2, <1>3

(* How a step leaves the report: as it is, begun anew, with a default more
   that has changed, with a version, or with a value more, read or Missing. *)
Kept     == UNCHANGED <<report, defaults>>
Begun    == \E c \in Graph : StartReport(c)
Changes  == \E key \in DefaultKeys, value \in Libraries \cup Values :
              NewDefault(key, value) /\ NoteChange(key)
Versions == ReadVersion
Gained   == /\ report # None /\ ~Complete
            /\ \E value \in Libraries \cup Values \cup {Missing} :
                 /\ Gains(value)
                 /\ LET n == Len(report.read) + 1
                    IN  \/ value = Missing
                        \/ /\ value = ReadCell(Cells[n], report.of, report.version)
                           /\ Cells[n] \in OfVersion => report.version # None
            /\ UNCHANGED <<slots, defaults>>

LEMMA ReportBecomes ==
  ASSUME EvmInv, EvmNext
  PROVE  Kept \/ Begun \/ Changes \/ Versions \/ Gained
<1>1. CASE MessageNext /\ UNCHANGED report
  BY <1>1 DEF MessageNext, SendOhm, ReceiveOhm, Kept
<1>2. CASE ScriptNext /\ UNCHANGED report
  BY <1>2 DEF ScriptNext, RunScript, SendScriptTx, ScriptBreaksOff, EnableBridge, Kept
<1>3. CASE ReadNext
  <2>. DEFINE value == ReadCell(Cells[Len(report.read) + 1], report.of, report.version)
  <2>1. /\ report # None /\ ~Complete
        /\ Cells[Len(report.read) + 1] \in OfVersion => report.version # None
        /\ value \in Libraries \cup Values /\ Gains(value)
    BY <1>3, ReadsTheNext DEF EvmInv
  <2>2. UNCHANGED <<slots, defaults>>
    BY <1>3 DEF ReadNext
  <2>. QED  BY <2>1, <2>2 DEF Gained
<1>4. CASE ReadFails
  BY <1>4 DEF ReadFails, Gained
<1>. QED  BY <1>1, <1>2, <1>3, <1>4 DEF EvmNext, ReportNext, LayerZeroNext, Begun, Changes, Versions

(* The active cells: what is in force in a slot stays, or the slot gives way. *)
LEMMA SlotStays ==
  ASSUME EvmInv, WrittenOK, EvmNext, UNCHANGED defaults, report # None,
         report'.unwritten = report.unwritten, report'.changed = report.changed,
         NEW slot \in LibrarySlots \cup ConfigSlots,
         slot \notin report.unwritten => slots[slot] # Missing
  PROVE  /\ slot \notin report'.unwritten => slots'[slot] # Missing
         /\ InForce(slot)' = InForce(slot) \/ GaveWay(slot)'
         /\ GaveWay(slot) => GaveWay(slot)'
<1>1. slots[slot] # Missing => slots'[slot] = slots[slot]
  BY WrittenStays
<1>2. CASE slots'[slot] = slots[slot]
  BY <1>2 DEF InForce, GaveWay, DefaultKey
<1>3. CASE slots'[slot] # slots[slot]
  BY <1>1, <1>3 DEF GaveWay
<1>. QED  BY <1>1, <1>2, <1>3

LEMMA ActiveStep ==
  ASSUME EvmInv, WrittenOK, ActiveOK, EvmNext
  PROVE  ActiveOK'
<1>. SUFFICES ASSUME report' # None, NEW c \in Graph, c = report'.of, NEW n \in 1..5
     PROVE  /\ CellSlot(n, c) \notin report'.unwritten => slots'[CellSlot(n, c)] # Missing
            /\ n <= Len(report'.read) =>
                 \/ report'.read[n] \in {InForce(CellSlot(n, c))', Missing}
                 \/ GaveWay(CellSlot(n, c))'
  BY DEF ActiveOK, CellSlot, ActiveSlot
<1>. DEFINE slot == CellSlot(n, c)
<1>0. /\ slot \in LibrarySlots \cup ConfigSlots /\ slot \in SlotsShown(c)
      /\ slot \notin RemoteSlots
  BY ActivePlaces
<1>. HIDE DEF slot
<1>1. CASE Kept
  <2>1. /\ slot \notin report.unwritten => slots[slot] # Missing
        /\ n <= Len(report.read) => report.read[n] \in {InForce(slot), Missing} \/ GaveWay(slot)
    BY <1>1 DEF Kept, ActiveOK, slot
  <2>2. /\ report # None /\ UNCHANGED defaults /\ report' = report
    BY <1>1 DEF Kept
  <2>3. /\ slot \notin report'.unwritten => slots'[slot] # Missing
        /\ InForce(slot)' = InForce(slot) \/ GaveWay(slot)'
        /\ GaveWay(slot) => GaveWay(slot)'
    BY <1>0, <2>1, <2>2, SlotStays
  <2>. QED  BY <2>1, <2>2, <2>3 DEF slot
<1>2. CASE Begun
  <2>1. PICK d \in Graph : StartReport(d)
    BY <1>2 DEF Begun
  <2>2. /\ c = d /\ report'.read = <<>>
        /\ report'.unwritten = {s \in SlotsShown(d) : slots[s] = Missing}
        /\ UNCHANGED slots
    BY <2>1, StartsReport DEF StartReport
  <2>. QED  BY <1>0, <2>2 DEF slot
<1>3. CASE Changes
  <2>1. PICK key \in DefaultKeys, value \in Libraries \cup Values :
          NewDefault(key, value) /\ NoteChange(key)
    BY <1>3 DEF Changes
  <2>2. /\ report # None /\ report'.of = report.of /\ report'.read = report.read
        /\ report'.unwritten = report.unwritten
        /\ report'.changed = report.changed \cup {key}
    BY <2>1, NotesChange DEF EvmInv
  <2>3. /\ UNCHANGED slots /\ defaults \in [DefaultKeys -> Libraries \cup Values]
        /\ defaults' = [defaults EXCEPT ![key] = value]
    BY <2>1 DEF NewDefault, EvmInv, TypeOK, DefaultsType
  <2>4. /\ slot \notin report.unwritten => slots[slot] # Missing
        /\ n <= Len(report.read) => report.read[n] \in {InForce(slot), Missing} \/ GaveWay(slot)
    BY <2>2 DEF ActiveOK, slot
  <2>5. CASE slots[slot] # Missing \/ DefaultKey(slot) # key
    <3>1. InForce(slot)' = InForce(slot)
      <4>1. DefaultKey(slot) # key => defaults'[DefaultKey(slot)] = defaults[DefaultKey(slot)]
        BY <2>3
      <4>. QED  BY <2>3, <2>5, <4>1 DEF InForce, DefaultKey
    <3>2. GaveWay(slot) => GaveWay(slot)'
      BY <2>2, <2>3 DEF GaveWay, DefaultKey
    <3>. QED  BY <2>2, <2>3, <2>4, <3>1, <3>2 DEF slot
  <2>6. CASE slots[slot] = Missing /\ DefaultKey(slot) = key
    <3>1. GaveWay(slot)'
      BY <2>2, <2>3, <2>4, <2>6 DEF GaveWay, DefaultKey
    <3>. QED  BY <2>2, <2>3, <2>4, <3>1 DEF slot
  <2>. QED  BY <2>5, <2>6
<1>4. CASE Versions
  <2>1. /\ report # None /\ report'.of = report.of /\ report'.read = report.read
        /\ report'.unwritten = report.unwritten /\ report'.changed = report.changed
    BY <1>4, ReadsVersion DEF Versions, EvmInv
  <2>2. UNCHANGED <<slots, defaults>>
    BY <1>4 DEF Versions, ReadVersion
  <2>3. /\ slot \notin report.unwritten => slots[slot] # Missing
        /\ n <= Len(report.read) => report.read[n] \in {InForce(slot), Missing} \/ GaveWay(slot)
    BY <2>1 DEF ActiveOK, slot
  <2>. QED  BY <2>1, <2>2, <2>3 DEF slot, InForce, GaveWay, DefaultKey
<1>5. CASE Gained
  <2>1. PICK value \in Libraries \cup Values \cup {Missing} :
          /\ report # None /\ ~Complete /\ Gains(value) /\ UNCHANGED <<slots, defaults>>
          /\ \/ value = Missing
             \/ value = ReadCell(Cells[Len(report.read) + 1], report.of, report.version)
    BY <1>5 DEF Gained
  <2>2. /\ report'.of = report.of
        /\ report'.unwritten = report.unwritten /\ report'.changed = report.changed
        /\ Len(report'.read) = Len(report.read) + 1
        /\ report'.read[Len(report.read) + 1] = value
        /\ \A i \in 1..10 : i <= Len(report.read) => report'.read[i] = report.read[i]
    BY <2>1, ReportGains DEF EvmInv
  <2>3. /\ slot \notin report.unwritten => slots[slot] # Missing
        /\ n <= Len(report.read) => report.read[n] \in {InForce(slot), Missing} \/ GaveWay(slot)
    BY <2>1, <2>2 DEF ActiveOK, slot
  <2>4. InForce(slot)' = InForce(slot) /\ (GaveWay(slot) => GaveWay(slot)')
    BY <2>1, <2>2 DEF InForce, GaveWay, DefaultKey
  <2>5. CASE n <= Len(report.read)
    <3>1. report'.read[n] = report.read[n]
      BY <2>2, <2>5
    <3>. QED  BY <2>1, <2>2, <2>3, <2>4, <2>5, <3>1 DEF slot
  <2>6. CASE n = Len(report.read) + 1
    <3>1. report'.read[n] \in {InForce(slot), Missing}
      BY <2>1, <2>2, <2>6, ActivePlaces DEF slot
    <3>. QED  BY <2>1, <2>2, <2>3, <2>4, <3>1 DEF slot
  <2>7. n <= Len(report.read) + 1 => n <= Len(report.read) \/ n = Len(report.read) + 1
    BY <2>1, ReadSoFar DEF EvmInv
  <2>8. CASE ~(n <= Len(report'.read))
    BY <2>1, <2>2, <2>3, <2>8 DEF slot
  <2>. QED  BY <2>2, <2>5, <2>6, <2>7, <2>8
<1>. QED  BY <1>1, <1>2, <1>3, <1>4, <1>5, ReportBecomes

(* A remote that was trusted when a report began had its slots written, and
   stays trusted. *)
LEMMA TrustedStep ==
  ASSUME EvmInv, WrittenOK, TrustedOK, EvmNext
  PROVE  TrustedOK'
<1>. SUFFICES ASSUME report' # None, NEW c \in Graph, c = report'.of,
                     RemoteSlot(c) \notin report'.unwritten
              PROVE  Trusts(c)' /\ \A slot \in Pinned(c) : slot \notin report'.unwritten
  BY DEF TrustedOK, Pinned
<1>1. CASE Begun
  <2>1. PICK d \in Graph : StartReport(d)
    BY <1>1 DEF Begun
  <2>2. /\ c = d /\ UNCHANGED slots
        /\ report'.unwritten = {s \in SlotsShown(c) : slots[s] = Missing}
    BY <2>1, StartsReport DEF StartReport
  <2>3. slots[RemoteSlot(c)] # Missing
    BY <2>2, ShownSlots
  <2>4. slots[RemoteSlot(c)] = c.remote
    <3>1. RemoteSlot(c).of = c /\ RemoteSlot(c) \in RemoteSlots
      BY PinnedSlots DEF RemoteSlot
    <3>. QED  BY <2>3, <3>1 DEF EvmInv, TypeOK
  <2>5. Trusts(c)
    BY <2>4, PinnedSlots DEF Trusts, TrustedRemote, InForce
  <2>6. \A slot \in Pinned(c) : slots[slot] # Missing
    BY <2>5, ScriptValuesType DEF EvmInv, TrustOK, Written
  <2>7. Trusts(c)'
    BY <2>5, WrittenStays
  <2>. QED  BY <2>2, <2>6, <2>7
<1>2. CASE ~Begun
  <2>1. report # None /\ report'.of = report.of /\ report'.unwritten = report.unwritten
    <3>1. CASE Kept
      BY <3>1 DEF Kept
    <3>2. CASE Changes
      BY <3>2, NotesChange DEF Changes, EvmInv
    <3>3. CASE Versions
      BY <3>3, ReadsVersion DEF Versions, EvmInv
    <3>4. CASE Gained
      BY <3>4, ReportGains DEF Gained, EvmInv
    <3>. QED  BY <1>2, <3>1, <3>2, <3>3, <3>4, ReportBecomes
  <2>2. Trusts(c) /\ \A slot \in Pinned(c) : slot \notin report.unwritten
    BY <2>1 DEF TrustedOK
  <2>. QED  BY <2>1, <2>2, WrittenStays
<1>. QED  BY <1>1, <1>2

(* The default cells: what has not changed is what was read. *)
LEMMA DefaultStep ==
  ASSUME EvmInv, DefaultOK, EvmNext
  PROVE  DefaultOK'
<1>. DEFINE Good(n) ==
       /\ /\ n <= Len(report.read)
          /\ LibraryKey(n) \notin report.changed /\ ShownKey(n) \notin report.changed
          => report.read[n] \in {defaults[ShownKey(n)], Missing}
       /\ /\ n = Len(report.read) + 1 /\ report.version # None
          /\ LibraryKey(n) \notin report.changed
          => report.version = defaults[LibraryKey(n)]
<1>. SUFFICES ASSUME report' # None, NEW n \in 6..10 PROVE Good(n)'
  BY DEF DefaultOK
<1>0. report # None => Good(n)
  BY DEF DefaultOK
<1>a. /\ LibraryKey(n) \in DefaultKeys
      /\ UNCHANGED defaults => ShownKey(n)' = ShownKey(n)
  BY DEF LibraryKey, DefaultKeys, ShownKey
<1>b. report # None => Len(report.read) \in Nat
  BY LenProperties DEF EvmInv, ReportOK, ReportType
<1>1. CASE Kept
  BY <1>0, <1>1, <1>a DEF Kept
<1>2. CASE Begun
  <2>1. report'.read = <<>> /\ report'.version = None
    BY <1>2, StartsReport DEF Begun
  <2>2. Len(report'.read) = 0
    BY <2>1
  <2>. QED  BY <2>1, <2>2
<1>3. CASE Changes
  <2>1. PICK key \in DefaultKeys, value \in Libraries \cup Values :
          NewDefault(key, value) /\ NoteChange(key)
    BY <1>3 DEF Changes
  <2>2. /\ report # None /\ report'.read = report.read /\ report'.version = report.version
        /\ report'.changed = report.changed \cup {key}
    BY <2>1, NotesChange DEF EvmInv
  <2>3. \A k \in DefaultKeys : k # key => defaults'[k] = defaults[k]
    BY <2>1 DEF NewDefault, EvmInv, TypeOK, DefaultsType
  <2>4. CASE LibraryKey(n) = key
    BY <2>2, <2>4 DEF LibraryKey
  <2>5. CASE LibraryKey(n) # key
    <3>1. /\ defaults'[LibraryKey(n)] = defaults[LibraryKey(n)]
          /\ ShownKey(n)' = ShownKey(n)
      BY <1>a, <2>3, <2>5 DEF ShownKey, LibraryKey
    <3>2. ShownKey(n) \in DefaultKeys
      BY <1>a, DefaultTypes
      DEF ShownKey, LibraryKey, DefaultKeys, EvmInv, DefaultSendLibrary, DefaultReceiveLibrary
    <3>3. ShownKey(n) # key => defaults'[ShownKey(n)] = defaults[ShownKey(n)]
      BY <2>3, <3>2
    <3>4. LibraryKey(n)' = LibraryKey(n)
      BY DEF LibraryKey
    <3>. HIDE DEF Good
    <3>. QED  BY <1>0, <2>2, <3>1, <3>3, <3>4 DEF Good
  <2>. QED  BY <2>4, <2>5
<1>4. CASE Versions
  <2>1. /\ report # None /\ ~Complete
        /\ report'.read = report.read /\ report'.changed = report.changed
        /\ report'.version = DefaultVersion(Cells[Len(report.read) + 1])
    BY <1>4, ReadsVersion DEF Versions, EvmInv
  <2>2. UNCHANGED defaults
    BY <1>4 DEF Versions, ReadVersion
  <2>3. DefaultVersion(Cells[n]) = defaults[LibraryKey(n)] \/ n = 6
    <3>1. n = 6 \/ n = 7 \/ n = 8 \/ n = 9 \/ n = 10
      OBVIOUS
    <3>. QED
      BY <3>1, CellNames
      DEF DefaultVersion, LibraryKey, DefaultSendLibrary, DefaultReceiveLibrary
  <2>4. n = Len(report.read) + 1 => n # 6
    <3>1. Cells[Len(report.read) + 1] \in OfVersion
      BY <1>4 DEF Versions, ReadVersion, Reading
    <3>. QED  BY <3>1, CellNames DEF OfVersion
  <2>. QED  BY <1>0, <1>a, <2>1, <2>2, <2>3, <2>4 DEF LibraryKey
<1>5. CASE Gained
  <2>1. PICK value \in Libraries \cup Values \cup {Missing} :
          /\ report # None /\ ~Complete /\ Gains(value) /\ UNCHANGED <<slots, defaults>>
          /\ \/ value = Missing
             \/ /\ value = ReadCell(Cells[Len(report.read) + 1], report.of, report.version)
                /\ Cells[Len(report.read) + 1] \in OfVersion => report.version # None
    BY <1>5 DEF Gained
  <2>2. /\ report'.version = None /\ report'.changed = report.changed
        /\ Len(report'.read) = Len(report.read) + 1
        /\ report'.read[Len(report.read) + 1] = value
        /\ \A i \in 1..10 : i <= Len(report.read) => report'.read[i] = report.read[i]
    BY <2>1, ReportGains DEF EvmInv
  <2>3. /\ LibraryKey(n)' = LibraryKey(n) /\ ShownKey(n)' = ShownKey(n)
        /\ UNCHANGED defaults
    BY <1>a, <2>1 DEF LibraryKey
  <2>4. CASE n <= Len(report.read)
    <3>1. report'.read[n] = report.read[n]
      BY <2>2, <2>4
    <3>. QED  BY <1>0, <2>1, <2>2, <2>3, <2>4, <3>1
  <2>5. CASE n = Len(report.read) + 1
    <3>1. report.of \in Graph
      BY <2>1 DEF EvmInv, ReportOK, ReportType
    <3>2. ASSUME value # Missing, LibraryKey(n) \notin report.changed
          PROVE  value = defaults[ShownKey(n)]
      <4>1. value = ReadCell(Cells[n], report.of, report.version)
        BY <2>1, <2>5, <3>2
      <4>2. n \in 8..10 => report.version # None
        <5>1. n \in 8..10 => Cells[n] \in OfVersion
          <6>1. n \in 8..10 => n = 8 \/ n = 9 \/ n = 10
            OBVIOUS
          <6>. QED  BY <6>1, CellNames DEF OfVersion
        <5>. QED  BY <2>1, <2>5, <3>2, <5>1
      <4>3. n \in 8..10 => report.version = defaults[LibraryKey(n)]
        BY <1>0, <2>1, <2>5, <3>2, <4>2
      <4>. QED  BY <3>1, <4>1, <4>3, DefaultPlaces
    <3>3. report'.read[n] = value
      BY <2>2, <2>5
    <3>. HIDE DEF Good
    <3>. QED  BY <2>2, <2>3, <3>2, <3>3 DEF Good
  <2>6. n <= Len(report.read) + 1 => n <= Len(report.read) \/ n = Len(report.read) + 1
    BY <2>1, ReadSoFar DEF EvmInv
  <2>. QED  BY <2>2, <2>4, <2>5, <2>6
<1>. QED  BY <1>1, <1>2, <1>3, <1>4, <1>5, ReportBecomes

LEMMA ReportInvHolds == EvmSpec => []ReportInv
<1>1. EvmInit => WrittenOK /\ ActiveOK /\ TrustedOK /\ DefaultOK
  <2>. SUFFICES ASSUME EvmInit, NEW slot \in LibrarySlots \cup ConfigSlots
                PROVE  slots[slot] = Missing
    BY DEF EvmInit, WrittenOK, ActiveOK, TrustedOK, DefaultOK
  <2>. QED  BY DEF EvmInit, Init, Slots
<1>2. EvmInv /\ WrittenOK /\ ActiveOK /\ TrustedOK /\ DefaultOK /\ [EvmNext]_all_vars
      => (WrittenOK /\ ActiveOK /\ TrustedOK /\ DefaultOK)'
  <2>1. ASSUME UNCHANGED all_vars, WrittenOK, ActiveOK, TrustedOK, DefaultOK
        PROVE  WrittenOK' /\ ActiveOK' /\ TrustedOK' /\ DefaultOK'
    <3>1. WrittenOK'
      BY <2>1 DEF all_vars, WrittenOK, ScriptValue
    <3>2. ActiveOK'
      <4>1. UNCHANGED <<slots, defaults, report>>
        BY <2>1 DEF all_vars
      <4>2. ASSUME NEW c \in Graph, NEW n \in 1..5, report' # None, c = report'.of
            PROVE  /\ CellSlot(n, c) \notin report'.unwritten => slots'[CellSlot(n, c)] # Missing
                   /\ n <= Len(report'.read) =>
                        \/ report'.read[n] \in {InForce(CellSlot(n, c))', Missing}
                        \/ GaveWay(CellSlot(n, c))'
        <5>. DEFINE slot == CellSlot(n, c)
        <5>1. /\ slot \notin report.unwritten => slots[slot] # Missing
              /\ n <= Len(report.read) =>
                   report.read[n] \in {InForce(slot), Missing} \/ GaveWay(slot)
          BY <2>1, <4>1, <4>2 DEF ActiveOK
        <5>. HIDE DEF slot
        <5>2. InForce(slot)' = InForce(slot) /\ (GaveWay(slot) => GaveWay(slot)')
          BY <4>1 DEF InForce, GaveWay, DefaultKey
        <5>. QED  BY <4>1, <5>1, <5>2 DEF slot
      <4>. QED  BY <4>2 DEF ActiveOK, CellSlot, ActiveSlot
    <3>3. TrustedOK'
      BY <2>1 DEF all_vars, TrustedOK, Trusts, TrustedRemote, InForce, Pinned
    <3>4. DefaultOK'
      BY <2>1 DEF all_vars, DefaultOK, ShownKey, LibraryKey
    <3>. QED  BY <3>1, <3>2, <3>3, <3>4
  <2>. QED  BY <2>1, WrittenStays, ActiveStep, TrustedStep, DefaultStep
<1>. QED  BY <1>1, <1>2, EvmInvHolds, PTL DEF EvmSpec, ReportInv

-------------------------------------------------------------------------------
(* What the cells of a report are *)

LEMMA CellPlaces ==
  /\ Reported("executor") = report.read[1] /\ Reported("send_uln") = report.read[2]
  /\ Reported("send_library") = report.read[3] /\ Reported("receive_uln") = report.read[4]
  /\ Reported("receive_library") = report.read[5]
  /\ Reported("default_receive_library") = report.read[6]
  /\ Reported("default_send_library") = report.read[7]
  /\ Reported("default_executor") = report.read[8]
  /\ Reported("default_send_uln") = report.read[9]
  /\ Reported("default_receive_uln") = report.read[10]
<1>1. ASSUME NEW n \in 1..10 PROVE Reported(Cells[n]) = report.read[n]
  <2>1. \A i \in 1..10 : Cells[i] = Cells[n] <=> i = n
    BY DEF Cells
  <2>2. (CHOOSE i \in 1..Len(Cells) : Cells[i] = Cells[n]) = n
    BY <2>1, CellNames
  <2>. QED  BY <2>2 DEF Reported
<1>2. /\ Reported(Cells[1]) = report.read[1] /\ Reported(Cells[2]) = report.read[2]
      /\ Reported(Cells[3]) = report.read[3] /\ Reported(Cells[4]) = report.read[4]
      /\ Reported(Cells[5]) = report.read[5] /\ Reported(Cells[6]) = report.read[6]
      /\ Reported(Cells[7]) = report.read[7] /\ Reported(Cells[8]) = report.read[8]
      /\ Reported(Cells[9]) = report.read[9] /\ Reported(Cells[10]) = report.read[10]
  BY <1>1
<1>. QED  BY <1>2, CellNames

(* In a complete report, an active cell shows what is in force in its slot,
   unless that has given way. *)
LEMMA ActiveReported ==
  ASSUME ReportInv, Complete, NEW cell \in ActiveCells
  PROVE  \/ Reported(cell) \in {InForce(ActiveSlot(cell, report.of)), Missing}
         \/ GaveWay(ActiveSlot(cell, report.of))
<1>1. report # None /\ report.of \in Graph /\ Len(report.read) = 10
  BY CellNames DEF Complete, ReportInv, EvmInv, ReportOK, ReportType
<1>2. PICK n \in 1..5 : cell = Cells[n] /\ Reported(cell) = report.read[n]
  <2>1. 1 \in 1..5 /\ 2 \in 1..5 /\ 3 \in 1..5 /\ 4 \in 1..5 /\ 5 \in 1..5
    OBVIOUS
  <2>. QED  BY <2>1, CellNames, CellPlaces DEF ActiveCells
<1>3. n <= Len(report.read)
  BY <1>1
<1>. QED  BY <1>1, <1>2, <1>3 DEF ReportInv, ActiveOK, CellSlot

(* A connection whose report shows what the file configures works so, whatever
   the file configures in the libraries that the task reads, unless a default
   that was in force gave way meanwhile. *)
THEOREM ReportsShowWired ==
  ASSUME ConfiguresWhatIsRead
  PROVE  EvmSpec => []ReportShowsWired
<1>1. ReportInv => ReportShowsWired
  <2>. DEFINE c == report.of
              config == Config[c]
  <2>. SUFFICES ASSUME ReportInv, Complete, config # Missing,
                       Reported("send_library") = config.send_library,
                       Reported("receive_library") = config.receive_library,
                       Reported("executor") = config.executor,
                       Reported("send_uln") = config.send_uln,
                       Reported("receive_uln") = config.receive_uln,
                       \A cell \in ActiveCells : ~Overtaken(cell)
                PROVE  Secured(c)
    BY DEF ReportShowsWired
  <2>1. c \in Graph
    BY DEF Complete, ReportInv, EvmInv, ReportOK, ReportType
  <2>. HIDE DEF c
  <2>2. /\ config \in ConfigType /\ config.send_library = SendUln301
        /\ config.receive_library = ReceiveUln301
    BY <2>1, WireConfigAssumption DEF ConfiguresWhatIsRead
  <2>. HIDE DEF config
  <2>3. /\ config.send_library # Missing /\ config.receive_library # Missing
        /\ config.executor # Missing /\ config.send_uln # Missing /\ config.receive_uln # Missing
    BY <2>2, WireConfigAssumption DEF ConfigType
  <2>4. ASSUME NEW cell \in ActiveCells, Reported(cell) # Missing
        PROVE  InForce(ActiveSlot(cell, c)) = Reported(cell)
    BY <2>4, ActiveReported DEF c, GaveWay, Overtaken
  <2>5. /\ InForce(SendLibrarySlot(c.app)) = config.send_library
        /\ InForce(ReceiveLibrarySlot(c.app)) = config.receive_library
        /\ InForce(ExecutorSlot(SendUln301, c)) = config.executor
        /\ InForce(UlnSlot(SendUln301, c)) = config.send_uln
        /\ InForce(UlnSlot(ReceiveUln301, c)) = config.receive_uln
    BY <2>3, <2>4 DEF ActiveCells, ActiveSlot
  <2>. QED  BY <2>2, <2>5 DEF Secured, SendLibrary, ReceiveLibrary, config
<1>. QED  BY <1>1, ReportInvHolds, PTL

(* Of a remote that was trusted when it began, a report shows what messages go
   by, whatever the script and LayerZero do meanwhile and after, where the
   script sets the libraries that the reports look at. *)
THEOREM ReportsOfTrustedHold ==
  ASSUME Send = SendUln301, Receive = ReceiveUln301
  PROVE  EvmSpec => []ReportOfTrustedHolds
<1>1. ReportInv => ReportOfTrustedHolds
  <2>. DEFINE c == report.of
  <2>. SUFFICES ASSUME ReportInv, Complete, RemoteSlot(c) \notin report.unwritten,
                       NEW cell \in ActiveCells
                PROVE  Reported(cell) \in {GoesBy(cell, c), Missing}
    BY DEF ReportOfTrustedHolds
  <2>1. c \in Graph /\ report # None
    BY DEF Complete, ReportInv, EvmInv, ReportOK, ReportType
  <2>2. Trusts(c) /\ \A slot \in Pinned(c) : slot \notin report.unwritten
    BY <2>1 DEF ReportInv, TrustedOK
  <2>. HIDE DEF c
  <2>3. ActiveSlot(cell, c) \in Pinned(c)
    BY DEF ActiveCells, ActiveSlot, Pinned
  <2>4. Reported(cell) \in {InForce(ActiveSlot(cell, c)), Missing}
    BY <2>2, <2>3, ActiveReported DEF c, GaveWay
  <2>5. SendLibrary(c) = Send /\ ReceiveLibrary(c) = Receive
    BY <2>1, <2>2, TrustedIsSecured DEF ReportInv
  <2>6. InForce(ActiveSlot(cell, c)) = GoesBy(cell, c)
    BY <2>5 DEF ActiveCells, ActiveSlot, GoesBy, SendLibrary, ReceiveLibrary
  <2>. QED  BY <2>4, <2>6
<1>. QED  BY <1>1, ReportInvHolds, PTL

(* The default column is right for a connection for which nothing was written,
   whichever libraries LayerZero has made the default, but for the cells whose
   default, or default library, has changed since the report began. *)
THEOREM ReportsShowDefaults == EvmSpec => []ReportShowsDefaults
<1>1. ReportInv => ReportShowsDefaults
  <2>. DEFINE c == report.of
              send    == SendLibrary(c)
              receive == ReceiveLibrary(c)
  <2>. SUFFICES ASSUME ReportInv, Complete,
                       \A slot \in {SendLibrarySlot(c.app), ReceiveLibrarySlot(c.app),
                                    ExecutorSlot(send, c), UlnSlot(send, c), UlnSlot(receive, c)} :
                          slots[slot] = Missing
                PROVE  ReportShowsDefaults
    BY DEF ReportShowsDefaults
  <2>1. c \in Graph /\ report # None /\ Len(report.read) = 10
    BY CellNames DEF Complete, ReportInv, EvmInv, ReportOK, ReportType
  <2>2. /\ SendLibrarySlot(c.app) \in LibrarySlots /\ ReceiveLibrarySlot(c.app) \in LibrarySlots
        /\ SendLibrarySlot(c.app).kind = "send_library"
        /\ ReceiveLibrarySlot(c.app).kind = "receive_library"
    BY <2>1, PinnedSlots DEF SendLibrarySlot, ReceiveLibrarySlot
  <2>. HIDE DEF c
  <2>3. send = DefaultSendLibrary /\ receive = DefaultReceiveLibrary
    BY <2>2, SlotKinds
    DEF InForce, DefaultKey, SendLibrary, ReceiveLibrary, DefaultSendLibrary, DefaultReceiveLibrary
  <2>4. send \in Libraries /\ receive \in Libraries
    BY <2>3, DefaultTypes DEF ReportInv, EvmInv
  <2>. HIDE DEF send, receive
  <2>5. ASSUME NEW n \in 6..10, NEW slot, slots[slot] = Missing,
               InForce(slot) = defaults[DefaultKey(slot)], DefaultKey(slot) = ShownKey(n)
        PROVE  \/ report.read[n] \in {InForce(slot), Missing}
               \/ {DefaultKey(slot), LibraryKey(n)} \cap report.changed # {}
    <3>1. n <= Len(report.read)
      BY <2>1
    <3>. QED  BY <2>1, <2>5, <3>1 DEF ReportInv, DefaultOK
  <2>6. ASSUME NEW slot \in LibrarySlots, slots[slot] = Missing
        PROVE  /\ InForce(slot) = defaults[DefaultKey(slot)]
               /\ DefaultKey(slot) = [kind |-> slot.kind]
    BY <2>6, SlotKinds DEF InForce, DefaultKey
  <2>7. ASSUME NEW slot \in ConfigSlots, slots[slot] = Missing
        PROVE  /\ InForce(slot) = defaults[DefaultKey(slot)]
               /\ DefaultKey(slot) = [kind |-> slot.kind, library |-> slot.library]
    BY <2>7, SlotKinds DEF InForce, DefaultKey
  <2>8. /\ ExecutorSlot(send, c) \in ConfigSlots /\ UlnSlot(send, c) \in ConfigSlots
        /\ UlnSlot(receive, c) \in ConfigSlots
        /\ ExecutorSlot(send, c).kind = "executor" /\ ExecutorSlot(send, c).library = send
        /\ UlnSlot(send, c).kind = "uln" /\ UlnSlot(send, c).library = send
        /\ UlnSlot(receive, c).kind = "uln" /\ UlnSlot(receive, c).library = receive
    BY <2>1, <2>4 DEF ConfigSlots, ExecutorSlot, UlnSlot
  <2>9. /\ LibraryKey(6) = [kind |-> "receive_library"] /\ LibraryKey(7) = [kind |-> "send_library"]
        /\ LibraryKey(8) = [kind |-> "send_library"] /\ LibraryKey(9) = [kind |-> "send_library"]
        /\ LibraryKey(10) = [kind |-> "receive_library"]
        /\ ShownKey(6) = LibraryKey(6) /\ ShownKey(7) = LibraryKey(7)
        /\ ShownKey(8) = [kind |-> "executor", library |-> send]
        /\ ShownKey(9) = [kind |-> "uln", library |-> send]
        /\ ShownKey(10) = [kind |-> "uln", library |-> receive]
    BY <2>3 DEF LibraryKey, ShownKey, DefaultSendLibrary, DefaultReceiveLibrary
  <2>10. /\ DefaultKey(ReceiveLibrarySlot(c.app)) = LibraryKey(6)
         /\ DefaultKey(ReceiveLibrarySlot(c.app)) = LibraryKey(10)
         /\ DefaultKey(SendLibrarySlot(c.app)) = LibraryKey(7)
         /\ DefaultKey(SendLibrarySlot(c.app)) = LibraryKey(8)
         /\ DefaultKey(SendLibrarySlot(c.app)) = LibraryKey(9)
    BY <2>2, <2>6, <2>9
  <2>. DEFINE Shown(n, slot) == \/ report.read[n] \in {InForce(slot), Missing}
                               \/ {DefaultKey(slot), LibraryKey(n)} \cap report.changed # {}
  <2>11. /\ Shown(6, ReceiveLibrarySlot(c.app)) /\ Shown(7, SendLibrarySlot(c.app))
         /\ Shown(8, ExecutorSlot(send, c)) /\ Shown(9, UlnSlot(send, c))
         /\ Shown(10, UlnSlot(receive, c))
    <3>1. 6 \in 6..10 /\ 7 \in 6..10 /\ 8 \in 6..10 /\ 9 \in 6..10 /\ 10 \in 6..10
      OBVIOUS
    <3>2. /\ slots[SendLibrarySlot(c.app)] = Missing /\ slots[ReceiveLibrarySlot(c.app)] = Missing
          /\ slots[ExecutorSlot(send, c)] = Missing /\ slots[UlnSlot(send, c)] = Missing
          /\ slots[UlnSlot(receive, c)] = Missing
      OBVIOUS
    <3>3. Shown(6, ReceiveLibrarySlot(c.app))
      BY <2>2, <2>5, <2>6, <2>9, <3>1, <3>2
    <3>4. Shown(7, SendLibrarySlot(c.app))
      BY <2>2, <2>5, <2>6, <2>9, <3>1, <3>2
    <3>5. Shown(8, ExecutorSlot(send, c))
      BY <2>5, <2>7, <2>8, <2>9, <3>1, <3>2
    <3>6. Shown(9, UlnSlot(send, c))
      BY <2>5, <2>7, <2>8, <2>9, <3>1, <3>2
    <3>7. Shown(10, UlnSlot(receive, c))
      BY <2>5, <2>7, <2>8, <2>9, <3>1, <3>2
    <3>. QED  BY <3>3, <3>4, <3>5, <3>6, <3>7
  <2>. QED  BY <2>10, <2>11, CellPlaces DEF ReportShowsDefaults, c, send, receive
<1>. QED  BY <1>1, ReportInvHolds, PTL
===============================================================================
