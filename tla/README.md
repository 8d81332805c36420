# A verification of solanOHM

solanOHM bridges OHM between Solana and EVM chains over LayerZero. It holds an
OFT program for Solana (`src/programs/oft202`, Rust and Anchor), Hardhat tasks
that create, configure and use it (`src/tasks`, TypeScript), and shell and Forge
scripts around them. This directory models the program and the tasks that keep
state in TLA+, checks the models with TLC, and proves the most important
properties with TLAPS for every value of the constants.

`PROJECT.json` is the machine-readable side: which definition models which lines
(`map`), the runs, a mutation of the model that each checked property detects
(`mutants`), findings, hazards and theorems.

    tlc -workers 2 -config MCOFT.cfg MCOFT             # one run
    tlapm Bridge_proofs.tla                            # one module of proofs

## 1. Inventory

### The OFT program

One program instance has one OFT Store per token. State: `OFTStore`
(type, decimals rate, `tvl_ld`, fees, pause, roles), one `PeerConfig` per remote
endpoint (peer address, fee, two rate limiters, enforced options), the escrow
token account. State it shares with others: the token's accounts, mint
authority and transfer fee (token program), and message nonces and payloads
(LayerZero endpoint).

| part | operations | what makes it correct |
| --- | --- | --- |
| amounts and quotes (`quote_send.rs`, `quote_oft.rs`, `state/oft.rs`) | decimals conversion, dust, OFT fee, Token-2022 fee and its inverse, `quote_oft`, `quote_send` | no dust crosses; the escrow gets exactly what is accounted for; quotes add up; the slippage bound protects the sender from every change after the quote |
| rate limiter (`state/peer_config.rs`) | `refill`, `try_consume`, `set_rate`, `set_capacity` | a limiter refilled lazily is one refilled every second, under every interleaving |
| transfers (`send.rs`, `lz_receive.rs`, `withdraw_fee.rs`) | lock or burn, unlock or mint, clear, compose, withdraw | the escrow covers `tvl_ld`; `tvl_ld` and the supply are what the messages account for; each message is paid once |
| delivery (`lz_receive_types.rs` and the executor) | list accounts, execute, retry | every message is executed once the bridge is open; stale accounts do no harm |
| configuration (`set_oft_config.rs`, `set_pause.rs`, `set_peer_config.rs`, `init_oft.rs`) | fees, pause, roles, peers, limits, options | configuration never moves value; roles are separate |
| codecs (`msg_codec.rs`, `compose_msg_codec.rs`, `options.rs`) | encode and decode | the fields survive; the enforced options are part of what is paid for |

Interactions: `send` and `lz_receive` read the configuration of the peer, both
limiters, the token's state and the endpoint's. The two ends exchange messages
through LayerZero, which verifies the messages of a path in their order and
lets verified ones be executed in any order, by anyone, each once. What is hard
is the interleaving of users' transactions, deliveries, an admin who changes
fees, limits and peers while messages are under way, the token's epochs, and
the mint authority that is not the program's to keep.

### The tasks

| part | state | what makes it correct |
| --- | --- | --- |
| `createOFT`, `setAuthority` (`tasks/solana`) | token authorities, OFT Stores, `deployments/<network>/OFT.json` | wherever a run breaks off, what OFT.json names can mint unless the operator named another store, and nobody keeps an authority that was not named |
| wire, EndpointV1 side (`tasks/common`) | trusted remotes, libraries and ULN configurations on the EVM chains | it says "wired" only when everything is; re-runs complete what earlier ones began |
| wire, Solana side, with `setPeer` (`tasks/common/utils.ts`) | a peer's address, options, fee | re-runs arrive at the file although `setPeer` undoes options; what it found right stays right |
| rate limit tasks | a peer's limiters | the peer named is the peer limited |
| the Forge script that links the EVM bridge (`script/ConfigureCrossChainBridge.s.sol`, `shell/endpoint_evm.sh`, `enable_evm.sh`) | the same slots, of the bridge contract | no message passes before everything it goes by is set, however runs break off |
| reports (`tasks/common/config.get.ts`) | ten values read one after the other | what is shown holds, for as long as what it was taken from does |
| sending tasks (`sendOFT.ts`, `clearPayload.ts`) | the quoted fee | a send carries value; clearing by hand and the executor do not undo each other |
| metadata, priority fees, shell scripts | none of their own | one command each, or input and output |

These send several transactions each, on several chains, with a person who
breaks them off and runs them again. What is hard is the partial failure, the
files and reads that are stale, and options that can be combined.

`PROJECT.json` lists every component with its sources and status, and under
`hazards` each place where one of these difficulties bites.

## 2. Modules

    U64                  u64 values, saturating operations
     +- OFTAmounts       decimals, dust, fees
     |   +- OFTQuote     quote, then send
     +- RateLimiter      the limiter's operations
     |   +- PeerLimits   two limiters of a peer  == implements ==> TokenBucket
     |       +- NetFlow  + what crosses in a window of time
     OFTAmounts + RateLimiter
         +- OFT          the program with token and endpoint
             +- Bridge   + remote applications   == implements ==> TokenBridge
                 +- Executor  + listed accounts, retries == implements ==> Bridge
    PeerWiring           PeerConfig, the wire task on Solana, rate limit tasks
     +- PeerRuns         + the runs that were complete
    OFTDeployment        createOFT and setAuthority
    WireLzApp            the wire task, EndpointV1 side
     +- WireRuns         + whether the last run is complete
     +- EvmBridge        the Forge script, the bridge's messages, config:get

`MC*` modules instantiate these for TLC; `*_proofs` modules hold theorems.
A definition `Name_Variation` is a plausible bug; it stands beside the one it
varies and is used by nothing but the mutation runs.

**U64, OFTAmounts.** A transaction of the program is atomic and the release
profile keeps overflow checks (`src/Cargo.toml:6`), so an operation that leaves
u64 aborts everything. Results that may overflow are bounded by `U64Max` in the
guards of the actions. `ComputeFeeAndAdjustAmount` is the function of the same
name; its pre-fee amount inverts the transfer fee of Token-2022
(`WithheldFee`, external: rounded up, capped by a maximum).

**OFTQuote.** `quote_oft`, then `send` with the quoted amount as its slippage
bound, with OFT fees and the epoch's transfer fee changing before, between and
after. The pair `quote`, `sale` is what the last quote answered and the last
step sent. The task `lz:oft:solana:send` works differently: it has the message
fee quoted with the bound 1 (`TaskQuote`) and sends with nine tenths of the
amount as its bound (`TaskSend`); `task` is the amount it is at.

**RateLimiter, PeerLimits, TokenBucket.** `PeerLimits` has both limiters of one
peer with every operation that touches them. `TokenBucket` is the abstract
bucket: it has no `last_refill_time` and takes a step every second. The
refinement mapping `UpToDate` computes what the limiter would hold if it were
used now.

**NetFlow.** What the limits are for: PeerLimits with an observer who, at any
moment, begins to count what goes one way less what comes back (`count`), and
stops when that limiter is configured. The observer is a history variable: the
actions are those of PeerLimits, each of which also updates the count.

**OFT.** The program. One action per instruction: `Send`, `LzReceive`,
`WithdrawFee`, and the parameters of `set_oft_config` and `set_peer_config`
that bear on value, for every `oft_type` in `OftTypes` (the type is chosen by
`init_oft` and constant from then on); pausing stands for both `set_oft_config` and `set_pause`.
External actions: the endpoint verifies a message (`EndpointVerify`, from a
remote side that may claim anything), epochs, changes of the mint authority,
the clock. Nonces, the outbox and the inbox are the endpoint's.
`send`'s slippage bound is left to OFTQuote: without a bound, `send` can do
whatever it can do with one.

**TokenBridge, Bridge.** `TokenBridge` is what users are promised: value is at
home, away, or in a transfer that departs once and arrives once. `Bridge`
composes OFT with remote applications that keep their end, several of them in
turn on one chain, and `ImplementsTokenBridge` maps one to the other. Messages
are delayed, verified in the order of their path, and executed in any order.

**Executor.** Bridge, with the executor of LayerZero in the place of "anyone":
it asks `lz_receive_types` for the accounts of a message, at one time, and
sends `lz_receive` with them at a later one. Of the accounts only the mint
authority and the compose message's account (derived from the amount credited)
depend on the state; they are in `listed`. `ClearPayload` is the task
`lz:oft:solana:clear`, with which anyone executes a message by hand; it is
nobody's duty and has no fairness.

**PeerWiring.** What `set_peer_config` makes of the options of a peer, and its
clients. Options are the gas they pay for: `combine_options` adds up. A `wire`
reads the chain, compares it with `config` (the operator's file) and puts all
it has to send into `pending`; `SendTx` then sends peers before options.
`SetPeer` is the whole transaction of `OFTDeterministic.setPeer`, with the empty
options and the fee it sets besides the address, signed by the admin and the
delegate. The file, the admin, the delegate, the options and `is_endpoint_v1`
are changed by hand in between (`ByHand`). `settled` holds the connections for
which a run had nothing to send and that were not edited since.

**PeerRuns.** PeerWiring with a count of the runs that sent all they computed (or
had nothing to send) and began after the file and the options were last changed
by hand; `fresh` tells such a run from an older one. Again these are history
variables: no action of PeerWiring is restricted by them.

**OFTDeployment.** `createOFT` and `setAuthority` as sequences of transactions
by an operator (`task` holds the step), with a break-off between any two, any
options, new tokens and the Mint-And-Burn Adapter of an existing one. An
authority is the set of those who can sign for it, since multisigs are 1 of n.
`StartSetAuthority` takes any mint and any escrow: the task never reads
OFT.json nor looks whether the two belong together, so it may be run for the
earlier of two stores of an existing token, or for the mint of one run and the
escrow of another. `named` is, per token, whom the operator has named for it,
the store of an escrow he gave included.

**WireLzApp.** Everything is read (`Transactions`), then what differs is sent,
per chain, in order (`pending`), with failed transactions, killed tasks and
changes of LayerZero's defaults at any time, and the task run again. `slots`
is what was written on the chains. A slot not written has the default in force.

**WireRuns.** WireLzApp with what became of the last run (`run`): begun, complete
(all that it found to differ has been sent), or broken, by a failed transaction,
a kill, or a default that changed under it.

**EvmBridge.** The README has the wire task's transactions for the EVM side
declined and a Forge script run instead. `RunScript` and `SendScriptTx` are its
six transactions, `ScriptBreaksOff` comes between any two, and another run may
follow for the same remote or another one of the same bridge. `SendOhm` and
`ReceiveOhm` are the bridge contract (external: enabled, and trusting the
remote) and the endpoint under it; `message` records by which library, executor
and verifiers the message of the last step went. `StartReport`, `ReadVersion`,
`ReadNext` and `ReadFails` are `config:get`, one read at a time (a default
configuration takes two, the version of the default library and the
configuration of that version), and `report` is what it has read. LayerZero may
change a default at any moment of it, and the operator's file configures what it
likes: in the repository it is not what the script sets (a message size of 200
and 15 or 32 confirmations in `layerzero-devnet.config.ts`, 10000 and 2 in the
script). What can be said of a report then depends on two pieces of history that
are kept with it: which of its slots were not written when it began
(`unwritten`), and which defaults have changed since (`changed`).

## 3. Runs

| run | properties | what it shows |
| --- | --- | --- |
| `quote` | `SlippageProtectsSender`, `QuoteAddsUp`, `NoDustCrosses`, `EscrowGetsExactly`, `PreFeeIsLeast`, `TaskSendsValue` | for both types: a send after a quote keeps its promise whatever changed in between; the escrow of an adapter is credited exactly with value and fee; the inverse fee is the least amount that will do; the sending task never sends nothing |
| `peer_limits` | `NetFlowIsLimited`, `OutboundIsBucket`, `InboundIsBucket` | in any window of time no more crosses, net of what comes back, than capacity and rate allow; both limiters implement a bucket refilled every second: no second is counted twice or at a rate not in force, nothing accrues above the capacity |
| `oft` | `EscrowCoversTvl`, `TvlIsMessageValue`, `NativeSupplyIsMessageValue`, `ComposeReportsCredit`, `PauseStopsBridge` | an adapter with transfer fees up to all of the amount and fee withdrawals; a native OFT with limits, time and a changing mint authority; amounts that overflow u64 and the supply |
| `bridge` | `EveryClaimIsBacked`, `EveryClaimIsPayable`, `ImplementsTokenBridge` | the composition for both types: an adapter with fees, withdrawals and peers that replace one another; a native OFT whose mint authority may be lost |
| `executor` | `OpenBridgeDelivers` | liveness of delivery with stale accounts |
| `deployment` | `SavedDeploymentCanMint`, `OnlyNamedAuthorities`, `BridgeKeepsMinting` | two runs of createOFT and two of setAuthority for any mint and escrow, breaking off anywhere: a store that can mint loses that only to a setAuthority that names another store for its token |
| `only_oft_store` | (violation) | finding 1 |
| `peer_wiring` | `SettledSendsArePaid`, `SecondRunConfigures`, `RerunsConverge` | wiring takes two complete runs and never three, as the first may undo options; one connection, two applications that may be its peer, two choices of options, any two changes or failures |
| `outbound_limit` | (violation) | finding 2 |
| `wire` | `NoActionMeansWired`, `SentIsNotUndone`, `CompleteRunWires`, `RerunsConverge` | no run undoes another's, and one complete run is enough; one application with two remotes, any defaults, one failure and one new default |
| `wire_not_found` | (violation) | finding 3 |
| `evm_bridge` | `EveryMessageIsSecured`, `ReportShowsWired`, `ReportOfTrustedHolds`, `ReportShowsDefaults` | a bridge with two remotes, runs of the script for either broken off anywhere, messages and reports in between, a default that changes at any read, a file with other values than the script sets |

Each model's type invariant (`TypeOK`, `RemoteTypeOK`, `EvmTypeOK`) is checked by
one of its runs.

### Bounds, and why they are enough

- **Width.** `U64Max` is between 15 and 64 for amounts and 7 for limiters, small
  enough that sums, conversions and refills reach it, which 2^64 would never do.
  In `bridge` it is 15 with a supply of 14, so that a claim paid twice, or one
  that was never burnt, leaves it soon.
- **Fees.** Denominators of 4 or 10 basis points instead of 10 000: rounding
  up and down, caps that bind and that do not, and fees of nothing and of
  everything all occur. Two local units make a shared one, so amounts have dust
  (5 and 9 are odd).
- **Messages.** `MaxOutbound` and `MaxInbound` are 1 or 2: two messages are what
  it takes for one to overtake, double or starve another, and no action relates
  three. `MaxTime` is 3 seconds for the limiters (full, partial and no refill
  occur with rates 1 and 5 and capacities 3 and 7), 1 or 0 elsewhere. The count
  of NetFlow ends when it falls below -`MaxReturned` = -1: what has come back by
  then only makes room, and another count may begin at once.
- **Actors.** One or two wallets, one endpoint in `oft` and `executor`, with up to
  two successive applications in `bridge` and `executor`. A peer account shares
  nothing with that of another endpoint but the store, whose `tvl_ld` two
  messages of one path move as two of different paths do.
- **Deployments.** `MaxRuns` = 2: a run that is broken off and one that follows
  it, or two stores of one existing token; for the violations 1. `MaxHandovers` = 2
  runs of setAuthority: the second may take back what the first gave away, or
  finish what it broke off. Two people, who may be operator or minter.
- **Wiring.** `MaxFailures` = 1 and `MaxNewDefaults` = 1: a failure and a default
  that changes anywhere in a run; after any number of them the task starts from
  some `slots`, and the initial defaults are all possible ones.
- **EVM bridge.** Two remotes of one bridge, so that their runs share the
  libraries; they are treated alike, and `Permutations` of them is the symmetry
  (the properties are invariants). The default for sending starts as an old
  library, that for receiving as the script's, with the values of the file and not
  of the script; one failure and one change of a default, at any step. The
  constraint `MCBounds` follows reports and messages apart: neither reads what
  the other writes, nor does a report look at whether the bridge is enabled or at
  an earlier report. A report that failed to read a value is followed while the
  defaults are as when it began (what is missing is compared with nothing).
  LayerZero's default for sending is a library that sends, its default for
  receiving one that receives, and a library that only receives has no executor.
  The theorems hold without these bounds.
- **Peers.** `MaxChanges` = 2: taking a role away and giving it back, or editing
  the file in the middle of a run and breaking the run off. One connection, with
  a second endpoint that the file does not name, as in `layerzero-devnet.config.ts`;
  what is done to one peer touches no other.

The proofs of section 5 have none of these bounds, nor any on the constants.

### Deadlock

TLC checks for it in every run but those of OFTDeployment, WireLzApp and
EvmBridge. Their systems do stop: an operator who has used `MaxRuns` and
started no further task, a wire task with nothing left to do, and a bridge that
is linked, reported and not used. In the other models the admin can always act.

### Fairness

Safety runs assume none. Three runs check liveness:

- `FairExecutorSpec`. The verifiers and the executor are LayerZero's service:
  weak fairness of verification and of listing accounts, strong fairness of
  execution for each sender, since an execution that fails is retried and the
  bridge may open and close meanwhile. No fairness of users, admin, epochs. The
  premise of `OpenBridgeDelivers` is that the bridge is open for good, or again
  and again while the transfer fee has settled: a fee that always changes
  between listing and execution delays a compose message for ever.
- `FairRunsSpec` of WireRuns, with the fairness of WireLzApp. The operator runs
  the task as long as it has something to send (weak fairness of `Configure`) and
  chains execute what is sent (`SendTx`). Failures are bounded, as an operator who
  always meets with one never gets anything wired.
- `FairRunsSpec` of PeerRuns. The same of `Wire` and `SendTx`. `RerunsConverge` has
  the premise that the wallet is admin and delegate for good at some time: a
  `setPeer` has to be signed by both.

## 4. Findings

1. `OnlyOftStoreMints`: `createOFT.ts:190` says that with `--only-oft-store` only
   the store can mint and the freeze authority is renounced. Additional minters
   given along with it become signers all the same (line 201).
2. `OutboundLimitIsOfNamedPeer`: `setOutboundRateLimit.ts:36` takes "The
   destination endpoint ID", and the task ends by printing the peer of it, but
   line 70 sets the limit of `SEPOLIA_V2_TESTNET` whatever it is given. Where that
   peer does not exist it is made. The connection in `layerzero-devnet.config.ts`
   is to another endpoint of Sepolia, which is left without a limit.
   `setInboundRateLimit` limits the peer it is given.
3. `SaysWiredOnlyIfWired`: a message library that is not among the first six of
   the endpoint, or whose lookup fails, makes `setSendLibrary` and
   `setReceiveLibrary` answer nothing, and the task may then report that the
   application is wired when it is not. The `wire` run shows that with every
   library found, the report is right.

## 5. Proofs

| theorem | module | says |
| --- | --- | --- |
| `PostFeeOfPreFee` | OFTAmounts_proofs | transferring the pre-fee amount credits exactly what was asked for, for every amount and fee below 100% |
| `AmountsOfSend` | OFTAmounts_proofs | what a transfer computes is within what was asked, adds up, has no dust, and is what the escrow of an adapter is credited with |
| `QuoteTypes`, `SlippageAlwaysProtects`, `QuoteAlwaysAddsUp`, `DustNeverCrosses`, `EscrowAlwaysGetsExactly`, `PreFeeIsAlwaysLeast`, `TaskAlwaysSendsValue` | OFTQuote_proofs | all invariants of OFTQuote (the last if a shared unit is more than one local unit) |
| `TypeCorrect` | Bridge_proofs | `Spec => []TypeOK` of OFT |
| `EscrowAlwaysCoversTvl` | Bridge_proofs | `Spec => []EscrowCoversTvl` |
| `PauseAlwaysStopsBridge`, `ComposeAlwaysReportsCredit` | Bridge_proofs | the two action properties of OFT |
| `TvlAlwaysMessageValue` | Bridge_proofs | `Spec => []TvlIsMessageValue`: `tvl_ld` is all that was sent less all that was executed |
| `NativeSupplyAlwaysMessageValue` | Bridge_proofs | `Spec => []NativeSupplyIsMessageValue`, if the token of a native OFT charges no transfer fee |
| `RemoteAlwaysTyped` | Bridge_proofs | `BridgeSpec => []RemoteTypeOK` |
| `EveryClaimAlwaysBacked` | Bridge_proofs | `BridgeSpec => []EveryClaimIsBacked` |
| `EveryClaimAlwaysPayable` | Bridge_proofs | `BridgeSpec => []EveryClaimIsPayable`, on the same condition |
| `BridgeImplementsTokenBridge` | Bridge_proofs | `BridgeSpec => ImplementsTokenBridge`, on the same condition |
| `ExecutorImplementsBridge` | Bridge_proofs | `ExecutorSpec => BridgeSpec` |
| `ExecutorKeepsPromise` | Bridge_proofs | so `ExecutorSpec` has the three properties of the `bridge` run, on the same condition |
| `LimitersAlwaysOK` | PeerLimits_proofs | `Spec => []TypeOK` of PeerLimits |
| `OutboundImplementsBucket`, `InboundImplementsBucket` | PeerLimits_proofs | each limiter implements TokenBucket |
| `NetFlowAlwaysLimited` | PeerLimits_proofs | `FlowSpec => []NetFlowIsLimited` |
| `DeploymentTypes` | OFTDeployment_proofs | `Spec => []TypeOK` of OFTDeployment |
| `SavedDeploymentAlwaysCanMint`, `AuthoritiesAlwaysNamed` | OFTDeployment_proofs | `Spec => []SavedDeploymentCanMint`, `Spec => []OnlyNamedAuthorities` |
| `BridgeAlwaysKeepsMinting` | OFTDeployment_proofs | no step takes minting from a store that has it but a setAuthority that names another store for the token, whatever it is given |
| `PeerWiringTypes` | PeerWiring_proofs | `Spec => []TypeOK` of PeerWiring |
| `SettledSendsAlwaysPaid` | PeerWiring_proofs | `Spec => []SettledSendsArePaid` |
| `SecondRunAlwaysConfigures` | PeerWiring_proofs | `RunsSpec => []SecondRunConfigures` |
| `WireTypeOK` | EndpointV1_proofs | `Spec => []TypeOK` of WireLzApp |
| `NothingToDoMeansWired` | EndpointV1_proofs | `Spec => []NoActionMeansWired` of WireLzApp, if the configured libraries are those the task reads and are found |
| `RerunsUndoNothing` | EndpointV1_proofs | `Spec => SentIsNotUndone`, if no application sends and receives by one library |
| `CompleteRunAlwaysWires` | EndpointV1_proofs | `RunsSpec => []CompleteRunWires`, on both conditions |
| `EvmTypes`, `MessagesAlwaysSecured` | EndpointV1_proofs | `EvmSpec => []EvmTypeOK`, `EvmSpec => []EveryMessageIsSecured` |
| `ReportsShowWired` | EndpointV1_proofs | `EvmSpec => []ReportShowsWired`, if the libraries that the file configures are those the task reads, whatever else it configures |
| `ReportsOfTrustedHold` | EndpointV1_proofs | `EvmSpec => []ReportOfTrustedHolds`, if the script sets the libraries that the reports look at (versions 4 and 5, "ULN301", `ConfigureCrossChainBridge.s.sol:80,86`) |
| `ReportsShowDefaults` | EndpointV1_proofs | `EvmSpec => []ReportShowsDefaults` |

The proofs rest on the named assumptions of the modules: fees below 100%, a
positive conversion rate and fee denominator, inputs within u64, `None` being
no value, finitely many wallets, endpoints and applications of a chain (so that
their balances have a sum). The numbers of messages, users, chains and amounts
are any. The supply that the wallets begin with is a u64
(`InitialBalanceAssumption`), as every supply of the token program is. The
theorems on native supply, payable claims and TokenBridge suppose that the token
of a native OFT charges no transfer fee (`NativeWithoutTransferFee`; `init_oft`
does not look), as the runs do: a token that does would lose what it withholds when the OFT fee is moved to the
escrow.

*Sums.* The values of OFT and Bridge are sums over sets, which the community
modules compute by a recursive function whose next element is a CHOOSE. The last
section of OFTAmounts_proofs proves of them, by induction over the subsets of a
finite set, that the order does not matter: a sum loses an element's value with
the element (`TotalFirst`), and changes by the difference where one value does
(`TotalDiffer`).

*Arithmetic.* TLAPS's solvers do not know integer division by a variable, so
OFTAmounts_proofs derives what is needed (`DivBounds`, `CeilDivBounds`,
`CeilDivUnique`) from its definition. `PostFeeOfPreFee` follows: if the cap binds
on neither side, the rounded-up fee of the rounded-up inverse is exactly their
difference; if it does, both differ by the maximum.

*OFT.* The inductive invariant `Inv` is `TypeOK` together with the finiteness of
outbox and inbox: without it, the nonces (cardinalities) need not be numbers.
`EscrowCoversTvl` is inductive relative to `Inv`. The step that matters is
`LockCovered`: `PostFeeOfPreFee` makes the escrow grow by exactly
`received + fee` where `tvl_ld` grows by `received`. `Unlock` takes the same
from both, and `withdraw_fee` takes at most the difference. That a message
counts once needs that no two are equal: `OutboundNoncesOK` says that no nonce
exceeds the number of messages of its path, so the next one is new
(`SendEffect`).

*Bridge.* `BridgeInv` adds the same of the messages that return.
`Conservation` (remote balances and transfers in transit are what was sent less
what was executed) is inductive with it, and with `TvlIsMessageValue` and
`EscrowCoversTvl` gives `EveryClaimIsBacked`. The refinement is by the same five
lemmas (`SendFlow`, `ReceiveFlow`, `RemoteReceiveFlow`, `RemoteSendFlow`,
`OtherFlow`), one for each step of TokenBridge and one for the stuttering.
`WholeUnits` is what makes a value at home that is not a whole number of shared
units change by exactly the units of the message.

`EveryClaimIsPayable` is about all claims together, and about what aborts a
transaction. For an adapter, `tvl_ld` is what was sent less what was executed, and
so are the claims. For a native OFT, the supply (`BridgeSupply`) and the claims in
local units add up to what the supply was at first, which is a u64. So messages
under way never overflow the supply, in whatever order they are executed.

*Executor.* Each of its steps is a step of Bridge or none (`ExecutorStep`). An
execution with stale accounts could be different only by the mint authority that
was listed, and `lz_receive` compares that with the mint's: it fails, or is an
`LzReceive` that Bridge has too. With that, all safety of Bridge carries over.

*PeerLimits.* The refinement is by the step lemmas `SecondStep`, `TakeStep`,
`ReturnStep` and `UpdateStep`, each about `UpToDate` of a limiter before and
after: the saturating refill over `n + 1` seconds is the refill over `n`, and
then over one. Saturation makes this a case split and not algebra: capped or
saturated once, the bucket is full either way.

*NetFlow.* The bound on what was counted is not inductive; what is left in the
bucket has to be added to it. `FlowInv` says that the two together are at most
the capacity and what the rate has given since the count began. A transfer moves
an amount from one to the other, a second adds to the allowance at least what it
adds to the bucket, and what comes back adds to the bucket at most what it takes
off the count.

*OFTDeployment.* The invariant says what each step of a task has achieved by the
time the next one is due (which keys exist, whose authority the token has).
The first two safety properties speak of OFT.json and of what the operator named
for its token; what makes them inductive is that a token still in the operator's
hands is the one of the run in progress, and never that of OFT.json, because
createOFT writes the file after the authorities are handed over, and stores and
mints are derived from keys that are new. `NotYetOK` is what a setAuthority for
the keys of a later run needs: there is no token yet, and the task throws.
`BridgeAlwaysKeepsMinting` goes through the steps that write a mint authority:
createOFT's are for a token that no store can mint yet, setAuthority's gives the
token to the store of the escrow that was named.

*PeerWiring.* `SettledSendsArePaid` alone is not inductive: a transaction left over
by a run could undo a settled peer. `PendingOK` says there is none: a run that
has something to send computed it from the chain, and what is settled does not
differ from the file. `SettledOK` says of each settled peer that it is what the
file says, and the rest is `CombinePays`: combining adds.

*PeerRuns.* `SecondRunConfigures` is the safety half of `RerunsConverge`: no
premise on who signs and no fairness, but a count of two. `FreshOK` says of a run
that began after the last change that what it has left to send is as the file
says, and includes every address that differs; and, once a run has counted, that
no `setPeer` is left to be sent while every option that differs is. Until then a
`setPeer` may undo options that the run had found right, which is why one run is
not enough.

*OFTQuote.* `AmountsOfSend` carries most of it: dust is removed last, and removing
it is idempotent, so what a message carries converts without loss;
`PreFeeIsSmallest` shows that any lesser amount is credited with less, by
monotony of the amount after the fee. `SlippageProtectsSender` needs that the
quote in the state is the one the sale was bound by. `TaskSendsValue` is not
inductive: what makes it true is that the quote with bound 1 succeeded for
*some* fees, so the amount is more than one local unit (where a shared unit is
more than one, one alone would be dust), and nine tenths of it round down to at
least 1.

*WireLzApp.* `NoActionMeansWired` needs no invariant: the equivalence holds in
every state. The transactions of a connection are a concatenation that is empty
exactly when each of its parts is; and what is read is what is in force, once the
libraries in use are those that are read. `ConfiguresWhatIsRead` is what finding 3
violates.

The others do. `WireInv` says that whatever waits, and whatever is in a slot, is
one of the six transactions that some complete connection may ask for
(`MaySend`); that each fits its slot is `TxFits`. The transactions of a run are
lists that the community modules flatten by a recursive function: `FlattensExists`
shows by induction that there is that function, `FlattenedMembers` that it keeps
the kind of the elements, `FlattenedHas` that it loses none, `ListHasMembers` that
the list of an application's connections leaves none out. `OneValuePerSlot` is
what makes reruns harmless: two transactions for a slot, of any runs and
connections, have the same value.

*WireRuns.* `RunOK`: of the six transactions of every complete connection, each is
done (its value is in force in its slot) or still waits, until the run is
complete. `RunSendsTheRest` gives this at the start of a run, since what is not
sent was read to be right. `SendTxDoes` keeps it: what was done stays done, by
`OneValuePerSlot`, whichever connection shares the slot. When nothing waits, all is
done, and then all is wired (`DoneIsWired`). It is the safety half of
`RerunsConverge`.

*EvmBridge.* Each slot has one value that the script ever writes to it
(`ScriptValue`), whatever the run, so a slot once written stays written.
`ScriptOK`: a run has written what precedes its next transaction. `TrustOK`: a
trusted remote has all its slots written, since its transaction is the last.
Then what is in force for it is what was written, and the defaults are not
looked at.

A report is read value by value, so its proof is about what stays true between
two reads. `ReportInv` says it of every cell that was read. An active cell shows
what is in force in its slot, or could not be read, or the slot has given way:
it was not written when the report began, so the cell showed a default, and
since then the script has written the slot or LayerZero has changed that
default (`ActiveOK`; a slot that was written keeps its value, `WrittenOK`).
`ReportShowsWired` follows for whatever the file configures; the exception is
needed, as a file that agrees with the defaults and not with the script shows.
Where the remote was trusted when the report began, the script had written
everything before (`TrustOK`), so no slot can give way (`TrustedOK`), and
`ReportOfTrustedHolds` has no exception. A default cell shows the default it is
of unless that or the default library has changed; between its two reads the
version is the default library's, on the same condition (`DefaultOK`).

Model-checked only: liveness, as fairness and ENABLED are beyond the prover. These
are `OpenBridgeDelivers` and the two `RerunsConverge`. Every invariant and every
action property of a passing run is stated by a theorem.

## 6. External parts, and what is not modelled

- **Token program.** Transfers, Token-2022 fees (withheld from what the
  destination is credited with), supply that may not exceed u64, mint
  authorities with 1-of-n multisigs. Withheld fees are not collected.
- **Endpoint.** A path per remote application, nonces in order, clearing once,
  refusal of a receiver whose path was not opened. Message fees, payload hashes
  and burning or skipping of nonces by the delegate are left out.
- **Libraries of LayerZero's devtools.** `createSignAndSendFlow` sends the
  transactions of each chain in order. Its configurators compare and set peers and
  options (PeerWiring). The libraries, executors and DVNs of the EndpointV2 side,
  on Solana and on EVM chains, are wholly theirs and are not modelled.
- **`setTrustedRemote`** answers nothing for a connection whose local contract or
  remote address cannot be found (`taskHelper.ts:766-769`, `783-785`). Every
  connection of the graph has both, so these two returns are left out.
- **ULN configurations** are single values. That fields of a configuration may be
  individually "default" (a DVN count of 0) is not modelled.
- **The EVM bridge contract** is kept in another repository. It is modelled by the
  interface the scripts use: it sends when enabled, and sends and accepts where
  a remote is trusted. Amounts on its side are those of Bridge.
- **Roles.** Which of pauser, unpauser and admin pauses is left open in OFT:
  anyone may, at any time, which allows every behaviour of the roles.
- **Additional minters** use their authority over the token only through the two
  tasks. What else people can do with an authority they hold is theirs to do.
- Layout of messages, accounts' rent and sizes, compute budgets, logging.
- Components with status `not_modelled` in `PROJECT.json`, with reasons there.

## 7. Plan

Done: amounts and quotes; limiters with their abstract bucket; the program; the
bridge with its abstract specification; the executor; peers, options and the
tasks that set them; deployment; wiring; the script of the EVM bridge, its
messages and the reports; the sending tasks; the net flow of the limiters; the runs
of both wire tasks; the proofs above, which leave only liveness to TLC.

What would be next:

1. **OFTAccess**: pauser and unpauser beside the admin, and what a handover of the
   store that is broken off leaves to whom.
2. **Proofs.** The steps that the liveness of delivery rests on: that in a state in
   which the bridge is open to a message, its execution with accounts listed since
   the last change does not fail. Under which limits a message of the bridge can be
   held back for good.
