---------------------------- MODULE OFTDeployment ----------------------------
(***************************************************************************)
(* Who may mint.  The createOFT task (tasks/solana) creates a token and    *)
(* the OFT Store that will mint it, hands the authorities of the token     *)
(* over, and saves the deployment to OFT.json; the setAuthority task hands *)
(* them over again.  Each sends several transactions, may break off        *)
(* between any two of them, and is run again from its beginning.  For a    *)
(* Mint-And-Burn Adapter (MABA) the token already exists.                  *)
(*                                                                         *)
(* An authority is the set of those who can sign for it: one account, or   *)
(* the signers of a multisig, whose quorum is 1 of n; the empty set is an  *)
(* authority that was renounced.  Run r of createOFT generates mint r and  *)
(* escrow r, and the store derived from escrow r is r; mint 0 is the token *)
(* that exists.                                                            *)
(***************************************************************************)
EXTENDS Naturals, FiniteSets

CONSTANTS
  People,              \* wallets and additional minters
  ExistingAuthority,   \* mint and freeze authority of the token that exists
  MaxRuns,             \* bound on the runs of createOFT
  MaxHandovers,        \* bound on the runs of setAuthority
  None

Existing   == 0
Mints      == 0..MaxRuns
Stores     == 1..MaxRuns
Principals == People \cup Stores

ASSUME PeopleAssumption ==
  /\ MaxRuns \in Nat /\ MaxHandovers \in Nat
  /\ People \cap Nat = {}
  /\ None \notin Nat
  /\ \A authority \in SUBSET Principals : authority # None
  /\ ExistingAuthority \subseteq People

VARIABLES
  runs,               \* runs of createOFT started
  handovers,          \* runs of setAuthority started
  task,               \* the task that is running, None if none is
  mint_authority,     \* the mint authority of each token, None before it exists
  freeze_authority,
  token_mint,         \* the mint of each OFT Store, None before init_oft
  deployment,         \* OFT.json, None before it is written
  named               \* minters, and escrows, the operator named for each token

chain == <<mint_authority, freeze_authority, token_mint>>
vars  == <<runs, handovers, task, chain, deployment, named>>

-------------------------------------------------------------------------------
(* deriveKeys, for an escrow just generated, and getOftStore, for the one the
   operator gives: the store is derived from the escrow. *)
DeriveKeys_BeforeGenerating(escrow) == escrow - 1

DeriveKeys(escrow) == escrow

GetOftStore(escrow) == escrow

(* The multisig that has the store and the additional minters as signers. *)
MintAuthorityMultisig(store, minters) == {store} \cup minters

(* The OFT program can mint when the store can sign for the mint authority. *)
CanMint(store, mint) == mint_authority[mint] # None /\ store \in mint_authority[mint]

At(kind, step) == task # None /\ task.kind = kind /\ task.step = step

GoTo(step) == task' = [task EXCEPT !.step = step]

(* Additional minters, --only-oft-store, or both.  A list of minters that was
   given may be empty, as in oft_create.sh; None is one that was not given. *)
Accepted(minters, only_oft_store) == minters # None \/ only_oft_store

Named(minters) == IF minters = None THEN {} ELSE minters

-------------------------------------------------------------------------------
(* createOFT *)

StartCreate(wallet, minters, only_oft_store, maba) ==
  /\ task = None
  /\ runs < MaxRuns
  /\ Accepted(minters, only_oft_store)
  /\ runs' = runs + 1
  /\ LET mint == IF maba THEN Existing ELSE runs'
     IN  /\ task' = [kind |-> "create", step |-> "multisig", wallet |-> wallet, mint |-> mint,
                     escrow |-> runs', store |-> DeriveKeys(runs'), minters |-> minters,
                     only_oft_store |-> only_oft_store, authority |-> None]
         /\ named' = [named EXCEPT ![mint] = @ \cup Named(minters)]
  /\ UNCHANGED <<handovers, chain, deployment>>

(* A multisig is created, and its signers checked, only when additional
   minters were given; otherwise the store itself is the authority. *)
CreateMultisig ==
  /\ At("create", "multisig")
  /\ task' = [task EXCEPT
       !.step      = IF task.mint = Existing THEN "init" ELSE "token",
       !.authority = IF task.minters = None
                     THEN {task.store}
                     ELSE MintAuthorityMultisig(task.store, task.minters)]
  /\ UNCHANGED <<runs, handovers, chain, deployment, named>>

CreateToken ==
  /\ At("create", "token")
  /\ mint_authority' = [mint_authority EXCEPT ![task.mint] = {task.wallet}]
  /\ freeze_authority' = [freeze_authority EXCEPT ![task.mint] = {task.wallet}]
  /\ GoTo("init")
  /\ UNCHANGED <<runs, handovers, token_mint, deployment, named>>

(* The instruction makes the account of the store: it fails for one that is
   there already. *)
InitOft_HandsOver ==
  /\ At("create", "init")
  /\ token_mint[task.store] = None
  /\ token_mint' = [token_mint EXCEPT ![task.store] = task.mint]
  /\ GoTo("authority")
  /\ UNCHANGED <<runs, handovers, mint_authority, freeze_authority, deployment, named>>

InitOft ==
  /\ At("create", "init")
  /\ token_mint[task.store] = None
  /\ token_mint' = [token_mint EXCEPT ![task.store] = task.mint]
  /\ GoTo(IF task.mint = Existing THEN "save" ELSE "authority")
  /\ UNCHANGED <<runs, handovers, mint_authority, freeze_authority, deployment, named>>

(* Both authorities in one transaction, signed by the wallet that holds them. *)
SetAuthorities_MintOnly ==
  /\ At("create", "authority")
  /\ task.wallet \in mint_authority[task.mint]
  /\ mint_authority' = [mint_authority EXCEPT ![task.mint] = task.authority]
  /\ GoTo("save")
  /\ UNCHANGED <<runs, handovers, freeze_authority, token_mint, deployment, named>>

SetAuthorities ==
  /\ At("create", "authority")
  /\ task.wallet \in mint_authority[task.mint] \cap freeze_authority[task.mint]
  /\ mint_authority' = [mint_authority EXCEPT ![task.mint] = task.authority]
  /\ freeze_authority' = [freeze_authority EXCEPT
       ![task.mint] = IF task.only_oft_store THEN {} ELSE task.authority]
  /\ GoTo("save")
  /\ UNCHANGED <<runs, handovers, token_mint, deployment, named>>

Saved == [mint |-> task.mint, escrow |-> task.escrow, oftStore |-> task.store]

SaveSolanaDeployment_BeforeHandover ==
  /\ At("create", "save") \/ At("create", "authority")
  /\ deployment' = Saved
  /\ task' = IF At("create", "save") THEN None ELSE task
  /\ UNCHANGED <<runs, handovers, chain, named>>

SaveSolanaDeployment ==
  /\ At("create", "save")
  /\ deployment' = Saved
  /\ task' = None
  /\ UNCHANGED <<runs, handovers, chain, named>>

-------------------------------------------------------------------------------
(* setAuthority *)

(* The operator gives mint and escrow.  OFT.json is not read, and nothing
   looks whether the two belong together, or have come to exist: a key that is
   no escrow is like that of a run that broke off before it made its store.
   --only-oft-store has no use but to be given when no list of minters is. *)
StartSetAuthority(wallet, mint, escrow, minters) ==
  /\ task = None
  /\ handovers < MaxHandovers
  /\ handovers' = handovers + 1
  /\ mint <= runs
  /\ escrow <= runs
  /\ task' = [kind |-> "set_authority", step |-> "multisig", wallet |-> wallet, mint |-> mint,
              escrow |-> escrow, store |-> GetOftStore(escrow), minters |-> minters,
              only_oft_store |-> minters = None, authority |-> None]
  /\ named' = [named EXCEPT ![mint] = @ \cup Named(minters) \cup {escrow}]
  /\ UNCHANGED <<runs, chain, deployment>>

(* Here there is always a multisig, with the store as its only signer when no
   additional minter is named. *)
CreateNewMultisig ==
  /\ At("set_authority", "multisig")
  /\ task' = [task EXCEPT !.step = "mint",
                          !.authority = MintAuthorityMultisig(task.store, Named(task.minters))]
  /\ UNCHANGED <<runs, handovers, chain, deployment, named>>

(* getMint throws for a token that does not exist.  The wallet signs for the
   current authority, alone or as a signer of the multisig; nobody does for one
   that was renounced. *)
SetMintAuthority ==
  /\ At("set_authority", "mint")
  /\ mint_authority[task.mint] # None
  /\ task.wallet \in mint_authority[task.mint]
  /\ mint_authority' = [mint_authority EXCEPT ![task.mint] = task.authority]
  /\ GoTo("freeze")
  /\ UNCHANGED <<runs, handovers, freeze_authority, token_mint, deployment, named>>

SetFreezeAuthority ==
  /\ At("set_authority", "freeze")
  /\ task.wallet \in freeze_authority[task.mint]
  /\ freeze_authority' = [freeze_authority EXCEPT ![task.mint] = task.authority]
  /\ task' = None
  /\ UNCHANGED <<runs, handovers, mint_authority, token_mint, deployment, named>>

-------------------------------------------------------------------------------
(* A transaction that fails or is not confirmed, a check that throws, or a
   task that is killed: what was sent stays. *)
BreakOff ==
  /\ task # None
  /\ task' = None
  /\ UNCHANGED <<runs, handovers, chain, deployment, named>>

Init ==
  /\ runs = 0
  /\ handovers = 0
  /\ task = None
  /\ mint_authority = [m \in Mints |-> IF m = Existing THEN ExistingAuthority ELSE None]
  /\ freeze_authority = mint_authority
  /\ token_mint = [s \in Stores |-> None]
  /\ deployment = None
  /\ named = [m \in Mints |-> {}]

Next ==
  \/ \E wallet \in People, minters \in (SUBSET People) \cup {None} :
       \/ \E only_oft_store, maba \in BOOLEAN : StartCreate(wallet, minters, only_oft_store, maba)
       \/ \E mint \in Mints, escrow \in Stores : StartSetAuthority(wallet, mint, escrow, minters)
  \/ CreateMultisig \/ CreateToken \/ InitOft \/ SetAuthorities \/ SaveSolanaDeployment
  \/ CreateNewMultisig \/ SetMintAuthority \/ SetFreezeAuthority
  \/ BreakOff

Spec == Init /\ [][Next]_vars

-------------------------------------------------------------------------------
AuthorityType == SUBSET Principals

TaskType ==
  [kind : {"create", "set_authority"}, wallet : People, mint : Mints, escrow : Stores,
   step : {"multisig", "token", "init", "authority", "save", "mint", "freeze"},
   store : Stores, minters : (SUBSET People) \cup {None}, only_oft_store : BOOLEAN,
   authority : AuthorityType \cup {None}]

(* Every authority is held by people or stores, every store has a mint that
   exists, and OFT.json names a store and its mint. *)
TypeOK ==
  /\ runs \in 0..MaxRuns
  /\ handovers \in 0..MaxHandovers
  /\ task \in TaskType \cup {None}
  /\ mint_authority \in [Mints -> AuthorityType \cup {None}]
  /\ freeze_authority \in [Mints -> AuthorityType \cup {None}]
  /\ token_mint \in [Stores -> Mints \cup {None}]
  /\ \A s \in Stores : token_mint[s] # None => mint_authority[token_mint[s]] # None
  /\ deployment # None => token_mint[deployment.oftStore] = deployment.mint
  /\ named \in [Mints -> SUBSET Principals]

(* The OFT.json of a token that createOFT made names a store that can mint it
   (createOFT saves last), wherever earlier and later runs broke off, unless
   setAuthority was given another escrow for that token. *)
SavedDeploymentCanMint ==
  deployment # None /\ deployment.mint # Existing =>
    \/ CanMint(deployment.oftStore, deployment.mint)
    \/ \E store \in Stores \ {deployment.oftStore} : store \in named[deployment.mint]

(* Nobody but the store, and who the operator named, can mint or freeze the
   token of an OFT.json that createOFT made, whatever setAuthority was given:
   the wallet that created it has handed both authorities over. *)
OnlyNamedAuthorities ==
  deployment # None /\ deployment.mint # Existing =>
    mint_authority[deployment.mint] \cup freeze_authority[deployment.mint]
      \subseteq {deployment.oftStore} \cup named[deployment.mint]

(* A store that can mint a token loses that only to a setAuthority which the
   operator runs for the token with the escrow of another store: not to one for
   the store itself, nor to createOFT, which runs again for a MABA token that a
   bridge uses already. *)
BridgeKeepsMinting ==
  [][\A s \in Stores, m \in Mints :
       CanMint(s, m) =>
         \/ CanMint(s, m)'
         \/ At("set_authority", "mint") /\ task.mint = m /\ task.escrow # s]_vars

(* "only the OFT Store will be able to mint new tokens and ... the Freeze
   Authority will be immediately renounced" (the prompt of createOFT for
   --only-oft-store): what it has done when it comes to save. *)
OnlyOftStoreMints ==
  At("create", "save") /\ task.only_oft_store /\ task.mint # Existing =>
    /\ mint_authority[task.mint] = {task.store}
    /\ freeze_authority[task.mint] = {}
===============================================================================
