------------------------- MODULE OFTDeployment_proofs -------------------------
(***************************************************************************)
(* Who may mint, for any number of runs and people.  The invariant says    *)
(* what each step of a task has achieved: a token whose authorities are    *)
(* still the operator's is the one of the run in progress, and never that  *)
(* of OFT.json.                                                            *)
(***************************************************************************)
EXTENDS OFTDeployment, TLAPS

DeploymentType == [mint : Mints, escrow : Stores, oftStore : Stores]

AnotherNamed(mint, store) == \E other \in Stores \ {store} : other \in named[mint]

HandedOver(mint, store) ==
  /\ store \in mint_authority[mint] \/ AnotherNamed(mint, store)
  /\ mint_authority[mint] \cup freeze_authority[mint] \subseteq {store} \cup named[mint]

DeploymentOK ==
  deployment # None =>
    /\ deployment \in DeploymentType
    /\ deployment.escrow = deployment.oftStore
    /\ deployment.mint <= runs
    /\ deployment.mint # Existing => HandedOver(deployment.mint, deployment.oftStore)

(* The tokens of runs to come do not exist. *)
NotYetOK == \A mint \in Mints : mint > runs => mint_authority[mint] = None

(* What createOFT has done before each of its steps. *)
CreateOK ==
  task # None /\ task.kind = "create" =>
    /\ task.store = runs
    /\ task.mint \in {Existing, runs}
    /\ task.step \in {"multisig", "token", "init", "authority", "save"}
    /\ task.step \in {"token", "authority"} => task.mint # Existing
    /\ deployment # None => deployment.mint < runs
    /\ task.step \in {"multisig", "token"} /\ task.mint # Existing => mint_authority[task.mint] = None
    /\ task.step \in {"init", "authority"} /\ task.mint # Existing =>
         mint_authority[task.mint] = {task.wallet}
    /\ task.step \in {"init", "authority", "save"} => mint_authority[task.mint] # None
    /\ task.step \in {"authority", "save"} => token_mint[task.store] = task.mint
    /\ task.step = "save" /\ task.mint # Existing => HandedOver(task.mint, task.store)

(* The store that setAuthority hands over to is one that the operator named,
   for a token of a run that was started. *)
SetAuthorityOK ==
  task # None /\ task.kind = "set_authority" =>
    /\ task.mint <= runs
    /\ task.store \in named[task.mint]

(* The authority a task hands over to is the store with minters named. *)
AuthorityOK ==
  task # None =>
    /\ task.store = task.escrow
    /\ Named(task.minters) \subseteq named[task.mint]
    /\ task.step # "multisig" =>
         /\ task.authority \in AuthorityType
         /\ task.store \in task.authority
         /\ task.authority \subseteq {task.store} \cup named[task.mint]

Inv ==
  /\ TypeOK
  /\ mint_authority[Existing] # None
  /\ NotYetOK
  /\ DeploymentOK
  /\ CreateOK
  /\ SetAuthorityOK
  /\ AuthorityOK

-------------------------------------------------------------------------------
(* Before the first run, nothing is saved and the token that exists has the
   authority of its issuer. *)
LEMMA InitInv == Init => Inv
<1>. SUFFICES ASSUME Init PROVE Inv
  OBVIOUS
<1>. USE PeopleAssumption DEF Init
<1>1. TypeOK
  BY DEF TypeOK, Mints, Stores, Existing, AuthorityType, Principals
<1>2. mint_authority[Existing] # None
  BY DEF Mints, Existing, Principals
<1>3. NotYetOK
  BY DEF NotYetOK, Mints, Existing
<1>. QED  BY <1>1, <1>2, <1>3 DEF Inv, DeploymentOK, CreateOK, SetAuthorityOK, AuthorityOK

-------------------------------------------------------------------------------
(* createOFT.  A run generates a mint later than that of OFT.json. *)
LEMMA StartCreateInv ==
  ASSUME Inv, NEW wallet \in People, NEW minters \in (SUBSET People) \cup {None},
         NEW only_oft_store \in BOOLEAN, NEW maba \in BOOLEAN,
         StartCreate(wallet, minters, only_oft_store, maba)
  PROVE  Inv'
<1>. DEFINE mint == IF maba THEN Existing ELSE runs'
<1>. USE PeopleAssumption DEF Inv, StartCreate, chain
<1>1. runs \in 0..MaxRuns /\ runs' = runs + 1 /\ runs' \in Stores /\ mint \in Mints
  BY DEF TypeOK, Stores, Mints, Existing
<1>2. task' \in TaskType
  BY <1>1 DEF TaskType, DeriveKeys
<1>3. /\ named' \in [Mints -> SUBSET Principals]
      /\ \A m \in Mints : named[m] \subseteq named'[m]
      /\ Named(minters) \subseteq named'[mint]
  <2>1. Named(minters) \in SUBSET Principals
    BY DEF Named, Principals
  <2>. QED  BY <1>1, <2>1 DEF TypeOK
<1>4. TypeOK'
  BY <1>1, <1>2, <1>3 DEF TypeOK
<1>a. NotYetOK'
  BY <1>1 DEF NotYetOK, Mints
<1>5. DeploymentOK'
  <2>. SUFFICES ASSUME deployment # None PROVE DeploymentOK'
    BY DEF DeploymentOK
  <2>1. deployment \in DeploymentType /\ deployment.mint \in Mints
    BY DEF DeploymentOK, DeploymentType
  <2>2. deployment.mint <= runs'
    BY <1>1, <2>1 DEF DeploymentOK, Mints
  <2>3. named[deployment.mint] \subseteq named'[deployment.mint]
    BY <1>3, <2>1
  <2>. QED  BY <2>1, <2>2, <2>3 DEF DeploymentOK, HandedOver, AnotherNamed
<1>6. CreateOK'
  <2>1. mint # Existing => mint_authority[mint] = None
    BY <1>1 DEF NotYetOK
  <2>. QED  BY <1>1, <2>1 DEF CreateOK, DeploymentOK, DeploymentType, DeriveKeys, Mints
<1>7. SetAuthorityOK' /\ AuthorityOK'
  BY <1>1, <1>3 DEF SetAuthorityOK, AuthorityOK, DeriveKeys
<1>. QED  BY <1>4, <1>5, <1>6, <1>7, <1>a

LEMMA CreateMultisigInv == Inv /\ CreateMultisig => Inv'
<1>. SUFFICES ASSUME Inv, CreateMultisig PROVE Inv'
  OBVIOUS
<1>. DEFINE authority == IF task.minters = None
                         THEN {task.store}
                         ELSE MintAuthorityMultisig(task.store, task.minters)
            step == IF task.mint = Existing THEN "init" ELSE "token"
<1>. USE PeopleAssumption DEF Inv, CreateMultisig, chain
<1>1. task \in TaskType /\ task # None /\ task.kind = "create"
  BY DEF TypeOK, At
<1>2. /\ authority \in AuthorityType
      /\ task.store \in authority
      /\ authority \subseteq {task.store} \cup named[task.mint]
  BY <1>1 DEF AuthorityOK, Named, MintAuthorityMultisig, AuthorityType, Principals, TaskType
<1>3. task' = [task EXCEPT !.step = step, !.authority = authority]
  OBVIOUS
<1>. HIDE DEF authority
<1>4. task' \in TaskType
  BY <1>1, <1>2, <1>3 DEF TaskType
<1>5. TypeOK'
  BY <1>4 DEF TypeOK
<1>6. DeploymentOK'
  BY DEF DeploymentOK, HandedOver, AnotherNamed
<1>7. CreateOK'
  <2>1. /\ task'.step = step /\ task'.kind = "create"
        /\ task'.store = task.store /\ task'.mint = task.mint /\ task'.wallet = task.wallet
    BY <1>1, <1>3 DEF TaskType
  <2>2. task.mint # Existing => step = "token" /\ mint_authority[task.mint] = None
    BY <1>1 DEF At, CreateOK
  <2>3. task.mint = Existing => step = "init"
    OBVIOUS
  <2>. HIDE DEF step
  <2>. QED  BY <1>1, <2>1, <2>2, <2>3 DEF CreateOK
<1>8. SetAuthorityOK'
  BY <1>1, <1>3 DEF SetAuthorityOK, TaskType
<1>9. AuthorityOK'
  <2>1. /\ task'.authority = authority
        /\ task'.store = task.store /\ task'.escrow = task.escrow
        /\ task'.minters = task.minters /\ task'.mint = task.mint
    BY <1>1, <1>3 DEF TaskType
  <2>. QED  BY <1>1, <1>2, <2>1 DEF AuthorityOK
<1>. QED  BY <1>5, <1>6, <1>7, <1>8, <1>9 DEF NotYetOK

(* The token that the wallet holds for the moment is not that of OFT.json. *)
LEMMA CreateTokenInv == Inv /\ CreateToken => Inv'
<1>. SUFFICES ASSUME Inv, CreateToken PROVE Inv'
  OBVIOUS
<1>. USE PeopleAssumption DEF Inv, CreateToken, At, GoTo
<1>1. task \in TaskType /\ task.kind = "create" /\ task.mint # Existing
  BY DEF TypeOK, CreateOK
<1>2. {task.wallet} \in SUBSET Principals /\ {task.wallet} # None /\ task.mint \in Mints
  BY <1>1 DEF TaskType, Principals
<1>3. task' \in TaskType
  BY <1>1 DEF TaskType
<1>4. TypeOK'
  BY <1>2, <1>3 DEF TypeOK, AuthorityType
<1>5. mint_authority'[Existing] # None
  BY <1>1 DEF TypeOK, Mints, Existing
<1>6. deployment # None => deployment.mint # task.mint
  BY <1>1 DEF CreateOK, DeploymentOK, DeploymentType, Mints, Existing, TypeOK
<1>7. DeploymentOK'
  BY <1>6 DEF DeploymentOK, DeploymentType, HandedOver, AnotherNamed, TypeOK
<1>8. CreateOK'
  BY <1>1, <1>2 DEF CreateOK, TaskType, TypeOK
<1>9. SetAuthorityOK' /\ AuthorityOK'
  BY <1>1 DEF SetAuthorityOK, AuthorityOK, TaskType
<1>10. NotYetOK'
  BY <1>1 DEF NotYetOK, CreateOK, TypeOK
<1>. QED  BY <1>4, <1>5, <1>7, <1>8, <1>9, <1>10

LEMMA InitOftInv == Inv /\ InitOft => Inv'
<1>. SUFFICES ASSUME Inv, InitOft PROVE Inv'
  OBVIOUS
<1>. USE PeopleAssumption DEF Inv, InitOft, At, GoTo
<1>1. task \in TaskType /\ task.kind = "create"
  BY DEF TypeOK
<1>2. task' \in TaskType
  BY <1>1 DEF TaskType
<1>3. token_mint' \in [Stores -> Mints \cup {None}]
  BY <1>1 DEF TypeOK, TaskType
<1>4. \A s \in Stores : token_mint'[s] # None => mint_authority[token_mint'[s]] # None
  BY <1>1 DEF TypeOK, CreateOK, TaskType
<1>5. deployment # None => token_mint'[deployment.oftStore] = deployment.mint
  BY <1>1 DEF TypeOK, DeploymentOK, DeploymentType, TaskType, Mints
<1>6. TypeOK'
  BY <1>2, <1>3, <1>4, <1>5 DEF TypeOK
<1>7. DeploymentOK'
  BY DEF DeploymentOK, HandedOver, AnotherNamed
<1>8. CreateOK'
  BY <1>1 DEF CreateOK, TaskType, TypeOK
<1>9. SetAuthorityOK' /\ AuthorityOK'
  BY <1>1 DEF SetAuthorityOK, AuthorityOK, TaskType
<1>. QED  BY <1>6, <1>7, <1>8, <1>9 DEF NotYetOK

(* The wallet gives both authorities away before createOFT comes to save. *)
LEMMA SetAuthoritiesInv == Inv /\ SetAuthorities => Inv'
<1>. SUFFICES ASSUME Inv, SetAuthorities PROVE Inv'
  OBVIOUS
<1>. USE PeopleAssumption DEF Inv, SetAuthorities, At, GoTo
<1>1. task \in TaskType /\ task.kind = "create" /\ task.mint # Existing /\ task.mint \in Mints
  BY DEF TypeOK, CreateOK, TaskType
<1>2. /\ task.authority \in SUBSET Principals
      /\ task.authority # None
      /\ task.store \in task.authority
      /\ task.authority \subseteq {task.store} \cup named[task.mint]
  BY <1>1 DEF AuthorityOK, AuthorityType
<1>3. task' \in TaskType
  BY <1>1 DEF TaskType
<1>4. TypeOK'
  BY <1>1, <1>2, <1>3 DEF TypeOK, AuthorityType
<1>5. mint_authority'[Existing] # None
  BY <1>1 DEF TypeOK, Mints, Existing
<1>6. deployment # None => deployment.mint # task.mint
  BY <1>1 DEF CreateOK, DeploymentOK, DeploymentType, Mints, Existing, TypeOK
<1>7. DeploymentOK'
  BY <1>6 DEF DeploymentOK, DeploymentType, HandedOver, AnotherNamed, TypeOK
<1>8. HandedOver(task.mint, task.store)'
  <2>1. /\ mint_authority'[task.mint] = task.authority
        /\ freeze_authority'[task.mint] \subseteq task.authority
    BY <1>1 DEF TypeOK
  <2>2. task'.mint = task.mint /\ task'.store = task.store /\ named' = named
    BY <1>1 DEF TaskType
  <2>. QED  BY <1>2, <2>1, <2>2 DEF HandedOver
<1>9. CreateOK'
  BY <1>1, <1>2, <1>8 DEF CreateOK, TaskType, TypeOK
<1>10. SetAuthorityOK' /\ AuthorityOK'
  BY <1>1 DEF SetAuthorityOK, AuthorityOK, TaskType
<1>11. NotYetOK'
  BY <1>1 DEF NotYetOK, CreateOK, TypeOK
<1>. QED  BY <1>4, <1>5, <1>7, <1>9, <1>10, <1>11

LEMMA SaveSolanaDeploymentInv == Inv /\ SaveSolanaDeployment => Inv'
<1>. SUFFICES ASSUME Inv, SaveSolanaDeployment PROVE Inv'
  OBVIOUS
<1>. USE PeopleAssumption DEF Inv, SaveSolanaDeployment, At, chain
<1>1. task \in TaskType /\ task.kind = "create"
  BY DEF TypeOK
<1>2. /\ deployment' \in DeploymentType
      /\ deployment'.mint = task.mint
      /\ deployment'.oftStore = task.store
      /\ deployment'.escrow = task.escrow
  BY <1>1 DEF Saved, TaskType, DeploymentType
<1>3. token_mint[task.store] = task.mint
  BY <1>1 DEF CreateOK
<1>4. TypeOK'
  BY <1>2, <1>3 DEF TypeOK
<1>5. task.store = task.escrow /\ task.mint <= runs
  BY <1>1 DEF AuthorityOK, CreateOK, TypeOK, TaskType, Existing
<1>6. task.mint # Existing => HandedOver(task.mint, task.store)
  BY <1>1 DEF CreateOK
<1>7. DeploymentOK'
  BY <1>2, <1>5, <1>6 DEF DeploymentOK, HandedOver, AnotherNamed
<1>8. CreateOK' /\ SetAuthorityOK' /\ AuthorityOK'
  BY DEF CreateOK, SetAuthorityOK, AuthorityOK
<1>. QED  BY <1>4, <1>7, <1>8 DEF NotYetOK

-------------------------------------------------------------------------------
(* setAuthority, for any mint and escrow: both are named. *)
LEMMA StartSetAuthorityInv ==
  ASSUME Inv, NEW wallet \in People, NEW minters \in (SUBSET People) \cup {None},
         NEW mint \in Mints, NEW escrow \in Stores,
         StartSetAuthority(wallet, mint, escrow, minters)
  PROVE  Inv'
<1>. USE PeopleAssumption DEF Inv, StartSetAuthority, chain
<1>1. task' \in TaskType
  BY DEF TaskType, GetOftStore
<1>2. /\ named' \in [Mints -> SUBSET Principals]
      /\ \A m \in Mints : named[m] \subseteq named'[m]
      /\ Named(minters) \subseteq named'[mint]
      /\ escrow \in named'[mint]
  <2>1. Named(minters) \cup {escrow} \in SUBSET Principals
    BY DEF Named, Principals
  <2>. QED  BY <2>1 DEF TypeOK
<1>3. handovers' \in 0..MaxHandovers
  BY DEF TypeOK
<1>4. TypeOK'
  BY <1>1, <1>2, <1>3 DEF TypeOK
<1>5. DeploymentOK'
  BY <1>2 DEF DeploymentOK, DeploymentType, HandedOver, AnotherNamed
<1>6. CreateOK' /\ NotYetOK'
  BY DEF CreateOK, NotYetOK
<1>7. SetAuthorityOK' /\ AuthorityOK'
  BY <1>2 DEF SetAuthorityOK, AuthorityOK, GetOftStore
<1>. QED  BY <1>4, <1>5, <1>6, <1>7

LEMMA CreateNewMultisigInv == Inv /\ CreateNewMultisig => Inv'
<1>. SUFFICES ASSUME Inv, CreateNewMultisig PROVE Inv'
  OBVIOUS
<1>. DEFINE authority == MintAuthorityMultisig(task.store, Named(task.minters))
<1>. USE PeopleAssumption DEF Inv, CreateNewMultisig, chain
<1>1. task \in TaskType /\ task # None /\ task.kind = "set_authority"
  BY DEF TypeOK, At
<1>2. /\ authority \in AuthorityType
      /\ task.store \in authority
      /\ authority \subseteq {task.store} \cup named[task.mint]
  BY <1>1 DEF AuthorityOK, Named, MintAuthorityMultisig, AuthorityType, Principals, TaskType
<1>3. task' = [task EXCEPT !.step = "mint", !.authority = authority]
  OBVIOUS
<1>. HIDE DEF authority
<1>4. task' \in TaskType
  BY <1>1, <1>2, <1>3 DEF TaskType
<1>5. TypeOK'
  BY <1>4 DEF TypeOK
<1>6. DeploymentOK'
  BY DEF DeploymentOK, HandedOver, AnotherNamed
<1>7. CreateOK'
  BY <1>1, <1>3 DEF CreateOK, TaskType
<1>8. SetAuthorityOK'
  BY <1>1, <1>3 DEF SetAuthorityOK, TaskType
<1>9. AuthorityOK'
  <2>1. /\ task'.authority = authority
        /\ task'.store = task.store /\ task'.escrow = task.escrow
        /\ task'.minters = task.minters /\ task'.mint = task.mint
    BY <1>1, <1>3 DEF TaskType
  <2>. QED  BY <1>1, <1>2, <2>1 DEF AuthorityOK
<1>. QED  BY <1>5, <1>6, <1>7, <1>8, <1>9 DEF NotYetOK

(* What a task that hands over a token has as its authority. *)
LEMMA NewAuthority ==
  ASSUME Inv, task # None, task.kind = "set_authority", task.step \in {"mint", "freeze"}
  PROVE  /\ task \in TaskType /\ task.mint \in Mints /\ task.store \in Stores
         /\ task.store = task.escrow /\ task.mint <= runs
         /\ task.authority \in AuthorityType /\ task.authority # None
         /\ task.store \in task.authority
         /\ task.store \in named[task.mint]
         /\ task.authority \subseteq named[task.mint]
<1>1. task \in TaskType /\ task.mint \in Mints /\ task.store \in Stores
  BY DEF Inv, TypeOK, TaskType
<1>2. task.mint <= runs /\ task.store \in named[task.mint]
  BY DEF Inv, SetAuthorityOK
<1>3. /\ task.authority \in AuthorityType
      /\ task.store = task.escrow
      /\ task.store \in task.authority
      /\ task.authority \subseteq {task.store} \cup named[task.mint]
  BY DEF Inv, AuthorityOK
<1>. QED  BY PeopleAssumption, <1>1, <1>2, <1>3 DEF AuthorityType

(* A saved token that is handed over is so to a store that was named. *)
LEMMA SetMintAuthorityInv == Inv /\ SetMintAuthority => Inv'
<1>. SUFFICES ASSUME Inv, SetMintAuthority PROVE Inv'
  OBVIOUS
<1>. USE NewAuthority DEF SetMintAuthority, At, GoTo
<1>1. task' \in TaskType
  BY DEF TaskType
<1>2. mint_authority'[Existing] # None
  BY DEF Inv, TypeOK, Mints, Existing
<1>3. TypeOK'
  BY <1>1 DEF Inv, TypeOK
<1>4. \A m \in Mints : mint_authority'[m] = IF m = task.mint THEN task.authority ELSE mint_authority[m]
  BY DEF Inv, TypeOK
<1>5. DeploymentOK'
  <2>. SUFFICES ASSUME deployment # None, deployment.mint # Existing
                PROVE  HandedOver(deployment.mint, deployment.oftStore)'
    BY DEF Inv, DeploymentOK
  <2>1. /\ deployment.mint \in Mints
        /\ HandedOver(deployment.mint, deployment.oftStore)
    BY DEF Inv, DeploymentOK, DeploymentType
  <2>2. CASE deployment.mint = task.mint
    BY <1>4, <2>1, <2>2 DEF HandedOver, AnotherNamed
  <2>3. CASE deployment.mint # task.mint
    BY <1>4, <2>1, <2>3 DEF HandedOver, AnotherNamed
  <2>. QED  BY <2>2, <2>3
<1>6. CreateOK' /\ SetAuthorityOK'
  BY DEF Inv, CreateOK, SetAuthorityOK, TaskType
<1>7. AuthorityOK'
  BY DEF Inv, AuthorityOK, TaskType
<1>8. NotYetOK'
  BY <1>4 DEF Inv, NotYetOK
<1>. QED  BY <1>2, <1>3, <1>5, <1>6, <1>7, <1>8 DEF Inv

LEMMA SetFreezeAuthorityInv == Inv /\ SetFreezeAuthority => Inv'
<1>. SUFFICES ASSUME Inv, SetFreezeAuthority PROVE Inv'
  OBVIOUS
<1>. USE NewAuthority DEF SetFreezeAuthority, At
<1>1. TypeOK'
  BY DEF Inv, TypeOK
<1>2. \A m \in Mints :
        freeze_authority'[m] = IF m = task.mint THEN task.authority ELSE freeze_authority[m]
  BY DEF Inv, TypeOK
<1>3. DeploymentOK'
  <2>. SUFFICES ASSUME deployment # None, deployment.mint # Existing
                PROVE  HandedOver(deployment.mint, deployment.oftStore)'
    BY DEF Inv, DeploymentOK
  <2>1. /\ deployment.mint \in Mints
        /\ HandedOver(deployment.mint, deployment.oftStore)
    BY DEF Inv, DeploymentOK, DeploymentType
  <2>. QED  BY <1>2, <2>1 DEF HandedOver, AnotherNamed
<1>4. CreateOK' /\ SetAuthorityOK' /\ AuthorityOK'
  BY DEF CreateOK, SetAuthorityOK, AuthorityOK
<1>. QED  BY <1>1, <1>3, <1>4 DEF Inv, NotYetOK

-------------------------------------------------------------------------------
(* A task that breaks off leaves what was sent. *)
LEMMA BreakOffInv == Inv /\ BreakOff => Inv'
<1>. SUFFICES ASSUME Inv, BreakOff PROVE Inv'
  OBVIOUS
<1>1. CreateOK' /\ SetAuthorityOK' /\ AuthorityOK'
  BY DEF BreakOff, CreateOK, SetAuthorityOK, AuthorityOK
<1>. QED  BY <1>1 DEF BreakOff, chain, Inv, TypeOK, NotYetOK, DeploymentOK, HandedOver, AnotherNamed

(* Inv is inductive. *)
LEMMA NextInv == Inv /\ [Next]_vars => Inv'
<1>. SUFFICES ASSUME Inv, [Next]_vars PROVE Inv'
  OBVIOUS
<1>1. CASE UNCHANGED vars
  BY <1>1 DEF vars, chain, Inv, TypeOK, NotYetOK, DeploymentOK, HandedOver, AnotherNamed,
     CreateOK, SetAuthorityOK, AuthorityOK
<1>2. CASE Next
  BY <1>2, StartCreateInv, CreateMultisigInv, CreateTokenInv, InitOftInv, SetAuthoritiesInv,
     SaveSolanaDeploymentInv, StartSetAuthorityInv, CreateNewMultisigInv, SetMintAuthorityInv,
     SetFreezeAuthorityInv, BreakOffInv DEF Next
<1>. QED  BY <1>1, <1>2

LEMMA SpecInv == Spec => []Inv
BY InitInv, NextInv, PTL DEF Spec

-------------------------------------------------------------------------------
(* The type invariant. *)
THEOREM DeploymentTypes == Spec => []TypeOK
<1>1. Inv => TypeOK
  BY DEF Inv
<1>. QED  BY <1>1, SpecInv, PTL

(* The store of an OFT.json that createOFT made can mint its token, wherever
   runs of createOFT and setAuthority broke off, unless setAuthority was given
   the escrow of another store for it. *)
THEOREM SavedDeploymentAlwaysCanMint == Spec => []SavedDeploymentCanMint
<1>1. Inv => SavedDeploymentCanMint
  <2>. SUFFICES ASSUME Inv, deployment # None, deployment.mint # Existing,
                       ~ AnotherNamed(deployment.mint, deployment.oftStore)
                PROVE  CanMint(deployment.oftStore, deployment.mint)
    BY DEF SavedDeploymentCanMint, AnotherNamed
  <2>1. /\ deployment.mint \in Mints /\ deployment.oftStore \in Stores
        /\ deployment.oftStore \in mint_authority[deployment.mint]
    BY DEF Inv, DeploymentOK, DeploymentType, HandedOver
  <2>2. mint_authority[deployment.mint] # None
    <3>1. token_mint[deployment.oftStore] = deployment.mint /\ deployment.mint # None
      BY <2>1, PeopleAssumption DEF Inv, TypeOK, Mints
    <3>. QED  BY <2>1, <3>1 DEF Inv, TypeOK
  <2>. QED  BY <2>1, <2>2 DEF CanMint
<1>. QED  BY <1>1, SpecInv, PTL

(* Only the store and who the operator named can mint or freeze it, whatever
   setAuthority was given. *)
THEOREM AuthoritiesAlwaysNamed == Spec => []OnlyNamedAuthorities
<1>1. Inv => OnlyNamedAuthorities
  BY DEF Inv, DeploymentOK, HandedOver, OnlyNamedAuthorities
<1>. QED  BY <1>1, SpecInv, PTL

(* A store that can mint loses that only to a setAuthority for another store,
   for any tokens, any mints and escrows that setAuthority was given before. *)
THEOREM BridgeAlwaysKeepsMinting == Spec => BridgeKeepsMinting
<1>. DEFINE Keeps == \A s \in Stores, m \in Mints :
               CanMint(s, m) =>
                 \/ CanMint(s, m)'
                 \/ At("set_authority", "mint") /\ task.mint = m /\ task.escrow # s
<1>1. Inv /\ [Next]_vars => [Keeps]_vars
  <2>. SUFFICES ASSUME Inv, Next, NEW s \in Stores, NEW m \in Mints, CanMint(s, m),
                       ~(At("set_authority", "mint") /\ task.mint = m /\ task.escrow # s)
                PROVE  CanMint(s, m)'
    OBVIOUS
  <2>1. CASE CreateToken
    <3>1. m # task.mint
      BY <2>1 DEF Inv, CreateToken, At, CreateOK, CanMint
    <3>. QED  BY <2>1, <3>1 DEF CreateToken, CanMint, Inv, TypeOK
  <2>2. CASE SetAuthorities
    <3>1. task \in TaskType /\ mint_authority[task.mint] = {task.wallet}
      BY <2>2 DEF Inv, SetAuthorities, At, CreateOK, TypeOK
    <3>2. s # task.wallet
      BY <3>1, PeopleAssumption DEF TaskType, Stores
    <3>3. m # task.mint
      BY <3>1, <3>2 DEF CanMint
    <3>. QED  BY <2>2, <3>3 DEF SetAuthorities, CanMint, Inv, TypeOK
  <2>3. CASE SetMintAuthority
    BY <2>3, NewAuthority DEF SetMintAuthority, At, CanMint, Inv, TypeOK
  <2>4. CASE UNCHANGED mint_authority
    BY <2>4 DEF CanMint
  <2>. QED
    BY <2>1, <2>2, <2>3, <2>4 DEF Next, StartCreate, StartSetAuthority, CreateMultisig, InitOft,
       SaveSolanaDeployment, CreateNewMultisig, SetFreezeAuthority, BreakOff, chain
<1>. QED  BY <1>1, SpecInv, PTL DEF Spec, BridgeKeepsMinting
===============================================================================
