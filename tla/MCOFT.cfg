CONSTANTS
  U64Max = 31
  OneInBasisPoints = 4
  Ld2sdRate = 2
  None = None
  OftTypes = {"Native", "Adapter"}
  Keys = {k1}
  Eids = {e1}
  Addresses = {a1}
  ZeroAddress = ZeroAddress
  InitialBalance = 14
  SendAmounts = {5, 9}
  VerifiedAmounts = {2, 11, 16}
  ComposeChoices = {TRUE}
  FeeChoices <- MCFees
  Withdrawals = {2}
  LimitParams <- MCLimits
  TransferFees <- MCTransferFees
  MintAuthorities <- MCMintAuthorities
  MaxOutbound = 2
  MaxInbound = 2
  MaxTime = 1
SPECIFICATION Spec
INVARIANTS
  TypeOK
  EscrowCoversTvl
  TvlIsMessageValue
  NativeSupplyIsMessageValue
PROPERTIES
  ComposeReportsCredit
  PauseStopsBridge
