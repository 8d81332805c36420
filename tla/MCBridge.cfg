CONSTANTS
  U64Max = 15
  OneInBasisPoints = 4
  Ld2sdRate = 2
  None = None
  OftTypes = {"Native", "Adapter"}
  Keys = {k1}
  Eids = {e1}
  Addresses = {a1, a2}
  ZeroAddress = ZeroAddress
  InitialBalance = 14
  SendAmounts = {5, 9}
  VerifiedAmounts <- MCNone
  ComposeChoices = {FALSE}
  FeeChoices <- MCFees
  Withdrawals = {2}
  LimitParams <- MCNone
  TransferFees <- MCTransferFees
  MintAuthorities <- MCMintAuthorities
  MaxOutbound = 2
  MaxInbound = 2
  MaxTime = 0
  RemoteAmounts = {1, 2}
SPECIFICATION BridgeSpec
INVARIANTS
  RemoteTypeOK
  EveryClaimIsBacked
  EveryClaimIsPayable
PROPERTY
  ImplementsTokenBridge
