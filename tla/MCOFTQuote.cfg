CONSTANTS
  U64Max = 64
  OneInBasisPoints = 10
  Ld2sdRate = 2
  None = None
  Amounts <- MCAmounts
  FeeChoices <- MCFeeChoices
  TransferFees <- MCTransferFees
SPECIFICATION Spec
INVARIANTS
  TypeOK
  SlippageProtectsSender
  TaskSendsValue
  QuoteAddsUp
  NoDustCrosses
  EscrowGetsExactly
  PreFeeIsLeast
