CONSTANTS
  U64Max = 7
  None = None
  Amounts <- MCAmounts
  LimitParams <- MCLimitParams
  MaxTime = 3
  MaxReturned = 1
SPECIFICATION FlowSpec
INVARIANTS
  TypeOK
  NetFlowIsLimited
PROPERTIES
  OutboundIsBucket
  InboundIsBucket
