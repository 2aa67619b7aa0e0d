SPECIFICATION FairSpec
CONSTANTS
  None = None
  Blank = Blank
  Requests = {r1, r2, r3}
  Keys = {k}
  Amounts <- SomeAmounts
  Rests = {x}
CHECK_DEADLOCK FALSE
INVARIANTS
  TypeOK
  EachPaymentItsEvent
  LoserFindsWinner
PROPERTIES
  KeepsContract
  EveryRequestEnds
