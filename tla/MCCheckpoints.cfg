SPECIFICATION Spec
CONSTANTS
  KeyBits = 3
  ValueBits = 1
  Mocks <- BothMocks
  TraceKeys = {0, 1, 2, 4, 5, 6, 7}
  Amounts = {0, 1, 2}
  LastBlock = 9
INVARIANTS TypeOK LookupsAgree
PROPERTIES PastIsSettled PushReturnsReplaced
CHECK_DEADLOCK FALSE
