SPECIFICATION StepsSpec
CONSTANTS
  MaxFrames = 2
  Accounts = {engine, u1, u2}
  ZeroAddress = zero
  Engine = engine
  weth = weth
  ethFeed = ethFeed
  Tokens = {weth}
  Feeds = {ethFeed}
  NoAnswer = NoAnswer
  tokenAddresses <- OneToken
  priceFeedAddresses <- OneFeed
  MaxUint = 127
  PRECISION = 4
  ADDITIONAL_FEED_PRECISION = 2
  LIQUIDATION_THRESHOLD = 1
  LIQUIDATION_PRECISION = 2
  LIQUIDATION_BONUS = 1
  MINIMUM_HEALTH_FACTOR = 1
  MIN_HEALTH_FACTOR = 4
  Endowment = 3
  Answers = {1, 2}
  DepositAmounts = {3}
  DebtAmounts = {1}
  TokenTransfers = {}
  CoinTransfers = {}
  Approvals = {127}
  TokenSpenders = {engine}
  CoinSpenders = {engine}
  SupplyBound = 1
SYMMETRY Interchangeable
INVARIANTS StepsTypeOK OneGuardedCall Backed
PROPERTIES DebtsStandStill SeenFromOutside
