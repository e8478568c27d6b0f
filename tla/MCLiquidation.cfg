SPECIFICATION Spec
CONSTANTS
  Accounts = {engine, u1, u2}
  ZeroAddress = zero
  Engine = engine
  weth = weth
  wbtc = wbtc
  ethFeed = ethFeed
  btcFeed = btcFeed
  Tokens = {weth}
  Feeds = {ethFeed}
  NoAnswer = NoAnswer
  tokenAddresses <- OneToken
  priceFeedAddresses <- OneFeed
  MaxUint = 127
  PRECISION = 4
  ADDITIONAL_FEED_PRECISION = 2
  LIQUIDATION_THRESHOLD = 1
  LIQUIDATION_PRECISION = 2
  LIQUIDATION_BONUS = 1
  MINIMUM_HEALTH_FACTOR = 1
  MIN_HEALTH_FACTOR = 4
  Endowment = 7
  Answers <- OddAnswers
  DepositAmounts = {7}
  DebtAmounts = {1, 4}
  TokenTransfers = {}
  CoinTransfers = {1}
  Approvals = {127}
  TokenSpenders = {engine}
  CoinSpenders = {engine}
  SupplyBound = 5
INVARIANTS TypeOK SupplyIsOwed
PROPERTIES HealthLossHasCause LiquidationTerms
SYMMETRY Interchangeable
