SPECIFICATION Spec
CONSTANTS
  Accounts = {engine, u1}
  ZeroAddress = zero
  Engine = engine
  weth = weth
  wbtc = wbtc
  ethFeed = ethFeed
  btcFeed = btcFeed
  Tokens = {weth, wbtc}
  Feeds = {ethFeed, btcFeed}
  NoAnswer = NoAnswer
  tokenAddresses <- TwoTokens
  priceFeedAddresses <- TwoFeeds
  MaxUint = 127
  PRECISION = 4
  ADDITIONAL_FEED_PRECISION = 2
  LIQUIDATION_THRESHOLD = 1
  LIQUIDATION_PRECISION = 2
  LIQUIDATION_BONUS = 1
  MINIMUM_HEALTH_FACTOR = 1
  MIN_HEALTH_FACTOR = 4
  Endowment = 7
  Answers = {0, 2}
  DepositAmounts = {7}
  DebtAmounts = {2}
  TokenTransfers = {7}
  CoinTransfers = {2}
  Approvals = {127}
  TokenSpenders = {engine, u1}
  CoinSpenders = {engine, u1}
  SupplyBound = 4
INVARIANTS Solvency
PROPERTIES DonationsStay StaleFreezesDebt
