SPECIFICATION HandlerSpec
CONSTANTS
  handler = handler
  MAX_DEPOSIT_SIZE = 3
  CollateralBound = 7
  Accounts = {engine, handler, u1, u2}
  ZeroAddress = zero
  Engine = engine
  weth = weth
  wbtc = wbtc
  ethFeed = ethFeed
  btcFeed = btcFeed
  Tokens = {weth, wbtc}
  Feeds = {ethFeed, btcFeed}
  NoAnswer = NoAnswer
  tokenAddresses <- TwoTokens
  priceFeedAddresses <- TwoFeeds
  MaxUint = 255
  PRECISION = 4
  ADDITIONAL_FEED_PRECISION = 2
  LIQUIDATION_THRESHOLD = 2
  LIQUIDATION_PRECISION = 4
  LIQUIDATION_BONUS = 1
  MINIMUM_HEALTH_FACTOR = 1
  MIN_HEALTH_FACTOR = 4
  Endowment = 0
  Answers = {1, 2, 3}
  DepositAmounts = {1, 2, 3}
  DebtAmounts = {1, 2, 3}
  TokenTransfers = {}
  CoinTransfers = {}
  Approvals = {}
  TokenSpenders = {engine}
  CoinSpenders = {engine}
  SupplyBound = 255
INVARIANTS ProtocolHasMoreValueThanSupply SendersAreDoublyBacked NothingIsPassedOver
SYMMETRY Interchangeable
CHECK_DEADLOCK FALSE
