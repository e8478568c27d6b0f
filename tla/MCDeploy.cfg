SPECIFICATION DeploySpec
CONSTANTS
  Accounts = {deployer, engine, user}
  ZeroAddress = zero
  Deployer = deployer
  Engine = engine
  MaxUint = 2
  Amounts = {0, 1, 2}
INVARIANTS TypeOK SupplyIsTotal DeployedCoinIsOwed
PROPERTIES RenouncedIsFinal HandOverIsFinal
