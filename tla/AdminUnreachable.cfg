SPECIFICATION FairSpec
CONSTANTS
  Tabs = {t1}
  Others = {o1}
  AddressOf <- MCAddressOf
  Tokens = {tokenA, tokenB}
  NoToken = NoToken
  NoTab = NoTab
  NoEntry = NoEntry
  MaxRequests = 2
  Window = 3
  MaxWait = 1
  ConnectInfoProvided = FALSE
PROPERTY
  AskersLetThrough
