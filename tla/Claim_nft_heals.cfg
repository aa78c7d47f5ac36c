\* No call fails and nothing crashes: the wallet is empty first, then funded.
SPECIFICATION FairSpec
CONSTANTS
    boot = boot  timer = timer  i1 = i1  i2 = i2  m1 = m1  m2 = m2
    NoNft = NoNft
    Tasks = {boot, timer}
    Timer = timer
    Invoices = {i1}
    Requests = {m1}
    Settings <- NewOrForeign
    Balances = {0, 2}
    MaxFaults = 0
PROPERTY SelfHeals
CHECK_DEADLOCK FALSE
