\* Startup and the timer initialize, two invoices get their NFTs, one fault.
SPECIFICATION FairSpec
CONSTANTS
    boot = boot  timer = timer  i1 = i1  i2 = i2  m1 = m1  m2 = m2
    NoNft = NoNft
    Tasks = {boot, timer}
    Timer = timer
    Invoices = {i1, i2}
    Requests = {m1, m2}
    Settings <- OtherNetwork
    Balances = {1, 2}
    MaxFaults = 1
INVARIANTS CreatedOnce RestartFindsThem RecordedIsItsOwn
PROPERTY SelfHeals
CHECK_DEADLOCK FALSE
