\* One subscription of several periods, two overlapping cycles, two requests and a fault.
SPECIFICATION FairSpec
CONSTANTS
    sub1 = sub1  cycle1 = cycle1  cycle2 = cycle2  req1 = req1  req2 = req2
    NoSub = NoSub  NoDay = NoDay
    Subs = {sub1}
    Cycles <- TwoCycles
    Requests <- TwoRequests
    Interval <- Weekly
    Count <- Single
    Steps = {31}
    MaxDay = 62
    MaxFaults = 1
INVARIANTS LastPeriodBilled OneLateBill NoRenewalOverwritten
PROPERTIES BillsInOrder BillingMovesOn
CHECK_DEADLOCK FALSE
