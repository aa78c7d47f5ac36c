\* Several kinds of request at once, and a fault: does every one of them finish?
SPECIFICATION FairSpec
CONSTANTS
    r1 = r1  r2 = r2  r3 = r3  s1 = s1  s2 = s2  i1 = i1  i2 = i2
    c1 = c1  c2 = c2  p1 = p1  p2 = p2
    NoRequest = NoRequest  NoSig = NoSig  NoTx = NoTx
    NoPayment = NoPayment  NoSnap = NoSnap
    Requests <- ThreeRequests
    Invoices <- OneInvoice
    Sigs <- OneSig
    Customers = {c1}
    Payees = {p1}
    Buyers <- None
    Invoicee <- ToFirst
    Subtotal <- OneUSDC
    PlatformFee <- OnePercent
    Total <- Discounted
    InitialStatuses = {"draft", "sent", "listed"}
    GasFee = 150000
    Tolerance = 100
    Endpoints = {"manual", "relay", "delete"}
    DirectAmounts <- None
    ManualAmounts <- HalfAmount
    RelayTransfers <- ShippedClient
    PatchStatuses = {"sent"}
    PatchTotals <- None
    ServiceFeeSigs <- None
    MintMayFail = TRUE
    MaxFaults = 1
PROPERTIES EveryRequestFinishes RecordedIsAnnounced
CHECK_DEADLOCK FALSE
