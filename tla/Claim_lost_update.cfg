\* Two payments of one invoice recorded at the same time.
SPECIFICATION Spec
CONSTANTS
    r1 = r1  r2 = r2  r3 = r3  s1 = s1  s2 = s2  i1 = i1  i2 = i2
    c1 = c1  c2 = c2  p1 = p1  p2 = p2
    NoRequest = NoRequest  NoSig = NoSig  NoTx = NoTx
    NoPayment = NoPayment  NoSnap = NoSnap
    Requests <- TwoRequests
    Invoices <- OneInvoice
    Sigs <- TwoSigs
    Customers = {c1}
    Payees = {p1}
    Buyers <- None
    Invoicee <- ToFirst
    Subtotal <- OneUSDC
    PlatformFee <- OnePercent
    Total <- WithFee
    InitialStatuses = {"sent"}
    GasFee = 150000
    Tolerance = 100
    Endpoints = {"manual"}
    DirectAmounts <- None
    ManualAmounts <- Halves
    RelayTransfers <- ShippedClient
    PatchStatuses = {}
    PatchTotals <- None
    ServiceFeeSigs <- None
    MintMayFail = TRUE
    MaxFaults = 0
INVARIANT PaidAddsUp
CHECK_DEADLOCK FALSE
