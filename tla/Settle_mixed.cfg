\* Direct, manual and relayed payments of one invoice by two customers.
SPECIFICATION Spec
CONSTANTS
    r1 = r1  r2 = r2  r3 = r3  s1 = s1  s2 = s2  i1 = i1  i2 = i2
    c1 = c1  c2 = c2  p1 = p1  p2 = p2
    NoRequest = NoRequest  NoSig = NoSig  NoTx = NoTx
    NoPayment = NoPayment  NoSnap = NoSnap
    Requests <- ThreeRequests
    Invoices <- OneInvoice
    Sigs <- TwoSigs
    Customers = {c1, c2}
    Payees = {p1}
    Buyers <- None
    Invoicee <- ToFirst
    Subtotal <- OneUSDC
    PlatformFee <- OnePercent
    Total <- Discounted
    InitialStatuses = {"sent"}
    GasFee = 150000
    Tolerance = 100
    Endpoints = {"direct", "manual", "relay"}
    DirectAmounts <- FullAmount
    ManualAmounts <- HalfAmount
    RelayTransfers <- ShippedClient
    PatchStatuses = {"sent"}
    PatchTotals <- None
    ServiceFeeSigs = {s2}
    MintMayFail = TRUE
    MaxFaults = 1
SYMMETRY RequestSymmetry
INVARIANTS TypeOK CreditedOnce ReceiptOnce CreditedDespiteError
INVARIANTS NeverOvercredited DeadlocksAreMixed
CHECK_DEADLOCK FALSE
