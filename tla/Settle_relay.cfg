\* Three requests among relay, PATCH, DELETE and POST /list, and a sale.
SPECIFICATION Spec
CONSTANTS
    r1 = r1  r2 = r2  r3 = r3  s1 = s1  s2 = s2  i1 = i1  i2 = i2
    c1 = c1  c2 = c2  p1 = p1  p2 = p2
    NoRequest = NoRequest  NoSig = NoSig  NoTx = NoTx
    NoPayment = NoPayment  NoSnap = NoSnap
    Requests <- ThreeRequests
    Invoices <- OneInvoice
    Sigs <- TwoSigs
    Customers = {c1}
    Payees = {p1, p2}
    Buyers = {p2}
    Invoicee <- ToFirst
    Subtotal <- OneUSDC
    PlatformFee <- OnePercent
    Total <- Discounted
    InitialStatuses = {"sent", "listed"}
    GasFee = 150000
    Tolerance = 100
    Endpoints = {"relay", "patch", "delete", "list"}
    DirectAmounts <- None
    ManualAmounts <- None
    RelayTransfers <- NearlyFull
    PatchStatuses = {"sent"}
    PatchTotals <- None
    ServiceFeeSigs <- None
    MintMayFail = TRUE
    MaxFaults = 1
SYMMETRY RequestSymmetry
INVARIANTS PaymentBacked PaidIsDelisted
PROPERTY LedgerSpec
CHECK_DEADLOCK FALSE
