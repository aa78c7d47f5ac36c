\* Payments of two invoices; a pass reads one of them and sees the
\* latest transaction only.  Two passes at a time, and a request about i2.
SPECIFICATION FairSpec
CONSTANTS
    i1 = i1  i2 = i2  s1 = s1  s2 = s2  p1 = p1  p2 = p2  o1 = o1
    NoInvoice = NoInvoice  NoSig = NoSig  NoTx = NoTx  NoRow = NoRow
    Invoices <- TwoInvoices
    Sigs <- TwoSigs
    Passes <- TwoPasses
    Others <- OneOther
    Asked = {i2}
    Total <- OneIsMore
    Amounts = {999}
    Limit = 1
    Window = 1
    PatchStatuses = {"sent"}
    PatchTotals = {}
    MaxFaults = 1
INVARIANTS CreditedOnce NeverOvercredited
PROPERTY EveryPaymentSettles
CHECK_DEADLOCK FALSE
