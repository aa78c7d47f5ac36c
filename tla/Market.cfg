\* A listing, a buyer and the seller, two requests at a time, one fault.
SPECIFICATION FairSpec
CONSTANTS
    inv1 = inv1
    buyer1 = buyer1
    req1 = req1
    req2 = req2
    Invoices = {inv1}
    Listings = {l1}
    InvoiceOf <- OneInvoice
    Seller = seller
    Buyers = {buyer1}
    NoKey = NoKey
    InEscrow = InEscrow
    Requests = {req1, req2}
    MaxFaults = 1
    DirectCallers = {buyer1}
INVARIANTS HeldByPayee SoldIsRouted
PROPERTIES Reconciled ExpiredIsDelisted
CHECK_DEADLOCK FALSE
