\* Two invoices in one tree, a subscription with or without a term, two wallets.
SPECIFICATION Spec
CONSTANTS
    user1 = user1  user2 = user2  pda1 = pda1
    inv1 = inv1  inv2 = inv2  sub1 = sub1  tree1 = tree1
    NoKey = NoKey  NoSub = NoSub  NoTerm = NoTerm  NoListing = NoListing
    Users = {user1, user2}
    Pdas = {pda1}
    Invoices = {inv1, inv2}
    Subs = {sub1}
    Frequencies = {1}
    Terms = {1}
    Ago = {0, 1}
    MaxTime = 1
    Trees = {tree1}
    TreeOf <- OneTree
    PdaOf <- ItsPda
    Prices = {100}
    Treasury = user2
    Purse <- OneBuyer
SYMMETRY TwoInvoices
INVARIANTS MintedOncePerPeriod MintedWithinTerm
PROPERTIES ListedKeepsPeriods SoldForThePrice ImplementsEscrow
CHECK_DEADLOCK FALSE
