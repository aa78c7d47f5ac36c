\* Three requests of two merchants who share a prefix, an edit and a fault.
SPECIFICATION FairSpec
CONSTANTS
    m1 = m1  m2 = m2  r1 = r1  r2 = r2  r3 = r3  e1 = e1
    NoProfile = NoProfile  NoRequest = NoRequest  NoMerchant = NoMerchant
    NoStamp = NoStamp  NoPrefix = NoPrefix
    Merchants = {m1, m2}
    Prefixes = {"INV"}
    Stamps = {4711}
    Requests = {r1, r2, r3}
    Asks <- TwoAndOne
    Edits = {e1}
    NextNumbers = {1}
    InitialProfiles <- NewOrNone
    Attempts = 2
    MaxFaults = 1
INVARIANTS NoNumberLost BeatenByAnother EncryptedOrGone
PROPERTIES NumberedInOrder EveryRequestEnds
CHECK_DEADLOCK FALSE
