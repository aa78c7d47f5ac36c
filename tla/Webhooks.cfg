\* One delivery: two passes at a time, the owner of the hook, and a crash or a
\* failed statement.
SPECIFICATION FairSpec
CONSTANTS
    h1 = h1  h2 = h2  e1 = e1  p1 = p1  p2 = p2
    NoHook = NoHook
    Hooks <- OneHook
    Events <- OneEvent
    Passes <- TwoPasses
    MaxAttempts = 2
    Threshold = 2
    BatchSize = 50
    Unreadable <- NoneOfThem
    MaxEdits = 1
    MaxFaults = 1
INVARIANTS GivenUpLate DisabledByFailures
PROPERTY EveryDeliverySettles
CHECK_DEADLOCK FALSE
