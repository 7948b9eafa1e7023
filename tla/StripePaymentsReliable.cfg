SPECIFICATION FairSpec
CONSTANTS
    None = None
    u1 = u1
    u2 = u2
    c1 = c1
    c2 = c2
    x1 = x1
    x2 = x2
    User <- TwoUsers
    Customer <- TwoCustomers
    Push <- TwoPushes
    UserOf <- ByBoth
    MaxDeliveries = 1
    Redelivered = FALSE
    NetworkFails = FALSE
    WriteFails = FALSE
    Crashes = FALSE
INVARIANTS
    ErrorMeansUncharged
PROPERTIES
    SuccessSticks
    Answered
    Reconfirmed
