SPECIFICATION Spec
CONSTANTS
    None = None
    u1 = u1
    u2 = u2
    c1 = c1
    c2 = c2
    x1 = x1
    x2 = x2
    User <- TwoUsers
    Customer <- TwoCustomers
    Push <- OnePush
    UserOf <- ByFirst
    MaxDeliveries = 2
    Redelivered = TRUE
    NetworkFails = TRUE
    WriteFails = TRUE
    Crashes = TRUE
INVARIANTS
    TypeOK
    AtMostOneCharge
    DocNeverAhead
    ChargedToOwner
