SPECIFICATION BackendSpec
CONSTANTS
    None = None
    u1 = u1
    c1 = c1
    c2 = c2
    x1 = x1
    m1 = m1
    User <- OneUser
    Customer <- TwoCustomers
    Push <- OnePush
    UserOf <- ByFirst
    Method <- OneMethod
    OwnerOf <- First
    MaxDeliveries = 2
    AccountDeliveries = 1
    Fails = TRUE
    Redelivered = FALSE
    NetworkFails = FALSE
    WriteFails = FALSE
    Crashes = FALSE
CHECK_DEADLOCK FALSE
INVARIANTS
    CustomersInUseWereStored
PROPERTIES
    DeletedBeforeDropped
