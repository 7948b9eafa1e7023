SPECIFICATION TwoAccountsSpec
CONSTANTS
    None = None
    u1 = u1
    u2 = u2
    c1 = c1
    c2 = c2
    m1 = m1
    m2 = m2
    User <- TwoUsers
    Customer <- TwoCustomers
    Method <- OneMethod
    OwnerOf <- First
    MaxDeliveries = 2
    Fails = TRUE
SYMMETRY AnyCustomer
CHECK_DEADLOCK FALSE
INVARIANTS
    SecretOfOwnCustomer
PROPERTIES
    DirectorySpec
