SPECIFICATION FairSpec
CONSTANTS
    None = None
    u1 = u1
    u2 = u2
    c1 = c1
    c2 = c2
    m1 = m1
    m2 = m2
    User <- TwoUsers
    Customer <- TwoCustomers
    Method <- TwoMethods
    OwnerOf <- Both
    MaxDeliveries = 1
    Fails = FALSE
CHECK_DEADLOCK FALSE
INVARIANTS
    NoForgottenCustomer
PROPERTIES
    SettledAccountsAreCleaned
