SPECIFICATION CallsSpec
CONSTANTS
    i1 = i1
    i2 = i2
    chefA = chefA
    chefB = chefB
    a1 = a1
    a2 = a2
    k1 = k1
    k2 = k2
    p1 = p1
    NoChef = NoChef
    Item <- Items
    ChefOf <- Chefs
    Price <- Prices
    MaxQuantity = 2
    AddCall <- TwoAdds
    ClearCall <- TwoClears
    PlaceCall <- OnePlace
    Retries = 1
    LostAck = TRUE
    Fails = TRUE
    PlaceFails = TRUE
CHECK_DEADLOCK FALSE
INVARIANTS
    BagHoldsWhatWasAdded
    TotalIsSumOfParts
    QuantityAgrees
PROPERTIES
    BagSpec
    CallsEnd
