SPECIFICATION ScreenSpec
CONSTANTS
    i1 = i1
    i2 = i2
    chefA = chefA
    chefB = chefB
    a1 = a1
    p1 = p1
    p2 = p2
    NoChef = NoChef
    Item <- Items
    ChefOf <- Chefs
    AddCall <- OneAdd
    PlaceCall <- TwoPlaces
    Gesture = {"max"}
    MaxExtra = 1
    Fails = TRUE
CHECK_DEADLOCK FALSE
INVARIANTS
    ButtonsMeanBag
    OneChefIfInformed
    PaymentToBagsChef
    OnePlacementAtATime
PROPERTIES
    ProceedComesBack
    CheckLearnsOfBag
