SPECIFICATION FairSpec
CONSTANTS
    u1 = u1
    d1 = d1
    User <- OneUser
    Id <- OneId
PROPERTIES
    AddedMethodsStartTheFunction
