SPECIFICATION Spec
CONSTANTS
    Turns = {1, 2, 3}
    Users = {maria}
    Phones = {salon}
    Owner = salon
    Nobody = Nobody
    MaxConversations = 2
    MaxDay = 1
    Ceiling = 3
    Reserve = 1
    MaxIterations = 2
    SummaryEvery = 4
    MaxMessages = 4
    MaxPerDay = 2
PROPERTY OwnerIsForGood
