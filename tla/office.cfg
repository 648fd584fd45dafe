SPECIFICATION Spec
CONSTANTS
    \* The assistant's tools.
    People = {"ana", "adm"}
    Administrator = "adm"
    Numbers = {"p1", "p2", "boss", "fx"}
    Foreign = {"fx"}
    Salon = "boss"
    None = "none"
    Slots = {1, 2, 3}
    Before <- BookedBefore
    MaxAgenda = 6
    LastHour = 1
    MaxTurns = 2
    ENFRIAMIENTO_CONTACTO = 1
    MAX_TOOL_ITERATIONS = 3
    MAX_VUELTAS_SIN_NOVEDAD = 2
    PRIMERA_VUELTA_QUE_SE_JUZGA = 2
    Asked <- AskedFor
    \* The board of questions.
    Clerks = {c1, c2}
    Oldest <- OldestOrders
    MaxFaqs = 3
    Explicit = {0, 1}
    \* The catalogue.
    Names = {"corte"}
    Images = {"i1", "i2", "i3"}
    Tags <- TagNames
    Gender <- GenderTag
    Null = "none"
    Resolved <- ResolvedServices
    Tree <- SeededTree
    Listings <- ListedImages
    MaxJobs = 4
    \* The staff.
    Actors = {a1, a2, a3}
    MaxHired = 3
SYMMETRY Symmetry
CHECK_DEADLOCK FALSE
INVARIANTS EffectsToldOnce EffectsHaveAnOwner OrderIsKept CatalogueIsSound
    StaffIsSound
PROPERTIES SalonTimeAgrees SearchKeepsItsWord JudgesOnlyAdvise WordsKeepTheirMeaning
