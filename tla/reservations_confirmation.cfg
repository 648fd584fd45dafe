SPECIFICATION Spec
CONSTANTS
    Ids = {r1}
    Procs = {p1, p2}
    Workers = {}
    Default = 0
    NoWorker = NoWorker
    NoId = NoId
    Clients = {ana}
    Admin = Admin
    Ops <- Every
    Starts = {1, 2, 5}
    Durations = {1}
    DayLen = 4
    Open = 1
    Close = 3
    MinLead = 1
    PurgeAge = 1
    MaxTime = 5
    MaxRestarts = 1
PROPERTIES ConfirmationIsKept
