SPECIFICATION Spec
CONSTANTS
    Ids = {r1, r2}
    Procs = {p1, p2}
    Workers = {1, 2}
    Default = 0
    NoWorker = NoWorker
    NoId = NoId
    Clients = {}
    Admin = Admin
    Ops = {"create", "cancel", "reschedule"}
    Starts = {1, 2}
    Durations = {2}
    DayLen = 5
    Open = 1
    Close = 4
    MinLead = 0
    PurgeAge = 1
    MaxTime = 1
    MaxRestarts = 0
SYMMETRY Symmetry
INVARIANTS TypeOK NoWorkerOverlap WorkersExist SnapshotsAgree RequestsAdvance
PROPERTIES ImplementsCalendar
