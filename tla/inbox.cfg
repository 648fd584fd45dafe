SPECIFICATION Spec
CONSTANTS
    ana = ana
    bea = bea
    salon = salon
    m4 = m4
    Phones = {ana, bea, salon}
    Senders = {ana, salon}
    Owner = salon
    Messages = {m1, m2, m4}
    From <- MCFrom
    NoMessage = NoMessage
    MaxLinks = 3
    Earlier <- MCEarlier
    EarlierLeft = {0, 2}
    MaxBookings = 3
    MaxVisits = 3
    Elsewhere <- MCElsewhere
    Ttl = 2
    Margin = 0
    MaxTime = 1
    MaxPerWindow = 1
    Window = 1
INVARIANTS OneAtATime HandledOnce RateHeld OneLiveProposal BookedOnce Disclosure
PROPERTIES ButtonIsLive QueueEmpties
