SPECIFICATION FairDeliverySpec
CONSTANTS
    m1 = m1
    m2 = m2
    m3 = m3
    r1 = r1
    r2 = r2
    r3 = r3
    s1 = s1
    Events <- MCEvents
    Receivers = {r1, r2}
    Impatient = {r1}
    Stoppers = {s1}
    Sizes <- MCSizes
    RecvOptions <- MCPairs
    MaxPieces = 2
PROPERTIES
    ReceivesGetEvents
