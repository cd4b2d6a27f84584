SPECIFICATION FairSpec
CONSTANTS
    Users = {u1, u2}
    Printers = {p1, p2}
    Tasks = {a, b}
    Blank = Blank
    QUEUE_SIZE = 2
INVARIANTS
    TypeOK
    MutualExclusion
    RingConsistent
    IndicesApart
PROPERTIES
    ImplementsSpool
    TasksAreTaken
