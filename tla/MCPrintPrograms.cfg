SPECIFICATION ProgramsSpec
CONSTANTS
    Users = {u1, u2}
    Printers = {p1}
    Tasks = {a}
    Blank = Blank
    QUEUE_SIZE = 2
INVARIANTS
    ProgramsTypeOK
    RestartsExclude
    PlacesAccounted
PROPERTIES
    WedgedForever
