SPECIFICATION FairSpec
CONSTANTS
    Patients = {c1, c2}
    Pharmacists = {f1}
    Doctor = d
    Nobody = Nobody
    SEATS = 2
PROPERTIES
    FullRoomIsSeen
CHECK_DEADLOCK FALSE
