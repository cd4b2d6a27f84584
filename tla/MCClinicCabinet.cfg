SPECIFICATION FairSpec
CONSTANTS
    Patients = {c1, c2}
    Pharmacists = {f1, f2}
    Doctor = d
    Nobody = Nobody
    SEATS = 1
PROPERTIES
    EmptyingIsNoticed
CHECK_DEADLOCK FALSE
