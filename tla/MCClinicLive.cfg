SPECIFICATION FairSpec
CONSTANTS
    Patients = {c1, c2, c3}
    Pharmacists = {f1}
    Doctor = d
    Nobody = Nobody
    SEATS = 2
PROPERTIES
    ConsultedGoHome
    CareCompletes
CHECK_DEADLOCK FALSE
