SPECIFICATION Spec
CONSTANTS
    Patients = {c1, c2, c3, c4}
    Pharmacists = {f1, f2}
    Doctor = d
    Nobody = Nobody
    SEATS = 2
INVARIANTS
    TypeOK
    SeatsMatch
    ChoiceStillHolds
PROPERTIES
    ImplementsCare
CHECK_DEADLOCK FALSE
