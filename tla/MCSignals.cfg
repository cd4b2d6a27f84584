SPECIFICATION FairSpec
CONSTANTS
    Senders = {s1, s2, s3}
    Nobody = Nobody
INVARIANTS
    TypeOK
    ObeyedOnce
    ConfirmedWereTaken
PROPERTIES
    SendersAreConfirmed
CHECK_DEADLOCK FALSE
