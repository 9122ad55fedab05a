SPECIFICATION FairSpec
CONSTANTS
    c1 = c1
    c2 = c2
    c3 = c3
    Contacts <- MCContacts
    NoContact = NoContact
    LinkType = "ALWAYSON"
    Commands = {"open", "close", "set_available", "set_unavailable", "beacon_lost", "bundle"}
    MinRetry = 1
    MaxRetry = 3
    QueueBound = 3
INVARIANTS
    TypeOK
    OpenIsServed
    RetryPending
    UnavailableAssertHolds
PROPERTIES
    ReopenedAfterBreak
    CloseCompletes
