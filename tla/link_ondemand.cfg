SPECIFICATION FairSpec
CONSTANTS
    c1 = c1
    c2 = c2
    c3 = c3
    Contacts <- MCContacts
    NoContact = NoContact
    LinkType = "ONDEMAND"
    Commands = {"open", "close", "delete", "bundle"}
    MinRetry = 1
    MaxRetry = 3
    QueueBound = 3
INVARIANTS
    DeadContactWillClose
PROPERTIES
    NoNewContactOnceDeleted
    DeletedLinkReleased
CHECK_DEADLOCK FALSE
