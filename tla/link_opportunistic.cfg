SPECIFICATION FairSpec
CONSTANTS
    c1 = c1
    c2 = c2
    c3 = c3
    Contacts <- MCContacts
    NoContact = NoContact
    LinkType = "OPPORTUNISTIC"
    Commands = {"open", "close", "set_available", "set_unavailable", "delete", "discovered", "beacon_lost", "bundle", "inbound"}
    MinRetry = 1
    MaxRetry = 3
    QueueBound = 3
INVARIANTS
    OneConnection
CHECK_DEADLOCK FALSE
