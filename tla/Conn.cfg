\* Three clients and two slots; clients hang up at any moment.
SPECIFICATION FairSpec
CONSTANTS
    c1 = c1
    c2 = c2
    c3 = c3
    NoClient = NoClient
    Clients = {c1, c2, c3}
    MAX_CONNECTIONS = 2
    MaxUnread = 1
INVARIANTS
    TypeOK
    CountIsExact
    WithinLimit
PROPERTIES
    BacklogServed
    SlotsReclaimed
\* Clients may stay away, and the server may be stopped.
CHECK_DEADLOCK FALSE
