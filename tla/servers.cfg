\* The servers with room for two of three clients.  A server whose
\* clients have nothing more to say waits for ever.
CONSTANTS
    MaxClients = 3
    Limit = 2
    MaxSends <- Sends
SPECIFICATION Spec
INVARIANTS
    TableExact
    WatchedOnce
    HeardFromOthers
PROPERTIES
    AllServed
CHECK_DEADLOCK FALSE
