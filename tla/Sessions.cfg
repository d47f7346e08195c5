\* Two connections, so that one can be listed behind the other; three messages, so that two users
\* can be logged in when a third is handled or a connection ends.
CONSTANTS
    Sockets = {s1, s2}
    Users = {alice, bob}
    Workers = {w1}
    MaxMessages = 3
    None = none
    s1 = s1
    s2 = s2
    alice = alice
    bob = bob
    w1 = w1
    none = none
SPECIFICATION FairSpec
INVARIANTS
    ListIsExact
    DeletedOnce
PROPERTIES
    MessagesAreHandled
    DisconnectionsEnd
\* The process may have crashed, or all connections may be over.
CHECK_DEADLOCK FALSE
