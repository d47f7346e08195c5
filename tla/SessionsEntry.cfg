CONSTANTS
    Sockets = {s1, s2, s3}
    Users = {alice, bob}
    Workers = {w1, w2}
    MaxMessages = 2
    None = none
    s1 = s1
    s2 = s2
    s3 = s3
    alice = alice
    bob = bob
    w1 = w1
    w2 = w2
    none = none
SPECIFICATION Spec
INVARIANTS
    HandlerActsForItsClient
CHECK_DEADLOCK FALSE
