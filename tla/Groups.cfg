CONSTANTS
    Users = {alice, bob, carol}
    Workers = {w1, w2}
    MaxRequests = 2
    None = none
    alice = alice
    bob = bob
    carol = carol
    w1 = w1
    w2 = w2
    none = none
SPECIFICATION FairSpec
INVARIANTS
    SameOrder
    HearsOwnGroups
PROPERTIES
    NoticesAreTrue
    ImplementsGroupService
    EveryRequestIsAnswered
CHECK_DEADLOCK FALSE
