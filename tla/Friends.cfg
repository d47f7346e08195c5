\* Two users, either of whom may ask, accept, refuse and end; two workers.
CONSTANTS
    Users = {alice, bob}
    Handlers = {h1, h2}
    Ops = {"request", "accept", "unfriend", "refuse", "list"}
    Nobody = nobody
    alice = alice
    bob = bob
    h1 = h1
    h2 = h2
    nobody = nobody
SPECIFICATION FairSpec
INVARIANTS
    FriendshipIsMutual
    CheckedRequestStays
    NoLockOutlivesItsHandler
PROPERTIES
    ImplementsFriendship
    RefusalNeedsConflict
    EveryHandlerReturns
