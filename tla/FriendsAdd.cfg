\* The same with addFriend, whose transaction can stay open when its commit times out.
CONSTANTS
    Users = {alice, bob}
    Handlers = {h1, h2}
    Ops = {"add", "list"}
    Nobody = nobody
    alice = alice
    bob = bob
    h1 = h1
    h2 = h2
    nobody = nobody
SPECIFICATION TimeoutSpec
PROPERTIES
    EveryHandlerReturns
