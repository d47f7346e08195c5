CONSTANTS
    Users = {alice, bob}
    Friends = {carol, dave}
    Groups = {club}
    Known = {alice}
    MaxClicks = 4
    MaxLost = 2
    MaxLive = 1
    None = none
    alice = alice
    bob = bob
    carol = carol
    dave = dave
    club = club
    none = none
SPECIFICATION FairSpec
INVARIANTS
    LoggedInAsOneself
    NoGroupBehindThePage
    HistoryAtRest
    LiveIsOfOpenChat
PROPERTIES
    HistoryArrives
CHECK_DEADLOCK FALSE
