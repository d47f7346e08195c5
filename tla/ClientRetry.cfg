CONSTANTS
    Users = {alice}
    Known = {alice}
    Friends = {carol}
    Groups = {club}
    MaxClicks = 3
    MaxLost = 1
    MaxLive = 1
    None = none
    alice = alice
    carol = carol
    club = club
    none = none
SPECIFICATION Spec
PROPERTY RetriesWhenUnanswered
CHECK_DEADLOCK FALSE
